------------------------- MODULE EvaluationRunProofs -------------------------
(***************************************************************************)
(* Proofs about EvaluationRun, for any corpus, number of attempts and      *)
(* gateway: what stage one measures, what the exit code says, and which    *)
(* sessions are left behind.                                               *)
(***************************************************************************)
EXTENDS EvaluationRun, TLAPS

(* The stages come one after the other. *)
OrderInv ==
  /\ op \in {"detect", "pseudonymize", "depseudonymize"} => stage = 1
  /\ op = "chat" => stage = 2
  /\ exit # "none" <=> op = "ended"
  /\ op = "report" \/ exit \in {"ok", "leak"} => doc = Size /\ (stage = 2 \/ 2 \notin enabled)

(* The stages before the current one. *)
Passed(s) == s[1] < doc \/ (s[1] = doc /\ s[2] < stage)

(* A late call belongs to a stage that has begun, and a late delete to one *)
(* whose calls are over.                                                   *)
LateInv ==
  /\ op \in {"health", "load"} => late = {}
  /\ \A call \in late :
       /\ call.session \in deserted
       /\ Passed(call.session) \/ call.session = Current
       /\ call.op = "delete" /\ call.session = Current => op \notin Posts

(* Only the current session, and deserted ones, are stored. *)
StoredInv ==
  \A s \in Sessions \ deserted : stored[s] # NoFake => s = Current /\ op \in Calls

(* The gateway still holds the fake of the text it is to restore. *)
SentInv ==
  op = "depseudonymize" =>
    /\ outcome[Current].outbound # NoFake
    /\ stored[Current] = outcome[Current].outbound

RestoredInv ==
  \A d \in Documents :
    LET result == outcome[<<d, 1>>]
    IN  result.error = "none" /\ result.outbound # NoFake =>
          result.restored \/ (<<d, 1>> = Current /\ op = "depseudonymize")

(* A stage that is over has its text back or an error. *)
Finished == op \in {"delete", "audit", "broken", "report"} \/ exit \in {"ok", "leak"}

DoneInv ==
  \A s \in Sessions :
    s[2] \in enabled /\ (Passed(s) \/ (s = Current /\ Finished)) =>
      outcome[s].restored \/ outcome[s].error # "none"

(* The documents whose authoritative stage has been audited are in leaks   *)
(* when something was found.                                               *)
Audited(d) ==
  \/ d < doc
  \/ d = doc /\ (Authority < stage \/ op = "report" \/ exit \in {"ok", "leak"})

Leaking(d) == Findings(d, outcome[<<d, Authority>>].outbound) # {}

VerdictInv ==
  /\ leaks = {d \in Documents : Audited(d) /\ Leaking(d)}
  /\ exit = "ok" => leaks = {}
  /\ exit = "leak" => leaks # {}

-----------------------------------------------------------------------------
(* The run, its results and the gateway keep their shape. *)
THEOREM TypeCorrect == Spec => []TypeOK
<1> USE SizeAssumption, AttemptsAssumption DEF Documents, Stages, Sessions, Calls, Posts,
      Writers, Exits
<1>1. Init => TypeOK
  <2> SUFFICES ASSUME Init PROVE TypeOK
    OBVIOUS
  <2>1. stage \in enabled
    <3>1. \E s \in enabled : \A r \in enabled : s <= r
      BY DEF Init
    <3>2. QED
      BY <3>1 DEF Init
  <2>2. QED
    BY <2>1 DEF Init, TypeOK, Untouched
<1>2. TypeOK /\ [Next]_vars => TypeOK'
  <2> SUFFICES ASSUME TypeOK, [Next]_vars PROVE TypeOK'
    OBVIOUS
  <2> USE DEF TypeOK
  <2>0. Current \in Sessions
    BY DEF Current
  <2>1. CASE CannotRun \/ Healthy \/ Load \/ BreakOff \/ Report
    BY <2>1 DEF CannotRun, Healthy, Load, BreakOff, Report, FirstCall
  <2>2. \A call \in Calls, s \in Sessions :
           Effects(call, s) \subseteq [Sessions -> Fakes \cup {NoFake}]
    BY DEF Effects
  <2>3. CASE Answer
    <3>1. PICK after \in Effects(op, SessionOf(doc, stage)) :
            /\ stored' = after
            /\ outcome' = [outcome EXCEPT ![Current] =
                             Kept(op, @, SessionOf(doc, stage), after)]
      BY <2>3 DEF Answer
    <3>2. after \in [Sessions -> Fakes \cup {NoFake}]
      BY <2>2, <2>3, <3>1, <2>0 DEF Answer, SessionOf, Current
    <3>3. Kept(op, outcome[Current], SessionOf(doc, stage), after)
            \in [spans : BOOLEAN, outbound : Fakes \cup {NoFake}, restored : BOOLEAN,
                 error : {"none", "gateway", "unreadable"}]
      <4> DEFINE result == outcome[Current]
                 s == SessionOf(doc, stage)
      <4>1. /\ result \in [spans : BOOLEAN, outbound : Fakes \cup {NoFake}, restored : BOOLEAN,
                            error : {"none", "gateway", "unreadable"}]
            /\ after[s] \in Fakes \cup {NoFake}
        BY <2>0, <3>2 DEF SessionOf, Current
      <4> HIDE DEF result, s
      <4>2. Kept(op, result, s, after)
              \in [spans : BOOLEAN, outbound : Fakes \cup {NoFake}, restored : BOOLEAN,
                   error : {"none", "gateway", "unreadable"}]
        <5>1. CASE op = "detect"
          BY <4>1, <5>1 DEF Kept
        <5>2. CASE op = "pseudonymize"
          BY <4>1, <5>2 DEF Kept
        <5>3. CASE op = "depseudonymize"
          BY <4>1, <5>3 DEF Kept
        <5>4. CASE op = "chat"
          BY <4>1, <5>4 DEF Kept
        <5>5. QED
          BY <2>3, <5>1, <5>2, <5>3, <5>4 DEF Answer
      <4>3. QED
        BY <4>2 DEF result, s
    <3>4. QED
      BY <2>3, <2>0, <3>1, <3>2, <3>3 DEF Answer, FollowedBy
  <2> DEFINE Outcomes == [spans : BOOLEAN, outbound : Fakes \cup {NoFake}, restored : BOOLEAN,
                         error : {"none", "gateway", "unreadable"}]
  <2>3a. \A error \in {"gateway", "unreadable"} :
           FailStage(error) => outcome' \in [Sessions -> Outcomes]
    <3>1. \A error \in {"gateway", "unreadable"} :
            [outcome[Current] EXCEPT !.error = error] \in Outcomes
      <4>1. outcome[Current] \in Outcomes
        BY <2>0
      <4>2. QED
        BY <4>1
    <3>2. SUFFICES ASSUME NEW error \in {"gateway", "unreadable"}, FailStage(error)
                   PROVE  outcome' \in [Sessions -> Outcomes]
      OBVIOUS
    <3>3. outcome' = [outcome EXCEPT ![Current] = [@ EXCEPT !.error = error]]
      BY <3>2 DEF FailStage
    <3>4. [outcome[Current] EXCEPT !.error = error] \in Outcomes
      BY <3>1
    <3> HIDE DEF Outcomes
    <3>5. outcome \in [Sessions -> Outcomes]
      BY DEF Outcomes
    <3>6. QED
      BY <3>3, <3>4, <3>5
  <2>4. CASE Refuse \/ Misread
    <3>1. stored' \in [Sessions -> Fakes \cup {NoFake}]
      BY <2>0, <2>2, <2>4 DEF Refuse, Misread, SessionOf, Current
    <3>2. QED
      BY <2>4, <2>3a, <3>1 DEF Refuse, Misread, FailStage
  <2>5. ASSUME Desert
        PROVE  /\ \A call \in late' : /\ call.session \in Sessions /\ call.op \in Writers
                                      /\ call.try \in 0 .. Attempts - 1
               /\ deserted' \subseteq Sessions
    BY <2>0, <2>5 DEF Desert, SessionOf, Current
  <2>6. CASE Break
    <3>1. CASE tries + 1 < Attempts
      BY <2>5, <2>6, <3>1 DEF Break, Desert
    <3>2. CASE ~(tries + 1 < Attempts)
      BY <2>3a, <2>5, <2>6, <3>2 DEF Break, Desert, FailStage
    <3>3. QED
      BY <3>1, <3>2
  <2>7. CASE Delete
    <3>1. CASE Desert
      BY <2>5, <2>7, <3>1 DEF Delete, Desert
    <3>2. CASE stored' \in Effects(op, SessionOf(doc, stage)) /\ UNCHANGED <<enabled, doc,
                 stage, scored, leaks, leakFree, exit, late, deserted>>
      BY <2>0, <2>2, <2>7, <3>2 DEF Delete, SessionOf, Current
    <3>3. QED
      BY <2>7, <3>1, <3>2 DEF Delete
  <2>8. CASE Audit
    BY <2>8 DEF Audit, MoveOn, FirstCall, Authority
  <2>9. CASE ExecuteLate
    BY <2>2, <2>9 DEF ExecuteLate, harness
  <2>10. CASE \E s \in Sessions : Expire(s)
    BY <2>10 DEF Expire, harness
  <2>11. CASE Over \/ UNCHANGED vars
    BY <2>11 DEF Over, vars, harness
  <2>12. QED
    BY <2>1, <2>3, <2>4, <2>6, <2>7, <2>8, <2>9, <2>10, <2>11 DEF Next, HarnessStep
<1>3. QED
  BY <1>1, <1>2, PTL DEF Spec

-----------------------------------------------------------------------------
(* Each part of the inductive invariant is kept by every step. *)

LEMMA OrderKept ==
  TypeOK /\ OrderInv /\ [Next]_vars => OrderInv'
<1> SUFFICES ASSUME TypeOK, OrderInv, [Next]_vars PROVE OrderInv'
  OBVIOUS
<1> USE SizeAssumption DEF OrderInv, Posts, Calls, Stages, Documents
<1>1. CASE CannotRun \/ Healthy \/ Load \/ BreakOff \/ Report
  BY <1>1 DEF TypeOK, CannotRun, Healthy, Load, BreakOff, Report, FirstCall
<1>2. CASE Answer
  BY <1>2 DEF TypeOK, Answer, FollowedBy
<1>3. CASE Refuse \/ Misread
  BY <1>3 DEF Refuse, Misread, FailStage
<1>4. CASE Break
  BY <1>4 DEF Break, Desert, FailStage
<1>5. CASE Delete
  BY <1>5 DEF Delete, Desert
<1>6. CASE Audit
  BY <1>6 DEF TypeOK, Audit, MoveOn, FirstCall, Authority
<1>7. CASE ExecuteLate \/ (\E s \in Sessions : Expire(s)) \/ Over \/ UNCHANGED vars
  BY <1>7 DEF ExecuteLate, Expire, Over, vars, harness
<1>8. QED
  BY <1>1, <1>2, <1>3, <1>4, <1>5, <1>6, <1>7 DEF Next, HarnessStep

(* When the run moves on, the stages before the new one are those before   *)
(* the old one, and the old one.                                           *)
LEMMA MovingOn ==
  ASSUME TypeOK, OrderInv, Audit,
         NEW s \in Sessions
  PROVE  /\ Passed(s) => Passed(s)'
         /\ op' # "report" /\ s = Current => Passed(s)' /\ Current' # s
         /\ op' # "report" /\ Passed(s) => Current' # s
         /\ op' = "report" => Current' = Current /\ (Passed(s)' => Passed(s))
         /\ s[2] \in enabled /\ Passed(s)' => Passed(s) \/ s = Current
         /\ op' \in {"detect", "chat", "report"}
<1> USE SizeAssumption
<1>1. PICK d \in Documents, g \in Stages : s = <<d, g>>
  BY DEF Sessions
<1>2. doc \in Nat /\ stage \in {1, 2} /\ d \in Nat /\ g \in {1, 2} /\ stage \in enabled
  BY DEF TypeOK, Documents, Stages
<1>3. /\ Passed(s) <=> (d < doc \/ (d = doc /\ g < stage))
      /\ Passed(s)' <=> (d < doc' \/ (d = doc' /\ g < stage'))
  BY <1>1 DEF Passed
<1>3a. /\ s = Current <=> d = doc /\ g = stage
       /\ s = Current' <=> d = doc' /\ g = stage'
       /\ Current' = Current <=> doc' = doc /\ stage' = stage
  BY <1>1 DEF Current
<1>3b. g = s[2] /\ enabled' = enabled
  BY <1>1 DEF Audit
<1>4. \/ stage = 1 /\ 2 \in enabled /\ stage' = 2 /\ doc' = doc /\ op' = "chat"
      \/ /\ stage = 2 \/ 2 \notin enabled
         /\ doc' = doc + 1 /\ stage' = Authority /\ op' \in {"detect", "chat"}
      \/ /\ stage = 2 \/ 2 \notin enabled
         /\ op' = "report" /\ doc' = doc /\ stage' = stage
  BY <1>2 DEF Audit, MoveOn, FirstCall
<1>5. Authority \in {1, 2} /\ (Authority = 2 => 1 \notin enabled)
  BY DEF Authority
<1>6. CASE stage = 1 /\ 2 \in enabled /\ stage' = 2 /\ doc' = doc /\ op' = "chat"
  <2>1. Passed(s) => Passed(s)'
    BY <1>2, <1>3, <1>6
  <2>2. s = Current => Passed(s)' /\ Current' # s
    BY <1>2, <1>3, <1>3a, <1>6
  <2>3. Passed(s) => Current' # s
    BY <1>2, <1>3, <1>3a, <1>6
  <2>4. ASSUME Passed(s)', ~Passed(s) PROVE d = doc /\ g = stage
    BY <1>2, <1>3, <1>6, <2>4
  <2>5. QED
    BY <1>3a, <1>6, <2>1, <2>2, <2>3, <2>4, Zenon
<1>7. CASE /\ stage = 2 \/ 2 \notin enabled
           /\ doc' = doc + 1 /\ stage' = Authority /\ op' \in {"detect", "chat"}
  <2>1. Passed(s) => Passed(s)'
    BY <1>2, <1>3, <1>7
  <2>2. s = Current => Passed(s)' /\ Current' # s
    BY <1>2, <1>3, <1>3a, <1>7
  <2>3. Passed(s) => Current' # s
    BY <1>2, <1>3, <1>3a, <1>7
  <2>4. ASSUME Passed(s)', ~Passed(s), s[2] \in enabled PROVE d = doc /\ g = stage
    <3>1. d < doc + 1 \/ (d = doc + 1 /\ g < Authority)
      BY <1>3, <1>7, <2>4
    <3>2. ~(g < Authority)
      BY <1>2, <1>3b, <1>5, <2>4
    <3>3. d = doc /\ ~(g < stage)
      BY <1>2, <1>3, <2>4, <3>1, <3>2
    <3>4. QED
      BY <1>2, <1>3b, <1>7, <2>4, <3>3
  <2>5. op' # "report"
    BY <1>7
  <2>6. QED
    BY <1>3a, <1>3b, <1>7, <2>1, <2>2, <2>3, <2>4, <2>5, Zenon
<1>8. CASE /\ stage = 2 \/ 2 \notin enabled
           /\ op' = "report" /\ doc' = doc /\ stage' = stage
  BY <1>2, <1>3, <1>3a, <1>8
<1>9. QED
  BY <1>4, <1>6, <1>7, <1>8

LEMMA LateKept ==
  TypeOK /\ OrderInv /\ LateInv /\ [Next]_vars => LateInv'
<1> SUFFICES ASSUME TypeOK, OrderInv, LateInv, [Next]_vars PROVE LateInv'
  OBVIOUS
<1> USE DEF LateInv, Posts, Calls
<1>1. CASE CannotRun \/ Healthy \/ Load \/ BreakOff \/ Report
  BY <1>1 DEF CannotRun, Healthy, Load, BreakOff, Report, Passed, Current
<1>2. CASE Answer
  BY <1>2 DEF Answer, FollowedBy, Passed, Current
<1>3. CASE Refuse \/ Misread
  BY <1>3 DEF Refuse, Misread, FailStage, Passed, Current
<1>4. ASSUME Desert
      PROVE  \A call \in late' :
               /\ call.session \in deserted'
               /\ Passed(call.session)' \/ call.session = Current'
               /\ \/ call \in late
                  \/ call.op = op
  BY <1>4 DEF Desert, SessionOf, Passed, Current
<1>5. CASE Break
  <2>1. op \in Posts /\ op' \in Posts \cup {"delete"} /\ Current' = Current
    BY <1>5 DEF Break, Desert, FailStage, Current
  <2>2. QED
    BY <1>4, <1>5, <2>1 DEF Break
<1>6. CASE Delete
  <2>1. CASE Desert
    BY <1>4, <1>6, <2>1 DEF Delete
  <2>2. CASE UNCHANGED <<enabled, doc, stage, scored, leaks, leakFree, exit, late, deserted>>
    BY <1>6, <2>2 DEF Delete, Passed, Current
  <2>3. QED
    BY <1>6, <2>1, <2>2 DEF Delete
<1>7. CASE Audit
  <2>1. late' = late /\ deserted' = deserted
    BY <1>7 DEF Audit
  <2>2. op \notin Posts /\ op' \notin {"health", "load"}
    BY <1>7, MovingOn, <2>1 DEF Audit, MoveOn, FirstCall, Authority
  <2>3. ASSUME NEW call \in late
        PROVE  /\ call.session \in deserted
               /\ Passed(call.session)' \/ call.session = Current'
               /\ call.session = Current' => op' \notin Posts
    <3>1. call.session \in Sessions /\ (Passed(call.session) \/ call.session = Current)
      BY DEF TypeOK
    <3>2. QED
      BY <1>7, <3>1, MovingOn
  <2>4. QED
    BY <2>1, <2>2, <2>3
<1>8. CASE ExecuteLate
  BY <1>8 DEF ExecuteLate, harness, Passed, Current
<1>9. CASE (\E s \in Sessions : Expire(s)) \/ Over \/ UNCHANGED vars
  BY <1>9 DEF Expire, Over, vars, harness, Passed, Current
<1>10. QED
  BY <1>1, <1>2, <1>3, <1>5, <1>6, <1>7, <1>8, <1>9 DEF Next, HarnessStep

LEMMA StoredKept ==
  TypeOK /\ LateInv /\ StoredInv /\ [Next]_vars => StoredInv'
<1> SUFFICES ASSUME TypeOK, LateInv, StoredInv, [Next]_vars PROVE StoredInv'
  OBVIOUS
<1> USE DEF StoredInv, Posts, Calls
<1>0. Current \in Sessions /\ stored \in [Sessions -> Fakes \cup {NoFake}]
  BY DEF TypeOK, Current, Sessions
<1>1. \A call \in {"detect", "pseudonymize", "depseudonymize", "chat", "delete"},
         t \in Sessions : \A after \in Effects(call, t), s \in Sessions :
        /\ s # t => after[s] = stored[s]
        /\ call = "delete" => after[t] = NoFake
  BY <1>0 DEF Effects
<1>2. CASE CannotRun \/ Healthy \/ Load \/ BreakOff \/ Report
  BY <1>2 DEF CannotRun, Healthy, Load, BreakOff, Report, Current
<1>3. CASE Answer \/ Refuse \/ Misread
  <2>1. /\ op \in Calls /\ op' \in Calls /\ Current' = Current /\ deserted' = deserted
        /\ stored' \in Effects(op, Current) \cup {stored}
    BY <1>3 DEF Answer, Refuse, Misread, FailStage, FollowedBy, Current, SessionOf
  <2>2. \A s \in Sessions : s # Current => stored'[s] = stored[s]
    BY <1>0, <1>1, <2>1
  <2>3. QED
    BY <2>1, <2>2
<1>4. CASE Break
  BY <1>4 DEF Break, Desert, FailStage, Current
<1>5. CASE Delete
  <2>1. CASE Desert
    BY <1>5, <2>1 DEF Delete, Desert, SessionOf, Current
  <2>2. CASE /\ stored' \in Effects(op, SessionOf(doc, stage))
             /\ UNCHANGED <<enabled, doc, stage, scored, leaks, leakFree, exit, late,
                            deserted>>
    BY <1>0, <1>1, <1>5, <2>2 DEF Delete, SessionOf, Current
  <2>3. QED
    BY <1>5, <2>1, <2>2 DEF Delete
<1>6. CASE Audit
  BY <1>6 DEF Audit
<1>7. CASE ExecuteLate
  <2>1. PICK call \in late : stored' \in Effects(call.op, call.session)
    BY <1>7 DEF ExecuteLate
  <2>2. /\ call.session \in Sessions /\ call.session \in deserted
        /\ call.op \in {"pseudonymize", "chat", "delete"}
    BY DEF TypeOK, LateInv, Writers
  <2>3. \A s \in Sessions \ deserted : stored'[s] = stored[s]
    BY <1>1, <2>1, <2>2
  <2>4. QED
    BY <1>7, <2>3 DEF ExecuteLate, harness, Current
<1>8. CASE \E s \in Sessions : Expire(s)
  BY <1>0, <1>8 DEF Expire, harness, Current
<1>9. CASE Over \/ UNCHANGED vars
  BY <1>9 DEF Over, vars, harness, Current
<1>10. QED
  BY <1>2, <1>3, <1>4, <1>5, <1>6, <1>7, <1>8, <1>9 DEF Next, HarnessStep

(* What a call makes of the result of its stage. *)
LEMMA KeptFields ==
  ASSUME TypeOK, Answer
  PROVE  \E after \in Effects(op, Current) :
           /\ stored' = after
           /\ \A s \in Sessions \ {Current} : outcome'[s] = outcome[s]
           /\ outcome'[Current].error = outcome[Current].error
           /\ op = "detect" => /\ outcome'[Current].outbound = outcome[Current].outbound
                              /\ outcome'[Current].restored = outcome[Current].restored
           /\ op = "pseudonymize" => outcome'[Current].outbound = after[Current]
           /\ op = "depseudonymize" =>
                /\ outcome'[Current].outbound = outcome[Current].outbound
                /\ outcome'[Current].restored =
                     (after[Current] = outcome[Current].outbound)
           /\ op = "chat" => outcome'[Current].restored = TRUE
<1>1. PICK after \in Effects(op, Current) :
        stored' = after /\ outcome' = [outcome EXCEPT ![Current] = Kept(op, @, Current, after)]
  BY DEF Answer, SessionOf, Current
<1>2. Current \in Sessions /\ DOMAIN outcome = Sessions
  BY DEF TypeOK, Current, Sessions
<1>3. outcome'[Current] = Kept(op, outcome[Current], Current, after)
  BY <1>1, <1>2
<1>4. outcome[Current] \in [spans : BOOLEAN, outbound : Fakes \cup {NoFake},
                           restored : BOOLEAN, error : {"none", "gateway", "unreadable"}]
  BY <1>2 DEF TypeOK
<1>5. /\ outcome'[Current].error = outcome[Current].error
      /\ op = "detect" => /\ outcome'[Current].outbound = outcome[Current].outbound
                         /\ outcome'[Current].restored = outcome[Current].restored
      /\ op = "pseudonymize" => outcome'[Current].outbound = after[Current]
      /\ op = "depseudonymize" =>
           /\ outcome'[Current].outbound = outcome[Current].outbound
           /\ outcome'[Current].restored = (after[Current] = outcome[Current].outbound)
      /\ op = "chat" => outcome'[Current].restored = TRUE
  <2>1. op \in {"detect", "pseudonymize", "depseudonymize", "chat"}
    BY DEF Answer, Posts, Calls
  <2>2. CASE op = "detect"
    BY <1>3, <1>4, <2>2 DEF Kept
  <2>3. CASE op = "pseudonymize"
    BY <1>3, <1>4, <2>3 DEF Kept
  <2>4. CASE op = "depseudonymize"
    BY <1>3, <1>4, <2>4 DEF Kept
  <2>5. CASE op = "chat"
    BY <1>3, <1>4, <2>5 DEF Kept
  <2>6. QED
    BY <2>1, <2>2, <2>3, <2>4, <2>5
<1>6. QED
  BY <1>1, <1>2, <1>5

(* A stage that fails has an error; the others keep what they have. *)
LEMMA FailFields ==
  ASSUME TypeOK, NEW error \in {"gateway", "unreadable"}, FailStage(error)
  PROVE  /\ \A s \in Sessions \ {Current} : outcome'[s] = outcome[s]
         /\ outcome'[Current].error # "none"
         /\ op' = "delete"
<1>1. Current \in Sessions /\ DOMAIN outcome = Sessions
  BY DEF TypeOK, Current, Sessions
<1>2. outcome[Current] \in [spans : BOOLEAN, outbound : Fakes \cup {NoFake},
                           restored : BOOLEAN, error : {"none", "gateway", "unreadable"}]
  BY <1>1 DEF TypeOK
<1>3. outcome' = [outcome EXCEPT ![Current] = [@ EXCEPT !.error = error]] /\ op' = "delete"
  BY DEF FailStage
<1>4. outcome'[Current] = [outcome[Current] EXCEPT !.error = error]
  BY <1>1, <1>3
<1>5. outcome'[Current].error = error
  BY <1>2, <1>4
<1>6. QED
  BY <1>1, <1>3, <1>5

LEMMA SentKept ==
  TypeOK /\ OrderInv /\ LateInv /\ SentInv /\ [Next]_vars => SentInv'
<1> SUFFICES ASSUME TypeOK, OrderInv, LateInv, SentInv, [Next]_vars, op' = "depseudonymize"
             PROVE  /\ outcome'[Current'].outbound # NoFake
                    /\ stored'[Current'] = outcome'[Current'].outbound
  BY DEF SentInv, Current
<1>0. Current \in Sessions /\ stored \in [Sessions -> Fakes \cup {NoFake}]
  BY DEF TypeOK, Current, Sessions
<1>1. CASE Answer
  <2>1. op = "pseudonymize" /\ Current' = Current
    BY <1>1 DEF Answer, FollowedBy, Posts, Calls, Current
  <2>2. \A after \in Effects("pseudonymize", Current) : after[Current] # NoFake
    BY <1>0, FakeAssumption DEF Effects
  <2>3. QED
    BY <1>1, <2>1, <2>2, KeptFields
<1>2. CASE Break
  BY <1>2 DEF Break, Desert, FailStage, SentInv, Current
<1>3. CASE ExecuteLate
  <2>1. PICK call \in late : stored' \in Effects(call.op, call.session)
    BY <1>3 DEF ExecuteLate
  <2>2. /\ call.session \in Sessions /\ call.op \in {"pseudonymize", "chat", "delete"}
        /\ call.session = Current => call.op # "delete"
        /\ op = "depseudonymize" /\ Current' = Current /\ outcome' = outcome
    BY <1>3 DEF ExecuteLate, harness, TypeOK, LateInv, Writers, Posts, Calls, Current
  <2>3. stored'[Current] = stored[Current]
    BY <1>0, <2>1, <2>2 DEF Effects, SentInv
  <2>4. QED
    BY <2>2, <2>3 DEF SentInv
<1>4. CASE \E s \in Sessions : Expire(s)
  <2>1. PICK s \in Sessions : Expire(s)
    BY <1>4
  <2>2. op = "depseudonymize" /\ Current' = Current /\ outcome' = outcome
    BY <2>1 DEF Expire, harness, Current
  <2>3. s # Current
    BY <2>1, <2>2 DEF Expire, Left, OrderInv, Current, TypeOK, Documents, Stages
  <2>4. QED
    BY <1>0, <2>1, <2>2, <2>3 DEF Expire, SentInv
<1>5. CASE Over \/ UNCHANGED vars
  BY <1>5 DEF Over, vars, harness, SentInv, Current
<1>6. QED
  BY <1>1, <1>2, <1>3, <1>4, <1>5 DEF Next, HarnessStep, CannotRun, Healthy, Load, Refuse,
     Misread, FailStage, Delete, BreakOff, Audit, MoveOn, Report, FirstCall

LEMMA RestoredKept ==
  TypeOK /\ OrderInv /\ SentInv /\ RestoredInv /\ [Next]_vars => RestoredInv'
<1> SUFFICES ASSUME TypeOK, OrderInv, SentInv, RestoredInv, [Next]_vars, NEW d \in Documents,
                    outcome'[<<d, 1>>].error = "none", outcome'[<<d, 1>>].outbound # NoFake
             PROVE  \/ outcome'[<<d, 1>>].restored
                    \/ <<d, 1>> = Current' /\ op' = "depseudonymize"
  BY DEF RestoredInv, Current
<1>0. <<d, 1>> \in Sessions /\ Current \in Sessions /\ DOMAIN outcome = Sessions
  BY DEF TypeOK, Current, Sessions, Stages
<1>1. CASE Answer
  <2>1. Current' = Current /\ op' = FollowedBy[op] /\ op \in Posts
    BY <1>1 DEF Answer, Current
  <2>2. CASE <<d, 1>> # Current
    BY <1>0, <1>1, <2>2, KeptFields DEF RestoredInv
  <2>3. CASE <<d, 1>> = Current
    <3>1. stage = 1 /\ op \in {"detect", "pseudonymize", "depseudonymize"}
      BY <2>1, <2>3 DEF Current, OrderInv, Posts, Calls
    <3>2. CASE op = "detect"
      BY <1>0, <1>1, <2>3, <3>2, KeptFields DEF RestoredInv
    <3>3. CASE op = "pseudonymize"
      BY <2>1, <2>3, <3>3 DEF FollowedBy
    <3>4. CASE op = "depseudonymize"
      <4>1. \A after \in Effects(op, Current) : after = stored
        BY <3>4 DEF Effects
      <4>2. QED
        BY <1>1, <2>3, <3>4, <4>1, KeptFields DEF SentInv
    <3>5. QED
      BY <3>1, <3>2, <3>3, <3>4
  <2>4. QED
    BY <2>2, <2>3
<1>3. CASE Refuse \/ Misread
  <2>1. \E error \in {"gateway", "unreadable"} : FailStage(error)
    BY <1>3 DEF Refuse, Misread
  <2>2. QED
    BY <1>0, FailFields, <2>1 DEF RestoredInv
<1>4. CASE Break
  <2>1. CASE tries + 1 < Attempts
    BY <1>4, <2>1 DEF Break, Desert, RestoredInv, Current
  <2>2. CASE ~(tries + 1 < Attempts)
    BY <1>0, FailFields, <1>4, <2>2 DEF Break, RestoredInv
  <2>3. QED
    BY <2>1, <2>2
<1>5. CASE CannotRun \/ Healthy \/ Load \/ Delete \/ BreakOff \/ Audit \/ Report
  <2>1. op # "depseudonymize" /\ outcome' = outcome
    BY <1>5 DEF CannotRun, Healthy, Load, Delete, BreakOff, Audit, Report
  <2>2. QED
    BY <2>1 DEF RestoredInv
<1>6. CASE ExecuteLate \/ (\E s \in Sessions : Expire(s)) \/ Over \/ UNCHANGED vars
  BY <1>6 DEF ExecuteLate, Expire, Over, vars, harness, RestoredInv, Current
<1>7. QED
  BY <1>1, <1>3, <1>4, <1>5, <1>6 DEF Next, HarnessStep

LEMMA DoneKept ==
  TypeOK /\ OrderInv /\ SentInv /\ DoneInv /\ [Next]_vars => DoneInv'
<1> SUFFICES ASSUME TypeOK, OrderInv, SentInv, DoneInv, [Next]_vars, NEW s \in Sessions,
                    s[2] \in enabled', Passed(s)' \/ (s = Current' /\ Finished')
             PROVE  outcome'[s].restored \/ outcome'[s].error # "none"
  BY DEF DoneInv, Passed, Current, Finished
<1>0. Current \in Sessions /\ ~Passed(Current)
  BY DEF TypeOK, Current, Sessions, Passed, Documents, Stages
<1> DEFINE Was == s[2] \in enabled /\ (Passed(s) \/ (s = Current /\ Finished))
<1>1. Was => outcome[s].restored \/ outcome[s].error # "none"
  BY DEF DoneInv
<1>2. CASE CannotRun \/ Healthy \/ Load \/ BreakOff \/ Report
  <2>1. Was /\ outcome' = outcome
    BY <1>2 DEF CannotRun, Healthy, Load, BreakOff, Report, OrderInv, Finished, FirstCall,
       Passed, Current
  <2>2. QED
    BY <1>1, <2>1
<1>3. CASE Answer
  <2>1. /\ enabled' = enabled /\ Current' = Current /\ (Passed(s)' <=> Passed(s))
        /\ exit = "none" /\ exit' = exit /\ op' = FollowedBy[op]
        /\ op \in {"detect", "pseudonymize", "depseudonymize", "chat"}
    BY <1>3 DEF Answer, Current, Passed, OrderInv, Posts, Calls
  <2>2. CASE s # Current
    BY <1>1, <1>3, <2>1, <2>2, KeptFields
  <2>3. CASE s = Current
    <3>1. Finished'
      BY <1>0, <2>1, <2>3
    <3>2. op \in {"depseudonymize", "chat"}
      BY <2>1, <3>1 DEF FollowedBy, Finished
    <3>3. CASE op = "depseudonymize"
      <4>1. \A after \in Effects(op, Current) : after = stored
        BY <3>3 DEF Effects
      <4>2. QED
        BY <1>3, <2>3, <3>3, <4>1, KeptFields DEF SentInv
    <3>4. CASE op = "chat"
      BY <1>3, <2>3, <3>4, KeptFields
    <3>5. QED
      BY <3>2, <3>3, <3>4
  <2>4. QED
    BY <2>2, <2>3
<1>4. ASSUME NEW error \in {"gateway", "unreadable"}, FailStage(error),
             UNCHANGED <<enabled, doc, stage>>
      PROVE  outcome'[s].restored \/ outcome'[s].error # "none"
  <2>1. CASE s = Current
    BY <1>4, <2>1, FailFields
  <2>2. CASE s # Current
    <3>1. Was /\ outcome'[s] = outcome[s]
      BY <1>4, <2>2, FailFields DEF Passed, Current
    <3>2. QED
      BY <1>1, <3>1
  <2>3. QED
    BY <2>1, <2>2
<1>5. CASE Refuse \/ Misread
  BY <1>4, <1>5 DEF Refuse, Misread
<1>6. CASE Break
  <2>1. CASE tries + 1 < Attempts
    <3>1. Was /\ outcome' = outcome
      BY <1>6, <2>1 DEF Break, Desert, Finished, Posts, Calls, Passed, Current
    <3>2. QED
      BY <1>1, <3>1
  <2>2. CASE ~(tries + 1 < Attempts)
    BY <1>4, <1>6, <2>2 DEF Break, Desert
  <2>3. QED
    BY <2>1, <2>2
<1>7. CASE Delete
  <2>1. Was /\ outcome' = outcome
    BY <1>7 DEF Delete, Desert, Finished, Passed, Current
  <2>2. QED
    BY <1>1, <2>1
<1>8. CASE Audit
  <2>1. outcome' = outcome /\ enabled' = enabled /\ exit' = exit /\ exit = "none"
        /\ op = "audit"
    BY <1>8 DEF Audit, OrderInv
  <2>2. Passed(s)' => Passed(s) \/ s = Current
    BY <1>8, <2>1, MovingOn
  <2>3. Finished' => op' = "report" /\ Current' = Current
    BY <1>8, <2>1, MovingOn DEF Finished
  <2>4. Was
    BY <2>1, <2>2, <2>3 DEF Finished
  <2>5. QED
    BY <1>1, <2>1, <2>4
<1>9. CASE ExecuteLate \/ (\E t \in Sessions : Expire(t)) \/ Over \/ UNCHANGED vars
  <2>1. Was /\ outcome' = outcome
    BY <1>9 DEF ExecuteLate, Expire, Over, vars, harness, Finished, Passed, Current
  <2>2. QED
    BY <1>1, <2>1
<1>10. QED
  BY <1>2, <1>3, <1>5, <1>6, <1>7, <1>8, <1>9 DEF Next, HarnessStep

LEMMA AuditedNext ==
  ASSUME TypeOK, OrderInv, Audit, NEW d \in Documents
  PROVE  Audited(d)' <=> (Audited(d) \/ (d = doc /\ stage = Authority))
<1>1. /\ doc \in Nat /\ d \in Nat /\ stage \in {1, 2} /\ stage \in enabled
      /\ enabled' = enabled /\ exit = "none" /\ exit' = exit /\ op = "audit"
  BY SizeAssumption DEF TypeOK, OrderInv, Audit, Documents, Stages
<1>2. Authority \in {1, 2} /\ Authority' = Authority /\ (Authority = 1 <=> 1 \in enabled)
  BY <1>1 DEF Authority
<1>3. CASE stage = 1 /\ 2 \in enabled
  BY <1>1, <1>2, <1>3 DEF Audit, MoveOn, FirstCall, Audited
<1>4. CASE ~(stage = 1 /\ 2 \in enabled) /\ doc < Size
  BY <1>1, <1>2, <1>4 DEF Audit, MoveOn, FirstCall, Audited
<1>5. CASE ~(stage = 1 /\ 2 \in enabled) /\ ~(doc < Size)
  BY <1>1, <1>2, <1>5 DEF Audit, MoveOn, Audited
<1>6. QED
  BY <1>3, <1>4, <1>5

LEMMA VerdictKept ==
  TypeOK /\ OrderInv /\ VerdictInv /\ [Next]_vars => VerdictInv'
<1> SUFFICES ASSUME TypeOK, OrderInv, VerdictInv, [Next]_vars PROVE VerdictInv'
  OBVIOUS
<1>0. Current \in Sessions /\ doc \in Nat /\ stage \in {1, 2}
  BY DEF TypeOK, Current, Sessions, Documents, Stages
<1>1. ASSUME leaks' = leaks, exit' = exit, enabled' = enabled,
             \A d \in Documents : Audited(d)' <=> Audited(d),
             \A d \in Documents :
               Audited(d) => outcome'[<<d, Authority>>] = outcome[<<d, Authority>>]
      PROVE  VerdictInv'
  <2>1. Authority' = Authority
    BY <1>1 DEF Authority
  <2>2. ASSUME NEW d \in Documents
        PROVE  (Audited(d) /\ Leaking(d))' <=> (Audited(d) /\ Leaking(d))
    <3>1. CASE Audited(d)
      <4>1. /\ Audited(d)'
            /\ outcome'[<<d, Authority>>] = outcome[<<d, Authority>>]
        BY <1>1, <3>1
      <4>2. Leaking(d)' <=> Leaking(d)
        BY <2>1, <4>1 DEF Leaking, Findings
      <4>3. QED
        BY <3>1, <4>1, <4>2
    <3>2. CASE ~Audited(d)
      BY <1>1, <3>2
    <3>3. QED
      BY <3>1, <3>2
  <2>3. leaks' = {d \in Documents : (Audited(d) /\ Leaking(d))'}
    BY <1>1, <2>2 DEF VerdictInv
  <2>4. QED
    BY <1>1, <2>3 DEF VerdictInv
<1>2. ASSUME op \in Posts, UNCHANGED <<enabled, doc, stage, exit, leaks>>, op' \in Calls,
             \A s \in Sessions \ {Current} : outcome'[s] = outcome[s]
      PROVE  VerdictInv'
  <2>1. op # "report" /\ op' # "report" /\ exit = "none" /\ exit' = "none"
    BY <1>2 DEF Posts, Calls, OrderInv
  <2>2. ASSUME NEW d \in Documents
        PROVE  /\ Audited(d)' <=> Audited(d)
               /\ Audited(d) => outcome'[<<d, Authority>>] = outcome[<<d, Authority>>]
    <3>1. Audited(d)' <=> Audited(d)
      BY <1>2, <2>1 DEF Audited, Authority
    <3>2. Authority \in {1, 2}
      BY DEF Authority
    <3>3. Audited(d) => <<d, Authority>> \in Sessions \ {Current}
      BY <1>0, <2>1, <3>2 DEF Audited, Current, Sessions, Stages, Documents
    <3>4. QED
      BY <1>2, <3>1, <3>3
  <2>3. QED
    BY <1>1, <1>2, <2>2
<1>3. CASE Answer
  BY <1>2, <1>3, KeptFields DEF Answer, FollowedBy, Posts, Calls
<1>4. CASE Refuse \/ Misread
  BY <1>2, <1>4, FailFields DEF Refuse, Misread, Calls
<1>5. CASE Break
  <2>1. CASE tries + 1 < Attempts
    BY <1>2, <1>5, <2>1 DEF Break, Desert, Posts
  <2>2. CASE ~(tries + 1 < Attempts)
    BY <1>2, <1>5, <2>2, FailFields DEF Break, Desert, Calls
  <2>3. QED
    BY <2>1, <2>2
<1>6. CASE Healthy \/ Load \/ Delete
  BY <1>1, <1>6 DEF Healthy, Load, Delete, Desert, Audited, Authority, FirstCall
<1>7. CASE CannotRun \/ BreakOff
  <2>1. /\ op \in {"health", "load", "broken"} /\ exit = "none"
        /\ UNCHANGED <<enabled, doc, stage, outcome, leaks>>
        /\ op' = "ended" /\ exit' \in {"cannot_run", "raised"}
    BY <1>7 DEF CannotRun, BreakOff, OrderInv
  <2>2. \A d \in Documents : (Audited(d)' <=> Audited(d)) /\ (Leaking(d)' <=> Leaking(d))
    BY <2>1 DEF Audited, Leaking, Findings, Authority
  <2>3. QED
    BY <2>1, <2>2 DEF VerdictInv
<1>8. CASE Report
  <2>1. /\ op = "report" /\ UNCHANGED <<enabled, doc, stage, outcome, leaks>>
        /\ exit' = IF leaks = {} THEN "ok" ELSE "leak"
    BY <1>8 DEF Report
  <2>2. \A d \in Documents : (Audited(d)' <=> Audited(d)) /\ (Leaking(d)' <=> Leaking(d))
    BY <2>1 DEF Audited, Leaking, Findings, Authority
  <2>3. QED
    BY <2>1, <2>2 DEF VerdictInv
<1>9. CASE Audit
  <2>1. /\ UNCHANGED <<enabled, outcome, exit>> /\ exit = "none"
        /\ leaks' = IF stage = Authority /\ Findings(doc, outcome[Current].outbound) # {}
                    THEN leaks \cup {doc} ELSE leaks
    BY <1>9 DEF Audit, OrderInv
  <2>2. \A d \in Documents : Leaking(d)' <=> Leaking(d)
    BY <2>1 DEF Leaking, Findings, Authority
  <2>3. stage = Authority =>
          (Leaking(doc) <=> Findings(doc, outcome[Current].outbound) # {})
    BY DEF Leaking, Current
  <2>4. doc \in Documents
    BY DEF TypeOK
  <2>5. leaks' = {d \in Documents : (Audited(d) \/ (d = doc /\ stage = Authority)) /\ Leaking(d)}
    <3>1. CASE stage = Authority /\ Leaking(doc)
      BY <2>1, <2>3, <2>4, <3>1 DEF VerdictInv
    <3>2. CASE ~(stage = Authority /\ Leaking(doc))
      BY <2>1, <2>3, <2>4, <3>2 DEF VerdictInv
    <3>3. QED
      BY <3>1, <3>2
  <2>6. leaks' = {d \in Documents : (Audited(d) /\ Leaking(d))'}
    BY <1>9, <2>2, <2>5, AuditedNext
  <2>7. QED
    BY <2>1, <2>6 DEF VerdictInv
<1>10. CASE ExecuteLate \/ (\E s \in Sessions : Expire(s)) \/ Over \/ UNCHANGED vars
  BY <1>1, <1>10 DEF ExecuteLate, Expire, Over, vars, harness, Audited, Authority
<1>11. QED
  BY <1>3, <1>4, <1>5, <1>6, <1>7, <1>8, <1>9, <1>10 DEF Next, HarnessStep

-----------------------------------------------------------------------------
IndInv ==
  /\ OrderInv /\ LateInv /\ StoredInv
  /\ SentInv /\ RestoredInv /\ DoneInv /\ VerdictInv

LEMMA Inductive == Spec => [](TypeOK /\ IndInv)
<1>1. Init => IndInv
  <2> SUFFICES ASSUME Init PROVE IndInv
    OBVIOUS
  <2>1. OrderInv /\ LateInv /\ StoredInv /\ SentInv
    BY DEF Init, OrderInv, LateInv, StoredInv, SentInv
  <2>2. stage \in {1, 2} /\ \A s \in enabled : stage <= s
    <3>1. \E s \in enabled : \A r \in enabled : s <= r
      BY DEF Init
    <3>2. QED
      BY <3>1 DEF Init
  <2>3. \A s \in Sessions : s[2] \in enabled => ~Passed(s) /\ ~Finished
    BY <2>2 DEF Init, Passed, Finished, Sessions, Documents, Stages
  <2>4. \A d \in Documents : ~Audited(d)
    <3>1. Authority = stage
      BY <2>2 DEF Init, Authority
    <3>2. QED
      BY <2>2, <3>1 DEF Init, Audited, Documents
  <2>5. RestoredInv
    BY DEF Init, RestoredInv, Untouched, Sessions, Stages
  <2>6. QED
    BY <2>1, <2>3, <2>4, <2>5 DEF Init, IndInv, DoneInv, VerdictInv
<1>2. TypeOK /\ IndInv /\ [Next]_vars => IndInv'
  BY OrderKept, LateKept, StoredKept, SentKept, RestoredKept, DoneKept, VerdictKept DEF IndInv
<1>3. QED
  BY <1>1, <1>2, TypeCorrect, PTL DEF Spec

(* Stage one measures the document it sent, however many calls were        *)
(* repeated or came late.                                                  *)
THEOREM StageOneRestores == Spec => []RestoresWhatItSent
<1>1. TypeOK /\ IndInv => RestoresWhatItSent
  BY DEF IndInv, RestoredInv, OrderInv, RestoresWhatItSent, Left, Current, TypeOK, Documents
<1>2. QED
  BY <1>1, Inductive, PTL

(* The exit code of a completed run is the verdict on every text that the  *)
(* authoritative stage has seen go out.                                    *)
THEOREM ExitIsVerdict == Spec => []VerdictSound
<1>1. TypeOK /\ IndInv => VerdictSound
  <2> SUFFICES ASSUME TypeOK, IndInv, exit \in {"ok", "leak"} PROVE VerdictSound
    BY DEF VerdictSound
  <2>1. \A d \in Documents : Audited(d)
    BY SizeAssumption DEF IndInv, OrderInv, Audited, Documents
  <2>2. \A d \in Documents :
          Leaking(d) <=> /\ outcome[<<d, Authority>>].outbound # NoFake
                         /\ Missed[d] \notin {NoFake, outcome[<<d, Authority>>].outbound}
    BY DEF Leaking, Findings
  <2>3. leaks # {} <=> \E d \in Documents : Leaking(d)
    BY <2>1 DEF IndInv, VerdictInv
  <2>4. exit = "leak" <=> leaks # {}
    BY DEF IndInv, VerdictInv
  <2>5. QED
    BY <2>2, <2>3, <2>4 DEF VerdictSound
<1>2. QED
  BY <1>1, Inductive, PTL

(* A completed run tells of every stage that has not got its text back.    *)
THEOREM GapsOnRecord == Spec => []NoSilentGap
<1>1. TypeOK /\ IndInv => NoSilentGap
  <2> SUFFICES ASSUME TypeOK, IndInv, exit \in {"ok", "leak"},
                      NEW d \in Documents, NEW s \in enabled
               PROVE  outcome[<<d, s>>].restored \/ outcome[<<d, s>>].error # "none"
    BY DEF NoSilentGap
  <2>1. <<d, s>> \in Sessions /\ s \in {1, 2} /\ stage \in {1, 2} /\ d <= doc
    BY SizeAssumption DEF TypeOK, Sessions, Stages, IndInv, OrderInv, Documents
  <2>2. Passed(<<d, s>>) \/ <<d, s>> = Current
    BY <2>1, SizeAssumption DEF IndInv, OrderInv, Passed, Current, TypeOK, Documents
  <2>3. QED
    BY <2>1, <2>2 DEF IndInv, DoneInv, Finished
<1>2. QED
  BY <1>1, Inductive, PTL

(* The session of a stage that is over is gone, unless one of its calls    *)
(* was given up.                                                           *)
THEOREM NothingLeftBehind == Spec => []CleanedUp
<1>1. TypeOK /\ IndInv => CleanedUp
  BY DEF IndInv, StoredInv, OrderInv, CleanedUp, Left, Current, TypeOK, Calls, Documents,
     Stages
<1>2. QED
  BY <1>1, Inductive, PTL

=============================================================================

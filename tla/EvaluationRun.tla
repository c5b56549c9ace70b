----------------------------- MODULE EvaluationRun -----------------------------
(***************************************************************************)
(* One run of the evaluation harness against a live gateway: the health    *)
(* check, the corpus, and for every document the calls of the enabled      *)
(* stages, each retried when the connection fails, the deletion of the     *)
(* stage's session, the audits and at last the exit code.                  *)
(*                                                                         *)
(* The harness sends one call at a time.  A call it has given up waiting   *)
(* for may still reach the gateway, or be at work in it: it takes effect   *)
(* at any later time, or never.                                            *)
(*                                                                         *)
(* Of a document two values matter: the one the gateway detects, for which *)
(* its session keeps a fake, and the one it misses (Missed), if any.  Of   *)
(* an outbound text what matters is the fake it holds.                     *)
(***************************************************************************)
EXTENDS Naturals, FiniteSets

CONSTANTS
  Size,        \* the number of documents in the corpus
  Fakes,       \* the fakes the gateway can draw
  NoFake,      \* no mapping, or no text
  Missed,      \* per document, the original the gateway leaves in the text
  Attempts,    \* max_retries + 1
  MaxLate,     \* bound: calls given up and still under way at one time
  MaxTroubled  \* bound: sessions in which something goes wrong

Documents == 1 .. Size
Stages == {1, 2}
Sessions == Documents \X Stages

ASSUME SizeAssumption == Size \in Nat \ {0}
ASSUME AttemptsAssumption == Attempts \in Nat \ {0}
ASSUME FakeAssumption == Fakes # {} /\ NoFake \notin Fakes
ASSUME MissedAssumption == DOMAIN Missed = Documents

VARIABLES
  enabled,     \* the stages config.stage asks for
  doc,         \* the document under evaluation
  stage,       \* its stage under way
  op,          \* the call or step the harness is at
  tries,       \* attempts of the call that have failed
  outcome,     \* Stage1Outcome and Stage2Outcome of every document
  scored,      \* the documents with a detection report
  leaks,       \* the documents with findings of the authoritative audit
  leakFree,    \* the documents stage two calls leak_free
  exit,        \* the exit code, or how the run has gone astray
  stored,      \* the gateway: the fake each session keeps
  late,        \* the gateway: calls the harness has given up
  deserted     \* history: the sessions with a call that came to nothing

harness == <<enabled, doc, stage, op, tries, outcome, scored, leaks, leakFree,
             exit>>
vars == <<harness, stored, late, deserted>>

-----------------------------------------------------------------------------
Calls == {"detect", "pseudonymize", "depseudonymize", "chat", "delete"}
Posts == Calls \ {"delete"}
Writers == {"pseudonymize", "chat", "delete"}
Exits == {"none", "ok", "leak", "cannot_run", "raised"}

FirstCall(s) == IF s = 1 THEN "detect" ELSE "chat"
FollowedBy == [detect |-> "pseudonymize", pseudonymize |-> "depseudonymize",
               depseudonymize |-> "delete", chat |-> "delete"]

(* Mutant: the documents share a session. *)
SessionShared(d, s) == <<1, s>>

(* Every stage of every document draws a fresh uuid4. *)
SessionOf(d, s) == <<d, s>>

Untouched == [spans |-> FALSE, outbound |-> NoFake, restored |-> FALSE,
              error |-> "none"]
Current == <<doc, stage>>

(* The gateway, seen from here: a writer keeps the fake a session has, or  *)
(* mints one; a delete forgets it; the other calls change nothing.         *)
Effects(call, s) ==
  CASE call \in {"pseudonymize", "chat"} ->
         {[stored EXCEPT ![s] = f] :
            f \in IF stored[s] = NoFake THEN Fakes ELSE {stored[s]}}
    [] call = "delete" -> {[stored EXCEPT ![s] = NoFake]}
    [] OTHER -> {stored}

-----------------------------------------------------------------------------
Init ==
  /\ enabled \in {{1}, {2}, {1, 2}}
  /\ doc = 1
  /\ stage = CHOOSE s \in enabled : \A r \in enabled : s <= r
  /\ op = "health"
  /\ tries = 0
  /\ outcome = [s \in Sessions |-> Untouched]
  /\ scored = {} /\ leaks = {} /\ leakFree = {}
  /\ exit = "none"
  /\ stored = [s \in Sessions |-> NoFake]
  /\ late = {}
  /\ deserted = {}

(* health never raises: an unreachable gateway is a gateway that is not ok.*)
(* Nor does the run start on a corpus that is broken or empty.             *)
CannotRun ==
  /\ op \in {"health", "load"}
  /\ op' = "ended"
  /\ exit' = "cannot_run"
  /\ UNCHANGED <<enabled, doc, stage, tries, outcome, scored, leaks, leakFree,
                 stored, late, deserted>>

Healthy ==
  /\ op = "health"
  /\ op' = "load"
  /\ UNCHANGED <<enabled, doc, stage, tries, outcome, scored, leaks, leakFree,
                 exit, stored, late, deserted>>

Load ==
  /\ op = "load"
  /\ op' = FirstCall(stage)
  /\ UNCHANGED <<enabled, doc, stage, tries, outcome, scored, leaks, leakFree,
                 exit, stored, late, deserted>>

-----------------------------------------------------------------------------
(* The call under way. *)

(* What the stage keeps of an answer given in state after. *)
Kept(call, result, s, after) ==
  CASE call = "detect" -> [result EXCEPT !.spans = TRUE]
    [] call = "pseudonymize" -> [result EXCEPT !.outbound = after[s]]
    [] call = "depseudonymize" ->
         [result EXCEPT !.restored = after[s] = result.outbound]
    [] call = "chat" -> [result EXCEPT !.outbound = after[s], !.restored = TRUE]

(* The gateway executes the call and its answer arrives. *)
Answer ==
  /\ op \in Posts
  /\ LET s == SessionOf(doc, stage)
     IN  \E after \in Effects(op, s) :
           /\ stored' = after
           /\ outcome' = [outcome EXCEPT ![Current] = Kept(op, @, s, after)]
  /\ op' = FollowedBy[op]
  /\ tries' = 0
  /\ UNCHANGED <<enabled, doc, stage, scored, leaks, leakFree, exit, late,
                 deserted>>

(* The bound: the sessions touched by trouble, this one included. *)
MayFail ==
  Cardinality({Current} \cup deserted
              \cup {s \in Sessions : outcome[s].error # "none"}) <= MaxTroubled

(* The stage ends early; its finally deletes the session. *)
FailStage(error) ==
  /\ MayFail
  /\ outcome' = [outcome EXCEPT ![Current].error = error]
  /\ op' = "delete"
  /\ tries' = 0

(* Mutants: the error is not noted; the session is deleted on success only.*)
RefuseUnnoted ==
  /\ op \in Posts
  /\ MayFail
  /\ stored' \in Effects(op, SessionOf(doc, stage)) \cup {stored}
  /\ op' = "delete"
  /\ tries' = 0
  /\ UNCHANGED <<enabled, doc, stage, outcome, scored, leaks, leakFree, exit,
                 late, deserted>>
RefuseUndeleted ==
  /\ op \in Posts
  /\ MayFail
  /\ stored' \in Effects(op, SessionOf(doc, stage)) \cup {stored}
  /\ outcome' = [outcome EXCEPT ![Current].error = "gateway"]
  /\ op' = "audit"
  /\ tries' = 0
  /\ UNCHANGED <<enabled, doc, stage, scored, leaks, leakFree, exit, late,
                 deserted>>

(* An error status is not retried, though the gateway may have written     *)
(* before it failed.                                                       *)
Refuse ==
  /\ op \in Posts
  /\ stored' \in Effects(op, SessionOf(doc, stage)) \cup {stored}
  /\ FailStage("gateway")
  /\ UNCHANGED <<enabled, doc, stage, scored, leaks, leakFree, exit, late,
                 deserted>>

(* A body that is not the expected JSON raises what no stage catches: the  *)
(* finally still deletes the session, then the run breaks off.             *)
Misread ==
  /\ op \in Posts
  /\ stored' \in Effects(op, SessionOf(doc, stage))
  /\ FailStage("unreadable")
  /\ UNCHANGED <<enabled, doc, stage, scored, leaks, leakFree, exit, late,
                 deserted>>

(* The harness gives a call up.  A writer may be under way for some time.  *)
Desert ==
  LET call == [session |-> SessionOf(doc, stage), op |-> op, try |-> tries]
  IN  /\ MayFail
      /\ late' \in IF op \in Writers /\ Cardinality(late) < MaxLate
                   THEN {late, late \cup {call}} ELSE {late}
      /\ deserted' = deserted \cup {call.session}
      /\ UNCHANGED <<enabled, doc, stage, scored, leaks, leakFree, exit, stored>>

(* Mutant: the attempts are not counted. *)
BreakUncounted ==
  /\ op \in Posts
  /\ Desert
  /\ UNCHANGED <<op, tries, outcome>>

(* A transport error, time-outs among them: the same call again, in the    *)
(* same session, until the attempts are used up.                           *)
Break ==
  /\ op \in Posts
  /\ Desert
  /\ IF tries + 1 < Attempts
     THEN tries' = tries + 1 /\ UNCHANGED <<op, outcome>>
     ELSE FailStage("gateway")

(* delete_session is tried once, and whatever the gateway or the           *)
(* connection makes of it is ignored.                                      *)
Delete ==
  /\ op = "delete"
  /\ \/ /\ stored' \in Effects(op, SessionOf(doc, stage))
        /\ UNCHANGED <<enabled, doc, stage, scored, leaks, leakFree, exit, late,
                       deserted>>
     \/ Desert
  /\ op' = IF outcome[Current].error = "unreadable" THEN "broken" ELSE "audit"
  /\ UNCHANGED <<tries, outcome>>

(* The exception leaves run_evaluation: no report is written. *)
BreakOff ==
  /\ op = "broken"
  /\ op' = "ended"
  /\ exit' = "raised"
  /\ UNCHANGED <<enabled, doc, stage, tries, outcome, scored, leaks, leakFree,
                 stored, late, deserted>>

-----------------------------------------------------------------------------
(* The audits. *)

(* audit_document: an original that is in the outbound text once the       *)
(* declared fakes are masked.  There is nothing to find in no text.        *)
Findings(d, outbound) ==
  IF outbound = NoFake THEN {} ELSE {Missed[d]} \ {NoFake, outbound}

Authority == IF 1 \in enabled THEN 1 ELSE 2

(* The run goes on with the next stage or document. *)
MoveOn ==
  IF stage = 1 /\ 2 \in enabled
  THEN stage' = 2 /\ op' = FirstCall(2) /\ UNCHANGED doc
  ELSE IF doc < Size
  THEN /\ doc' = doc + 1
       /\ stage' = Authority
       /\ op' = FirstCall(Authority)
  ELSE op' = "report" /\ UNCHANGED <<doc, stage>>

(* Mutant: only the last document's findings are kept. *)
AuditLast ==
  /\ op = "audit"
  /\ LET found == Findings(doc, outcome[Current].outbound)
     IN  /\ leaks' = IF stage = Authority
                     THEN IF found # {} THEN {doc} ELSE {} ELSE leaks
         /\ leakFree' = IF stage = 2 /\ found = {} THEN leakFree \cup {doc}
                                                   ELSE leakFree
  /\ scored' = IF stage = 1 THEN scored \cup {doc} ELSE scored
  /\ MoveOn
  /\ UNCHANGED <<enabled, tries, outcome, exit, stored, late, deserted>>

(* The stage's outcome is scored and audited; stage one's audit counts     *)
(* when it is enabled, stage two's otherwise.                              *)
Audit ==
  /\ op = "audit"
  /\ LET found == Findings(doc, outcome[Current].outbound)
     IN  /\ leaks' = IF stage = Authority /\ found # {} THEN leaks \cup {doc}
                                                        ELSE leaks
         /\ leakFree' = IF stage = 2 /\ found = {} THEN leakFree \cup {doc}
                                                   ELSE leakFree
  /\ scored' = IF stage = 1 THEN scored \cup {doc} ELSE scored
  /\ MoveOn
  /\ UNCHANGED <<enabled, tries, outcome, exit, stored, late, deserted>>

Report ==
  /\ op = "report"
  /\ exit' = IF leaks = {} THEN "ok" ELSE "leak"
  /\ op' = "ended"
  /\ UNCHANGED <<enabled, doc, stage, tries, outcome, scored, leaks, leakFree,
                 stored, late, deserted>>

-----------------------------------------------------------------------------
(* The gateway on its own. *)

ExecuteLate ==
  \E call \in late :
    /\ stored' \in Effects(call.op, call.session)
    /\ late' = late \ {call}
    /\ UNCHANGED <<harness, deserted>>

(* The stage of a session is over. *)
Left(s) ==
  \/ exit # "none"
  \/ s[1] < doc
  \/ s[1] = doc /\ s[2] < stage
  \/ s = Current /\ op \in {"audit", "broken", "report"}

(* A session the harness has left runs out of its TTL; the retries of a    *)
(* call take seconds, the TTL is half an hour.                             *)
Expire(s) ==
  /\ Left(s)
  /\ stored[s] # NoFake
  /\ stored' = [stored EXCEPT ![s] = NoFake]
  /\ UNCHANGED <<harness, late, deserted>>

HarnessStep ==
  \/ CannotRun \/ Healthy \/ Load \/ Answer \/ Refuse \/ Misread \/ Break
  \/ Delete \/ BreakOff \/ Audit \/ Report

Over == op = "ended" /\ UNCHANGED vars

Next ==
  \/ HarnessStep
  \/ ExecuteLate
  \/ \E s \in Sessions : Expire(s)
  \/ Over

Spec == Init /\ [][Next]_vars

(* Every call ends, by its time-out if not before; the TTL runs out.       *)
FairSpec == Spec /\ WF_vars(HarnessStep) /\ \A s \in Sessions : WF_vars(Expire(s))

-----------------------------------------------------------------------------
(* Properties. *)

(* The run, its results and the gateway keep their shape. *)
TypeOK ==
  /\ enabled \in SUBSET Stages /\ doc \in Documents /\ stage \in enabled
  /\ op \in Calls \cup {"health", "load", "audit", "broken", "report", "ended"}
  /\ tries \in 0 .. Attempts - 1
  /\ outcome \in [Sessions -> [spans : BOOLEAN, outbound : Fakes \cup {NoFake},
                               restored : BOOLEAN,
                               error : {"none", "gateway", "unreadable"}]]
  /\ scored \subseteq Documents
  /\ leaks \subseteq Documents /\ leakFree \subseteq Documents
  /\ exit \in Exits
  /\ stored \in [Sessions -> Fakes \cup {NoFake}]
  /\ \A call \in late : /\ call.session \in Sessions /\ call.op \in Writers
                        /\ call.try \in 0 .. Attempts - 1
  /\ deserted \subseteq Sessions

(* Stage one measures the document it sent: whatever calls were repeated   *)
(* or came late, a stage without an error has its own text back.           *)
RestoresWhatItSent ==
  \A d \in Documents :
    Left(<<d, 1>>) /\ 1 \in enabled /\ outcome[<<d, 1>>].error = "none"
      /\ outcome[<<d, 1>>].outbound # NoFake
    => outcome[<<d, 1>>].restored

(* The exit code is the verdict on all the texts the authoritative stage   *)
(* has seen go out: 1 when an original that no declared fake equals is in  *)
(* one of them, 0 otherwise (FR-021).                                      *)
VerdictSound ==
  exit \in {"ok", "leak"} =>
    (exit = "leak" <=>
       \E d \in Documents :
         LET text == outcome[<<d, Authority>>].outbound
         IN  text # NoFake /\ Missed[d] \notin {NoFake, text})

(* A completed run has no gap it does not tell of: an enabled stage of a   *)
(* document has its text back or an error on record.                       *)
NoSilentGap ==
  exit \in {"ok", "leak"} =>
    \A d \in Documents, s \in enabled :
      outcome[<<d, s>>].restored \/ outcome[<<d, s>>].error # "none"

(* The session of a stage that is over is gone, whatever went wrong in the *)
(* stage, unless a call in it was given up or its delete has failed.       *)
CleanedUp ==
  \A s \in Sessions : Left(s) /\ s \notin deserted => stored[s] = NoFake

(* The run comes to its end, whatever the gateway does, and no session     *)
(* stays ("TTL expiry is the backstop", evaluation_client.py).             *)
EndsClean == <>[](exit # "none" /\ \A s \in Sessions : stored[s] = NoFake)

(* Spec 008, edge cases: when the detection endpoint is not ready the      *)
(* harness records that "rather than scoring it as a detection result".    *)
FailureNotScored == \A d \in scored : outcome[<<d, 1>>].spans

=============================================================================

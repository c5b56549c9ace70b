---------------------------- MODULE AtomicVault ----------------------------
(***************************************************************************)
(* What MappingStore.get_or_create promises its callers: a call takes      *)
(* effect at one instant.  It answers the fake its original is mapped to,  *)
(* or maps the original, for the first time, to the fake it answers; a     *)
(* mapping is never changed, only forgotten with the whole session.        *)
(***************************************************************************)
EXTENDS Functions

CONSTANTS
  Calls,     \* the calls
  KeyOf(_),  \* the original a call is for
  NoFake     \* the answer of a call that has not (yet) one

VARIABLES
  assigned,  \* the fake of every mapped original
  answered   \* the answer of every call

Init ==
  /\ assigned = << >>
  /\ answered = [c \in Calls |-> NoFake]

AnswerKnown(c) ==
  /\ KeyOf(c) \in DOMAIN assigned
  /\ answered' = [answered EXCEPT ![c] = assigned[KeyOf(c)]]
  /\ UNCHANGED assigned

MapTo(c, fake) ==
  /\ KeyOf(c) \notin DOMAIN assigned
  /\ fake # NoFake
  /\ answered' = [answered EXCEPT ![c] = fake]
  /\ assigned' = [k \in DOMAIN assigned \cup {KeyOf(c)} |->
                    IF k = KeyOf(c) THEN fake ELSE assigned[k]]

AnswerNew(c) == MapTo(c, answered'[c])

Substitute(c) == answered[c] = NoFake /\ (AnswerKnown(c) \/ AnswerNew(c))

(* Calls that end with an error have no answer; what they mapped stays. *)
Abandon ==
  /\ \E lost \in SUBSET Calls :
       answered' = [c \in Calls |-> IF c \in lost THEN NoFake ELSE answered[c]]
  /\ UNCHANGED assigned

(* The session expires or is deleted. *)
Forget ==
  /\ assigned' = << >>
  /\ UNCHANGED answered

Next ==
  \/ \E c \in Calls : Substitute(c)
  \/ Abandon
  \/ Forget

Spec == Init /\ [][Next]_<<assigned, answered>>

=============================================================================

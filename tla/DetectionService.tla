-------------------------- MODULE DetectionService --------------------------
(***************************************************************************)
(* A gateway process around its detection engine: the thread that loads    *)
(* the language model at startup, the readiness gate of the endpoints, and *)
(* the threshold file, which is read live: load_thresholds stats the file, *)
(* and reads it again when its modification time is not the cached one.    *)
(*                                                                         *)
(* The handlers run on one event loop and do not yield between the gate    *)
(* and the thresholds, so there is one request at a time; the loader is a  *)
(* thread and whoever edits the file another process, so their steps may   *)
(* come between any two of a request.  Scores are in hundredths.           *)
(***************************************************************************)
EXTENDS Naturals

CONSTANTS
  Contents,  \* what the file may hold: its default and its thresholds, as
             \* written, Scalar (a document that is no mapping) or Garbled
  Scalar,
  Garbled,   \* no YAML; in a table, a value that is no number
  Missing,   \* there is no file
  Absent,    \* the key is not in the file
  Types,     \* the entity types the file may name
  MaxTick,   \* bound: modification times
  None,      \* no cache, no key
  NotReady,  \* 503: the readiness gate
  Failed     \* 500: the document cannot be parsed

ASSUME NoneAssumption == None \notin Nat

VARIABLES
  content,   \* what the file holds
  mtime,     \* when it was last written
  now,       \* the clock of the file system
  cache,     \* _cache
  cacheKey,  \* _cache_key
  engine,    \* _nlp_engine has been built
  ready,     \* _ready
  loader,    \* what the loader thread does next
  analyzer,  \* _analyzer has been built
  at,        \* what the request does next
  key,       \* the modification time it has seen
  answer,    \* the thresholds it uses, or how else it was answered
  changed,   \* the file has changed since the request has looked at it
  spoiled    \* the times that do not tell the contents of the file

file == <<content, mtime, now>>
model == <<engine, ready, loader, analyzer>>
cached == <<cache, cacheKey>>
request == <<at, key, answer>>
vars == <<file, model, cached, request, changed, spoiled>>

-----------------------------------------------------------------------------
(* The meaning of the file. *)

(* Mutant: a value above one is kept. *)
Unclamped(value, fallback) == IF value \notin Nat THEN fallback ELSE value

(* _clamp01: a value that is no number gives the fallback. *)
Clamp01(value, fallback) ==
  IF value \notin Nat THEN fallback ELSE IF value > 100 THEN 100 ELSE value

Builtin == [default |-> 30, thresholds |-> [type \in Types |-> Absent]]

DefaultOf(written) ==
  Clamp01(IF written.default = Absent THEN 30 ELSE written.default, 30)

(* _parse; a document that is no mapping raises. *)
Parsed(c) ==
  IF c \in {Garbled, Missing} THEN Builtin
  ELSE IF c = Scalar THEN Failed
  ELSE [default |-> DefaultOf(c),
        thresholds |->
          [type \in Types |->
             IF c.thresholds[type] = Absent THEN Absent
             ELSE Clamp01(c.thresholds[type], DefaultOf(c))]]

-----------------------------------------------------------------------------
Init ==
  /\ content \in Contents \cup {Missing} /\ mtime = 0 /\ now = 0
  /\ cache = None /\ cacheKey = None
  /\ engine = FALSE /\ ready = FALSE /\ loader = "start" /\ analyzer = FALSE
  /\ at = "idle" /\ key = None /\ answer = None
  /\ changed = FALSE /\ spoiled = {}

(* The file is written (in part, or as a whole), or removed, and time goes *)
(* on; two writes within one tick have the same modification time.         *)
Write(c) ==
  /\ c # content
  /\ content' = c
  /\ mtime' = now
  /\ spoiled' = IF mtime = now THEN spoiled \cup {now} ELSE spoiled
  /\ changed' = TRUE
  /\ UNCHANGED <<now, model, cached, request>>

Remove ==
  /\ content # Missing
  /\ content' = Missing
  /\ changed' = TRUE
  /\ UNCHANGED <<mtime, now, model, cached, request, spoiled>>

Tick ==
  /\ now < MaxTick
  /\ now' = now + 1
  /\ UNCHANGED <<content, mtime, model, cached, request, changed, spoiled>>

-----------------------------------------------------------------------------
(* The loader thread: ensure_loaded. *)

TakeLock ==
  /\ loader = "start"
  /\ loader' = "loading"
  /\ UNCHANGED <<file, engine, ready, analyzer, cached, request, changed, spoiled>>

(* Mutant: the model is announced before it is built. *)
AnnounceEarly ==
  /\ loader = "loading" /\ ~ready
  /\ ready' = TRUE
  /\ UNCHANGED <<file, engine, loader, analyzer, cached, request, changed, spoiled>>

Build ==
  /\ loader = "loading"
  /\ engine' = TRUE
  /\ loader' = "built"
  /\ UNCHANGED <<file, ready, analyzer, cached, request, changed, spoiled>>

Announce ==
  /\ loader = "built"
  /\ ready' = TRUE
  /\ loader' = "done"
  /\ UNCHANGED <<file, engine, analyzer, cached, request, changed, spoiled>>

(* The model cannot be loaded; nobody tries again. *)
LoadFails ==
  /\ loader = "loading"
  /\ loader' = "failed"
  /\ UNCHANGED <<file, engine, ready, analyzer, cached, request, changed, spoiled>>

-----------------------------------------------------------------------------
(* A request with a text: detect, pseudonymize or chat. *)

Arrive ==
  /\ at = "idle"
  /\ at' = "gate"
  /\ answer' = None
  /\ UNCHANGED <<file, model, cached, key, changed, spoiled>>

Refuse ==
  /\ at = "gate" /\ ~ready
  /\ at' = "idle"
  /\ answer' = NotReady
  /\ UNCHANGED <<file, model, cached, key, changed, spoiled>>

Admit ==
  /\ at = "gate" /\ ready
  /\ at' = "analyze"
  /\ UNCHANGED <<file, model, cached, key, answer, changed, spoiled>>

(* _get_analyzer and get_nlp_engine: the first request builds the analyzer *)
(* around the engine; without one it would wait for the lock.              *)
Analyze ==
  /\ at = "analyze"
  /\ engine \/ loader # "loading"
  /\ engine' = TRUE /\ analyzer' = TRUE
  /\ ready' = (ready \/ ~engine)
  /\ at' = "stat"
  /\ UNCHANGED <<file, loader, cached, key, answer, changed, spoiled>>

(* load_thresholds: stat, and compare with the cached key. *)
Stat ==
  /\ at = "stat"
  /\ changed' = FALSE
  /\ IF content = Missing
     THEN key' = None /\ answer' = Builtin /\ at' = "served"
     ELSE /\ key' = mtime
          /\ IF cache = None \/ mtime # cacheKey
             THEN at' = "parse" /\ UNCHANGED answer
             ELSE at' = "served" /\ answer' = cache
  /\ UNCHANGED <<file, model, cached, spoiled>>

(* Mutant: the table is cached under the time at which it is read. *)
ParseStamped ==
  /\ at = "parse"
  /\ answer' = Parsed(content)
  /\ IF answer' = Failed
     THEN UNCHANGED cached
     ELSE cache' = answer' /\ cacheKey' = now
  /\ at' = "served"
  /\ UNCHANGED <<file, model, key, changed, spoiled>>

(* What was read becomes the cached table under the time seen before. *)
Parse ==
  /\ at = "parse"
  /\ answer' = Parsed(content)
  /\ IF answer' = Failed
     THEN UNCHANGED cached
     ELSE cache' = answer' /\ cacheKey' = key
  /\ at' = "served"
  /\ UNCHANGED <<file, model, key, changed, spoiled>>

(* The file is there but cannot be read: the defaults are cached for it. *)
ReadFails ==
  /\ at = "parse" /\ content # Missing
  /\ answer' = Builtin
  /\ cache' = answer' /\ cacheKey' = key
  /\ at' = "served"
  /\ spoiled' = spoiled \cup {key}
  /\ UNCHANGED <<file, model, key, changed>>

(* The thresholds are applied, and the response goes out. *)
Serve ==
  /\ at = "served"
  /\ at' = "idle"
  /\ UNCHANGED <<file, model, cached, key, answer, changed, spoiled>>

-----------------------------------------------------------------------------
(* The process is restarted; the file is what stays. *)
Restart ==
  /\ cache' = None /\ cacheKey' = None
  /\ engine' = FALSE /\ ready' = FALSE /\ loader' = "start" /\ analyzer' = FALSE
  /\ at' = "idle" /\ key' = None /\ answer' = None
  /\ UNCHANGED <<file, changed, spoiled>>

Edit == (\E c \in Contents : Write(c)) \/ Remove \/ Tick
Load == TakeLock \/ Build \/ Announce \/ LoadFails
Handle == Arrive \/ Refuse \/ Admit \/ Analyze \/ Stat \/ Parse \/ ReadFails \/ Serve

Next == Edit \/ Load \/ Handle \/ Restart

Spec == Init /\ [][Next]_vars

-----------------------------------------------------------------------------
(* Correctness. *)

Scores == 0..100
Tables == [default : Scores, thresholds : [Types -> Scores \cup {Absent}]]

(* Whatever the file holds, the table in use, and the cached one, have     *)
(* scores between zero and one (_clamp01).                                 *)
TypeOK ==
  /\ content \in Contents \cup {Missing}
  /\ now \in Nat /\ mtime \in Nat
  /\ cache \in Tables \cup {None} /\ cacheKey \in Nat \cup {None}
  /\ engine \in BOOLEAN /\ ready \in BOOLEAN /\ analyzer \in BOOLEAN
  /\ loader \in {"start", "loading", "built", "done", "failed"}
  /\ at \in {"idle", "gate", "analyze", "stat", "parse", "served"}
  /\ key \in Nat \cup {None}
  /\ answer \in Tables \cup {None, NotReady, Failed}
  /\ changed \in BOOLEAN
  /\ spoiled \subseteq Nat

(* The times: the cached one, and the one a request has seen, are not      *)
(* after the last write, which is not after now.                           *)
TimesInv ==
  /\ mtime <= now
  /\ cacheKey \in Nat => cacheKey <= mtime
  /\ key \in Nat => key <= mtime

(* The cached table is what the file says, when it is cached under the     *)
(* time of the file and that time tells the contents.                      *)
CacheInv ==
  content # Missing /\ cacheKey = mtime /\ mtime \notin spoiled
    => cache = Parsed(content)

(* Who parses has seen a time; the gate opens after the model is there.    *)
ParseInv == at = "parse" => key \in Nat
ModelInv ==
  /\ ready \/ loader \in {"built", "done"} => engine
  /\ at = "analyze" => ready

(* A request uses what the file says when load_thresholds looks at it, if  *)
(* nothing has changed since and the time of the file tells its contents:  *)
(* a table parsed while the file was edited, removed or brought back does  *)
(* not outlive the edit in the cache.                                      *)
AnswerFresh ==
  at = "served" /\ ~changed /\ key \notin spoiled => answer = Parsed(content)

(* A request the readiness gate lets through finds the model built: it     *)
(* does not load it, or wait for the loader's lock, on the event loop.     *)
AdmittedFindsModel == at = "analyze" => engine

(* thresholds.py: "editing the file takes effect on the next request", so  *)
(* thresholds other than the defaults are those the file has.              *)
AnyEditApplies ==
  at = "served" /\ ~changed /\ answer # Builtin => answer = Parsed(content)

=============================================================================

------------------------------ MODULE Policies ------------------------------
(***************************************************************************)
(* Policy templates and what they say of an event                          *)
(* (src/src/engine/policy.ts, src/src/engine/verification.ts).             *)
(*                                                                         *)
(* A directory of JSON files is loaded into a store, again whenever a      *)
(* watcher has seen a change and 500 ms have passed without another one.   *)
(* A reload has no await in it, so no event sees half of one.              *)
(*                                                                         *)
(* A value an event may hold is a record of its JavaScript kind and a      *)
(* content that two values of the kind differ in; texts are sequences and  *)
(* a pattern is the set of texts it matches, or Broken.                    *)
(***************************************************************************)
EXTENDS Integers, Sequences, SequencesExt

CONSTANTS
  Files,       \* names of policy files, in the order of readdirSync: a sequence
  Contents,    \* what a file may hold: Absent, Unparsable or a sequence of policies
  Absent, Unparsable,
  Broken       \* a pattern RegExp refuses

VARIABLES
  files,       \* the directory: a function from file names to their contents
  store,       \* the policies in force, by id
  watcher,     \* "off", "on", or "noticed" once it has reported a change
  debounce     \* the reload timer is running

policyVars == <<files, store, watcher, debounce>>

-----------------------------------------------------------------------------
(* Loading. *)

\* loadFile: a file that does not parse counts for nothing, an invalid policy is
\* left out of its file.
Policies(content) ==
  IF content \in {Absent, Unparsable} THEN <<>> ELSE SelectSeq(content, LAMBDA p : p.valid)

\* A later policy replaces one with its id, a disabled one does nothing.
Stored(old, p) ==
  IF p.enabled THEN [id \in DOMAIN old \cup {p.id} |-> IF id = p.id THEN p ELSE old[id]] ELSE old

Load(dir) == FlattenSeq([i \in DOMAIN Files |-> Policies(dir[Files[i]])])

\* reload(): the store is cleared and filled again.
Loaded(dir) == FoldLeft(Stored, [id \in {} |-> id], Load(dir))

\* Fault: the timer is not set again once it has been.
NoticedOnce == watcher = "on"

\* The watcher's callback runs for every change of a policy file.
Noticed == watcher # "off"

\* Somebody writes a policy file, perhaps only half of it, or removes it.
FileChanges(f) ==
  /\ \E c \in Contents \ {files[f]} : files' = [files EXCEPT ![f] = c]
  /\ IF Noticed THEN watcher' = "noticed" /\ debounce' = TRUE
                                   ELSE UNCHANGED <<watcher, debounce>>
  /\ UNCHANGED store

\* The timer of 500 ms.
Reload ==
  /\ debounce
  /\ store' = Loaded(files)
  /\ debounce' = FALSE
  /\ UNCHANGED <<files, watcher>>

Watch ==
  /\ watcher = "off"
  /\ watcher' = "on"
  /\ UNCHANGED <<files, store, debounce>>

StopWatch ==
  /\ watcher # "off"
  /\ watcher' = "off" /\ debounce' = FALSE
  /\ UNCHANGED <<files, store>>

\* create(): the first load; watch() is the caller's to call.
Create ==
  /\ store' = Loaded(files)
  /\ watcher' = "off" /\ debounce' = FALSE
  /\ UNCHANGED files

-----------------------------------------------------------------------------
(* Evaluation. *)

UndefinedValue == [kind |-> "undefined", content |-> 0]
NullValue      == [kind |-> "null", content |-> 0]
EmptyText      == [kind |-> "text", content |-> <<>>]

\* resolveField: a path that leads nowhere is undefined.
ResolveField(event, field) ==
  IF field \in DOMAIN event.fields THEN event.fields[field] ELSE UndefinedValue

\* Number(): null and the empty text are 0, a Boolean is 0 or 1, what is no number is NaN.
IsNumber(v) == v.kind \in {"number", "boolean", "null"} \/ v = EmptyText
Number(v) == IF v = EmptyText THEN 0 ELSE v.content

IsSubstring(t, s) == \E i \in 0 .. Len(s) - Len(t) : SubSeq(s, i + 1, i + Len(t)) = t

ConditionHolds(v, operator, value) ==
  CASE operator = "eq"       -> v = value
    [] operator = "neq"      -> v # value
    [] operator = "exists"   -> v \notin {UndefinedValue, NullValue}
    [] operator = "contains" -> \/ v.kind = "array" /\ value \in v.content
                                \/ v.kind = "text" /\ IsSubstring(value.content, v.content)
    [] operator = "gt"       -> IsNumber(v) /\ IsNumber(value) /\ Number(v) > Number(value)
    [] operator = "lt"       -> IsNumber(v) /\ IsNumber(value) /\ Number(v) < Number(value)
    [] operator = "matches"  -> v.kind = "text" /\ v.content \in value
    [] OTHER                 -> FALSE

\* A policy without environments is for all of them.
Applicable(event) ==
  {p \in {store[id] : id \in DOMAIN store} :
     /\ event.type \in p.appliesTo
     /\ p.environments # {} => event.environment \in p.environments}

ForceFailEventTypes == {"secret.exposed", "audit.log_tampered"}

\* new RegExp() throws, and nothing in verify catches it.
Throws(event, p) ==
  /\ event.type \notin ForceFailEventTypes
  /\ \E c \in p.conditions : /\ c.operator = "matches" /\ c.value = Broken
                             /\ ResolveField(event, c.field).kind = "text"

\* evaluatePolicy: no condition, no failure.
Passes(event, p) ==
  /\ event.type \notin ForceFailEventTypes
  /\ \A c \in p.conditions : ConditionHolds(ResolveField(event, c.field), c.operator, c.value)

\* The policies an alert is built for.
Alerts(event) == {p.id : p \in {q \in Applicable(event) : ~Passes(event, q)}}

\* aggregateOutcome; no applicable policy is inconclusive.
OverallOutcome(event) ==
  IF Applicable(event) = {} THEN "inconclusive"
  ELSE IF Alerts(event) # {} THEN "fail" ELSE "pass"

-----------------------------------------------------------------------------
\* Once a watcher has reported its first change, the policies in force are those on disk
\* whenever no reload is due: half-written files, repeated saves and removed files leave
\* nothing stale behind (reload and the debounce of watch()).
StoreFollowsFiles ==
  watcher = "noticed" /\ ~debounce => store = Loaded(files)
=============================================================================

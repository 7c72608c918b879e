----------------------------- MODULE KeyRotation -----------------------------
(***************************************************************************)
(* apps/custom-issuer-rotation/lambda.py: the Lambda that slides the window *)
(* previous <- current <- next of KMS key aliases.                          *)
(*                                                                          *)
(* Every call to KMS is a step of its own, so an execution can be killed,   *)
(* or end in an exception, between any two of them, and another execution   *)
(* (the 30-day rule, a retry by the platform, a manual invocation) can read *)
(* the aliases in the middle.                                               *)
(***************************************************************************)
EXTENDS Naturals, FiniteSets

CONSTANTS
  Invocation,   \* the executions of the Lambda that may be under way at once
  Key,          \* KMS keys, created or not
  NoKey,
  Bootstrap,    \* the window of the one-time bootstrap (README, Prerequisites)
  MaxCrashes    \* bound: executions that do not reach their return

Alias == {"previous", "current", "next"}

ASSUME NoKeyAssumption == NoKey \notin Key
ASSUME BootstrapAssumption ==
  /\ Bootstrap \in [Alias -> Key]
  /\ Bootstrap["previous"] # Bootstrap["current"]
  /\ Bootstrap["current"] # Bootstrap["next"]
  /\ Bootstrap["previous"] # Bootstrap["next"]
ASSUME MaxCrashesAssumption == MaxCrashes \in Nat

VARIABLES
  alias,      \* KMS: the key behind each alias
  keyState,   \* KMS: "absent" until create_key, then its key state
  step,       \* the call each execution makes next
  seen,       \* prev_id, curr_id and next_id of each execution
  fresh,      \* new_key_id of each execution
  crashes,    \* executions that did not reach their return
  window,     \* history: keys that have been behind an alias
  spared      \* history: keys that retire_key failed on (its warning in the log)

kms == <<alias, keyState>>
history == <<window, spared>>
vars == <<alias, keyState, step, seen, fresh, crashes, window, spared>>

KeyState == {"absent", "enabled", "disabled", "pending"}

RotationStart == {"updatePrevious", "updateCurrent", "updateNext"}

Step == {"idle", "readPrevious", "readCurrent", "readNext", "create",
         "disable", "schedule", "returned"} \cup RotationStart

NothingSeen == [a \in Alias |-> NoKey]

Init ==
  /\ alias = Bootstrap
  /\ keyState = [k \in Key |-> IF \E a \in Alias : Bootstrap[a] = k
                                 THEN "enabled" ELSE "absent"]
  /\ step = [i \in Invocation |-> "idle"]
  /\ seen = [i \in Invocation |-> NothingSeen]
  /\ fresh = [i \in Invocation |-> NoKey]
  /\ crashes = 0
  /\ window = {Bootstrap[a] : a \in Alias}
  /\ spared = {}

Goto(i, s) == step' = [step EXCEPT ![i] = s]

Absent == {k \in Key : keyState[k] = "absent"}

\* All three aliases name different keys: no rotation is half done.
Clean ==
  /\ alias["previous"] # alias["current"]
  /\ alias["current"] # alias["next"]
  /\ alias["previous"] # alias["next"]

\* Bound: the keys run out for new rotations first, so that an interrupted one
\* always has a key left to be resumed with.
KeysLeft == IF Clean THEN Cardinality(Absent) > MaxCrashes - crashes
                     ELSE Absent # {}

Invoke(i) ==
  /\ step[i] = "idle"
  /\ KeysLeft
  /\ Goto(i, "readPrevious")
  /\ UNCHANGED <<kms, seen, fresh, crashes, history>>

Created == RotationStart \cup {"disable", "schedule", "returned"}

GetKeyId(i, a) == seen' = [seen EXCEPT ![i][a] = alias[a]]

\* read_current_state: three calls, one alias each.
ReadCurrentState(i) ==
  /\ \/ step[i] = "readPrevious" /\ GetKeyId(i, "previous") /\ Goto(i, "readCurrent")
     \/ step[i] = "readCurrent" /\ GetKeyId(i, "current") /\ Goto(i, "readNext")
     \/ step[i] = "readNext" /\ GetKeyId(i, "next") /\ Goto(i, "create")
  /\ UNCHANGED <<kms, fresh, crashes, history>>

\* Mutants: a half-done rotation is skipped over; a repeated "next" goes
\* unnoticed; a half-done rotation is left to an operator.
ResumeAtNext(s) ==
  IF s["previous"] = s["current"] \/ s["current"] = s["next"] THEN "updateNext"
  ELSE "updatePrevious"
NextUnnoticed(s) ==
  IF s["previous"] = s["current"] THEN "updateCurrent" ELSE "updatePrevious"
LeftToOperator(s) ==
  IF s["previous"] = s["current"] \/ s["current"] = s["next"] THEN "returned"
  ELSE "updatePrevious"

DetectRotationStart(s) ==
  IF s["previous"] = s["current"] THEN "updateCurrent"
  ELSE IF s["current"] = s["next"] THEN "updateNext"
  ELSE "updatePrevious"

\* Mutant: the key behind "previous" is retired in a recovery too.
RetireAlways(start) == "disable"

\* The call after create_key: the old key is retired on a clean run only.
AfterCreate(start) == IF start = "updatePrevious" THEN "disable" ELSE start

CreateKey(i) ==
  /\ step[i] = "create"
  /\ Absent # {}
  /\ LET k == CHOOSE x \in Absent : TRUE IN
       /\ keyState' = [keyState EXCEPT ![k] = "enabled"]
       /\ fresh' = [fresh EXCEPT ![i] = k]
  /\ Goto(i, AfterCreate(DetectRotationStart(seen[i])))
  /\ UNCHANGED <<alias, seen, crashes, history>>

\* retire_key: disable, then schedule the deletion. KMS refuses both for a key
\* whose deletion is pending, and either can fail for reasons of its own; the
\* exception is logged and swallowed, and the rotation goes on.
RetireKey(i) ==
  LET k == seen[i]["previous"] IN
  /\ \/ /\ step[i] = "disable"
        /\ keyState[k] # "pending"
        /\ keyState' = [keyState EXCEPT ![k] = "disabled"]
        /\ Goto(i, "schedule")
        /\ UNCHANGED spared
     \/ /\ step[i] = "schedule"
        /\ keyState[k] # "pending"
        /\ keyState' = [keyState EXCEPT ![k] = "pending"]
        /\ Goto(i, "updatePrevious")
        /\ UNCHANGED spared
     \/ /\ step[i] \in {"disable", "schedule"}
        /\ spared' = spared \cup {k}
        /\ Goto(i, "updatePrevious")
        /\ UNCHANGED keyState
  /\ UNCHANGED <<alias, seen, fresh, crashes, window>>

\* KMS refuses to point an alias at a key whose deletion is pending.
UpdateAlias(i, a, k, next) ==
  /\ keyState[k] # "pending"
  /\ alias' = [alias EXCEPT ![a] = k]
  /\ window' = window \cup {k}
  /\ Goto(i, next)

RotateAliases(i) ==
  /\ \/ /\ step[i] = "updatePrevious"
        /\ UpdateAlias(i, "previous", seen[i]["current"], "updateCurrent")
     \/ /\ step[i] = "updateCurrent"
        /\ UpdateAlias(i, "current", seen[i]["next"], "updateNext")
     \/ /\ step[i] = "updateNext"
        /\ UpdateAlias(i, "next", fresh[i], "returned")
  /\ UNCHANGED <<keyState, seen, fresh, crashes, spared>>

\* What the execution answers about the window ("scheduled_for_deletion",
\* which says whether retire_key succeeded, is left out).
Answer(i) == [a \in Alias |->
  CASE a = "previous" -> seen[i]["current"]
    [] a = "current" -> seen[i]["next"]
    [] a = "next" -> fresh[i]]

Forget(i) ==
  /\ seen' = [seen EXCEPT ![i] = NothingSeen]
  /\ fresh' = [fresh EXCEPT ![i] = NoKey]
  /\ Goto(i, "idle")

Return(i) ==
  /\ step[i] = "returned"
  /\ Forget(i)
  /\ UNCHANGED <<kms, crashes, history>>

\* A call outside retire_key raises, or the 30 s timeout or the platform kills
\* the execution: what KMS already did stays.
Crash(i) ==
  /\ step[i] \notin {"idle", "returned"}
  /\ crashes < MaxCrashes
  /\ crashes' = crashes + 1
  /\ Forget(i)
  /\ UNCHANGED <<kms, history>>

Advance(i) ==
  \/ ReadCurrentState(i)
  \/ CreateKey(i)
  \/ RetireKey(i)
  \/ RotateAliases(i)
  \/ Return(i)

Next == \E i \in Invocation : Invoke(i) \/ Advance(i) \/ Crash(i)

Spec == Init /\ [][Next]_vars

\* The rule fires every 30 days, and an execution that is not killed goes on.
Fairness == \A i \in Invocation : WF_vars(Invoke(i)) /\ WF_vars(Advance(i))

FairSpec == Spec /\ Fairness

------------------------------------------------------------------------------

\* The aliases an execution has read when it is about to do s.
SeenBy(s) ==
  IF s \in {"idle", "readPrevious"} THEN {}
  ELSE IF s = "readCurrent" THEN {"previous"}
  ELSE IF s = "readNext" THEN {"previous", "current"}
  ELSE Alias

\* The types; an execution has a new key from create_key on (lambda.py:106-107:
\* otherwise aliases would point nowhere).
TypeOK ==
  /\ alias \in [Alias -> Key]
  /\ keyState \in [Key -> KeyState]
  /\ step \in [Invocation -> Step]
  /\ seen \in [Invocation -> [Alias -> Key \cup {NoKey}]]
  /\ fresh \in [Invocation -> Key \cup {NoKey}]
  /\ \A i \in Invocation : fresh[i] = NoKey <=> step[i] \notin Created
  /\ \A i \in Invocation : \A a \in Alias : seen[i][a] = NoKey <=> a \notin SeenBy(step[i])
  /\ crashes \in Nat
  /\ window \in SUBSET Key
  /\ spared \in SUBSET Key

\* The issuer can sign: whatever execution crashed where, the keys behind
\* "current" and "next" are enabled (lambda_handler retires only on clean runs).
SigningKeysEnabled == keyState[alias["current"]] = "enabled" /\ keyState[alias["next"]] = "enabled"

\* The window slides key by key, in order and from a whole window, over any
\* number of crashes and recoveries (detect_rotation_start): "previous" takes
\* over the signing key, "current" the key that was next, and only then is
\* "next" replaced. A token signed just before a rotation has its key in the
\* window for one whole rotation more.
SlidesInOrder ==
  [][/\ alias'["previous"] # alias["previous"] => Clean /\ alias'["previous"] = alias["current"]
     /\ alias'["current"] # alias["current"] =>
          alias["previous"] = alias["current"] /\ alias'["current"] = alias["next"]
     /\ alias'["next"] # alias["next"] => alias["current"] = alias["next"]]_vars

\* No key leaks: one that has left the window is on its way to deletion, unless
\* retire_key logged that it failed on it.
DroppedKeysAreRetired ==
  \A k \in window : (\A a \in Alias : alias[a] # k) => keyState[k] = "pending" \/ k \in spared

\* A rotation that crashed halfway is finished by a later execution.
RotationsAreFinished == ~Clean ~> Clean

==============================================================================

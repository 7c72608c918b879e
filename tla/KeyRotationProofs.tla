-------------------------- MODULE KeyRotationProofs --------------------------
(***************************************************************************)
(* Proofs about the rotation Lambda, for any keys and any number of        *)
(* crashes, and about the way of its keys to the guard, for any attesters. *)
(* TypeOK holds for any number of overlapping executions; the window only  *)
(* slides in order when executions do not overlap: two that do take each   *)
(* other's half-done work for a crash.                                     *)
(***************************************************************************)
EXTENDS KeyPipeline, SequenceTheorems, FiniteSetTheorems, TLAPS

\* What TypeOK says of one execution: when it has a new key, and when it has
\* read the whole window.
ExecutionOK(i) ==
  /\ fresh[i] = NoKey <=> step[i] \notin Created
  /\ \A a \in Alias : seen[i][a] = NoKey <=> a \notin SeenBy(step[i])

FieldsOK ==
  /\ alias \in [Alias -> Key]
  /\ keyState \in [Key -> KeyState]
  /\ step \in [Invocation -> Step]
  /\ seen \in [Invocation -> [Alias -> Key \cup {NoKey}]]
  /\ fresh \in [Invocation -> Key \cup {NoKey}]
  /\ crashes \in Nat
  /\ window \in SUBSET Key
  /\ spared \in SUBSET Key

LEMMA TypeParts == TypeOK <=> FieldsOK /\ \A i \in Invocation : ExecutionOK(i)
BY DEF TypeOK, FieldsOK, ExecutionOK

LEMMA InitType == Init => TypeOK
<1> SUFFICES ASSUME Init PROVE TypeOK
  OBVIOUS
<1> USE DEF Init
<1>1. alias \in [Alias -> Key]
  BY BootstrapAssumption
<1>2. keyState \in [Key -> KeyState]
  BY DEF KeyState
<1>3. step \in [Invocation -> Step]
  BY DEF Step
<1>4. seen \in [Invocation -> [Alias -> Key \cup {NoKey}]]
  BY DEF NothingSeen
<1>5. \A i \in Invocation : ExecutionOK(i)
  BY DEF ExecutionOK, Created, RotationStart, SeenBy, NothingSeen
<1>6. window \in SUBSET Key
  BY BootstrapAssumption
<1> QED
  BY <1>1, <1>2, <1>3, <1>4, <1>5, <1>6, TypeParts DEF FieldsOK

\* An execution that a step does not touch keeps what is known of it.
LEMMA OthersKeep ==
  ASSUME TypeOK, NEW i \in Invocation, ExecutionOK(i)',
         \A j \in Invocation \ {i} : /\ step'[j] = step[j]
                                     /\ seen'[j] = seen[j]
                                     /\ fresh'[j] = fresh[j],
         FieldsOK'
  PROVE  TypeOK'
<1>1. ASSUME NEW j \in Invocation \ {i} PROVE ExecutionOK(j)'
  BY TypeParts DEF ExecutionOK
<1>2. \A j \in Invocation : ExecutionOK(j)'
  BY <1>1
<1> QED
  BY <1>2 DEF TypeOK, FieldsOK, ExecutionOK

\* What create_key returns: a key that did not exist.
LEMMA NewKey ==
  ASSUME Absent # {}
  PROVE  (CHOOSE x \in Absent : TRUE) \in Absent
OBVIOUS

LEMMA StartType ==
  ASSUME NEW s
  PROVE  /\ DetectRotationStart(s) \in RotationStart
         /\ AfterCreate(DetectRotationStart(s)) \in Created
BY DEF DetectRotationStart, RotationStart, AfterCreate, Created

LEMMA ForgetType ==
  ASSUME TypeOK, NEW i \in Invocation, Forget(i), UNCHANGED <<kms, history>>, crashes' \in Nat
  PROVE  TypeOK'
<1> USE DEF Forget, Goto, kms, history
<1>1. FieldsOK'
  BY TypeParts DEF FieldsOK, Step, NothingSeen
<1>2. ExecutionOK(i)'
  BY TypeParts DEF FieldsOK, ExecutionOK, Created, RotationStart, SeenBy, NothingSeen
<1> QED
  BY <1>1, <1>2, OthersKeep, TypeParts DEF FieldsOK

LEMMA NextType == TypeOK /\ [Next]_vars => TypeOK'
<1> SUFFICES ASSUME TypeOK, [Next]_vars PROVE TypeOK'
  OBVIOUS
<1> USE TypeParts DEF FieldsOK
<1>1. CASE UNCHANGED vars
  BY <1>1 DEF TypeOK, vars
<1>2. ASSUME NEW i \in Invocation, Invoke(i) PROVE TypeOK'
  <2> USE <1>2 DEF Invoke, Goto, kms, history
  <2>1. FieldsOK'
    BY DEF Step
  <2>2. ExecutionOK(i)'
    BY DEF ExecutionOK, Created, RotationStart, SeenBy
  <2> QED
    BY <2>1, <2>2, OthersKeep
<1>3. ASSUME NEW i \in Invocation, ReadCurrentState(i) PROVE TypeOK'
  <2> USE <1>3 DEF ReadCurrentState, GetKeyId, Goto, kms, history
  <2>1. seen' \in [Invocation -> [Alias -> Key \cup {NoKey}]]
    BY DEF Alias
  <2>2. FieldsOK'
    BY <2>1 DEF Step
  <2>3. ExecutionOK(i)'
    BY NoKeyAssumption DEF ExecutionOK, Created, RotationStart, SeenBy, Alias
  <2> QED
    BY <2>2, <2>3, OthersKeep
<1>4. ASSUME NEW i \in Invocation, CreateKey(i) PROVE TypeOK'
  <2> DEFINE k == CHOOSE x \in Absent : TRUE
             n == AfterCreate(DetectRotationStart(seen[i]))
  <2>1. k \in Key /\ k # NoKey
    BY <1>4, NewKey, NoKeyAssumption DEF CreateKey, Absent
  <2>2. n \in Created /\ n \in Step /\ SeenBy(n) = Alias
    BY StartType DEF SeenBy, Created, Step, RotationStart, Alias
  <2>3. /\ step[i] = "create"
        /\ step' = [step EXCEPT ![i] = n]
        /\ fresh' = [fresh EXCEPT ![i] = k]
        /\ keyState' = [keyState EXCEPT ![k] = "enabled"]
        /\ UNCHANGED <<alias, seen, crashes, window, spared>>
    BY <1>4 DEF CreateKey, Goto, history
  <2> HIDE DEF k, n
  <2>4. FieldsOK'
    BY <2>1, <2>2, <2>3 DEF KeyState
  <2>5. SeenBy(step[i]) = Alias
    BY <2>3 DEF SeenBy
  <2>6. ExecutionOK(i)'
    BY <2>1, <2>2, <2>3, <2>5 DEF ExecutionOK
  <2> QED
    BY <2>3, <2>4, <2>6, OthersKeep
<1>5. ASSUME NEW i \in Invocation, RetireKey(i) PROVE TypeOK'
  <2> USE <1>5 DEF RetireKey, Goto
  <2>1. SeenBy(step[i]) = Alias /\ SeenBy(step'[i]) = Alias
    BY DEF SeenBy
  <2>2. seen[i]["previous"] \in Key
    BY <2>1 DEF ExecutionOK, Alias
  <2>3. FieldsOK'
    BY <2>2 DEF Step, KeyState, RotationStart
  <2>4. ExecutionOK(i)'
    BY <2>1 DEF ExecutionOK, Created, RotationStart
  <2> QED
    BY <2>3, <2>4, OthersKeep
<1>6. ASSUME NEW i \in Invocation, RotateAliases(i) PROVE TypeOK'
  <2> USE <1>6 DEF RotateAliases, UpdateAlias, Goto
  <2>1. SeenBy(step[i]) = Alias /\ SeenBy(step'[i]) = Alias
    BY DEF SeenBy
  <2>2. seen[i]["current"] \in Key /\ seen[i]["next"] \in Key
    BY <2>1 DEF ExecutionOK, Alias
  <2>3. step[i] \in Created /\ step'[i] \in Created
    BY DEF Created, RotationStart
  <2>4. fresh[i] \in Key
    BY <2>3 DEF ExecutionOK
  <2>5. FieldsOK'
    BY <2>2, <2>4 DEF Step, Alias, RotationStart
  <2>6. ExecutionOK(i)'
    BY <2>1, <2>3 DEF ExecutionOK
  <2> QED
    BY <2>5, <2>6, OthersKeep
<1>7. ASSUME NEW i \in Invocation, Return(i) PROVE TypeOK'
  BY <1>7, ForgetType DEF Return, TypeOK
<1>8. ASSUME NEW i \in Invocation, Crash(i) PROVE TypeOK'
  BY <1>8, ForgetType DEF Crash, TypeOK
<1> QED
  BY <1>1, <1>2, <1>3, <1>4, <1>5, <1>6, <1>7, <1>8 DEF Next, Advance

\* However executions overlap and crash, the aliases name keys that were created.
THEOREM TypeCorrect == Spec => []TypeOK
BY InitType, NextType, PTL DEF Spec

------------------------------------------------------------------------------
(* Executions that do not overlap.                                          *)

OneAtATime == \A i, j \in Invocation : i = j

\* What an execution knows of the window when it is about to do a step.
ExecutionInv(i) ==
  /\ step[i] \notin {"updateCurrent", "updateNext", "returned"} =>
       \A a \in SeenBy(step[i]) : seen[i][a] = alias[a]
  /\ step[i] \in {"disable", "schedule", "updatePrevious"} => Clean
  /\ step[i] = "updateCurrent" =>
       alias["previous"] = alias["current"] /\ seen[i]["next"] = alias["next"]
  /\ step[i] = "updateNext" => alias["current"] = alias["next"]
  /\ step[i] \in Created \ {"returned"} =>
       keyState[fresh[i]] = "enabled" /\ \A a \in Alias : alias[a] # fresh[i]

\* The shapes of the window, and the keys behind it. "previous" never names the
\* key that is next, so a repeated key says how far a rotation got.
WindowInv ==
  /\ alias["previous"] # alias["next"]
  /\ SigningKeysEnabled
  /\ keyState[alias["previous"]] # "absent"

Inv == TypeOK /\ WindowInv /\ \A i \in Invocation : ExecutionInv(i)

LEMMA InitInv == Init => Inv
<1> SUFFICES ASSUME Init PROVE Inv
  OBVIOUS
<1>1. TypeOK
  BY InitType
<1>2. WindowInv
  BY BootstrapAssumption DEF Init, WindowInv, SigningKeysEnabled, Alias
<1>3. \A i \in Invocation : ExecutionInv(i)
  BY DEF Init, ExecutionInv, SeenBy, Created, RotationStart
<1> QED
  BY <1>1, <1>2, <1>3 DEF Inv

\* The step of the only execution there is.
LEMMA OnlyOne ==
  ASSUME OneAtATime, NEW i \in Invocation, TypeOK', WindowInv', ExecutionInv(i)'
  PROVE  Inv'
BY DEF OneAtATime, Inv

LEMMA NextInv == ASSUME OneAtATime, Inv, [Next]_vars PROVE Inv'
<1>1. TypeOK'
  BY NextType DEF Inv
<1>2. CASE UNCHANGED vars
  BY <1>1, <1>2 DEF Inv, vars, WindowInv, SigningKeysEnabled, ExecutionInv, Clean
<1>3. ASSUME NEW i \in Invocation, step[i] \in {"idle"}, Invoke(i) PROVE Inv'
  <2>1. WindowInv'
    BY <1>3 DEF Inv, Invoke, kms, WindowInv, SigningKeysEnabled
  <2>2. step'[i] = "readPrevious"
    BY <1>3 DEF Inv, TypeOK, Invoke, Goto
  <2>3. ExecutionInv(i)'
    BY <2>2 DEF ExecutionInv, SeenBy, Created, RotationStart
  <2> QED
    BY <1>1, <2>1, <2>3, OnlyOne
<1>4. ASSUME NEW i \in Invocation, ReadCurrentState(i) PROVE Inv'
  <2>1. WindowInv'
    BY <1>4 DEF Inv, ReadCurrentState, kms, WindowInv, SigningKeysEnabled
  <2>2. step'[i] \in {"readCurrent", "readNext", "create"}
    BY <1>4 DEF Inv, TypeOK, ReadCurrentState, Goto
  <2>3. \A a \in SeenBy(step'[i]) : seen'[i][a] = alias'[a]
    BY <1>4 DEF Inv, TypeOK, ReadCurrentState, GetKeyId, Goto, kms, ExecutionInv, SeenBy, Alias
  <2>4. ExecutionInv(i)'
    BY <2>2, <2>3 DEF ExecutionInv, Created, RotationStart
  <2> QED
    BY <1>1, <2>1, <2>4, OnlyOne
<1>5. ASSUME NEW i \in Invocation, CreateKey(i) PROVE Inv'
  <2> DEFINE k == CHOOSE x \in Absent : TRUE
             start == DetectRotationStart(seen[i])
  <2>1. k \in Key /\ keyState[k] = "absent"
    BY <1>5, NewKey DEF CreateKey, Absent
  <2>2. /\ step[i] = "create"
        /\ step'[i] = AfterCreate(start)
        /\ fresh'[i] = k
        /\ keyState' = [keyState EXCEPT ![k] = "enabled"]
        /\ UNCHANGED <<alias, seen>>
    BY <1>5 DEF CreateKey, Goto, Inv, TypeOK
  <2>3. \A a \in Alias : seen[i][a] = alias[a]
    BY <2>2 DEF Inv, ExecutionInv, SeenBy
  <2>4. \A a \in Alias : alias[a] # k
    BY <2>1 DEF Inv, WindowInv, SigningKeysEnabled, Alias
  <2>5. start = IF alias["previous"] = alias["current"] THEN "updateCurrent"
                ELSE IF alias["current"] = alias["next"] THEN "updateNext"
                ELSE "updatePrevious"
    BY <2>3 DEF DetectRotationStart, Alias
  <2> HIDE DEF k, start
  <2>6. WindowInv'
    BY <2>1, <2>2, <2>4 DEF Inv, TypeOK, WindowInv, SigningKeysEnabled, Alias
  <2>7. keyState'[fresh'[i]] = "enabled" /\ \A a \in Alias : alias'[a] # fresh'[i]
    BY <2>1, <2>2, <2>4 DEF Inv, TypeOK
  <2>8. ExecutionInv(i)'
    BY <2>2, <2>3, <2>5, <2>7 DEF Inv, WindowInv, ExecutionInv, AfterCreate, SeenBy, Clean, Alias
  <2> QED
    BY <1>1, <2>6, <2>8, OnlyOne
<1>6. ASSUME NEW i \in Invocation, RetireKey(i) PROVE Inv'
  <2>1. /\ Clean
        /\ \A a \in Alias : seen[i][a] = alias[a]
        /\ keyState[fresh[i]] = "enabled" /\ \A a \in Alias : alias[a] # fresh[i]
    BY <1>6 DEF RetireKey, Inv, ExecutionInv, SeenBy, Created
  <2>2. /\ step'[i] \in {"schedule", "updatePrevious"}
        /\ UNCHANGED <<alias, seen, fresh>>
    BY <1>6 DEF RetireKey, Goto, Inv, TypeOK
  <2>3. \A k \in Key : k # alias["previous"] => keyState'[k] = keyState[k]
    BY <1>6, <2>1 DEF RetireKey, Inv, TypeOK, Alias
  <2>4. keyState'[alias["previous"]] # "absent"
    BY <1>6, <2>1 DEF RetireKey, Inv, TypeOK, WindowInv, Alias
  <2>5. WindowInv'
    BY <2>1, <2>2, <2>3, <2>4 DEF Inv, TypeOK, WindowInv, SigningKeysEnabled, Clean, Alias
  <2>6. fresh[i] \in Key
    BY <1>6 DEF Inv, TypeOK, RetireKey, Created
  <2>7. ExecutionInv(i)'
    BY <2>1, <2>2, <2>3, <2>6 DEF ExecutionInv, SeenBy, Clean, Alias
  <2> QED
    BY <1>1, <2>5, <2>7, OnlyOne
<1>7. ASSUME NEW i \in Invocation, RotateAliases(i) PROVE Inv'
  <2> USE <1>7 DEF RotateAliases, UpdateAlias, Goto, Inv, TypeOK
  <2>1. CASE step[i] = "updatePrevious"
    <3>1. /\ Clean
          /\ seen[i]["current"] = alias["current"]
          /\ seen[i]["next"] = alias["next"]
          /\ keyState[fresh[i]] = "enabled" /\ \A a \in Alias : alias[a] # fresh[i]
      BY <2>1 DEF ExecutionInv, SeenBy, Created, RotationStart, Alias
    <3>2. /\ alias' = [alias EXCEPT !["previous"] = alias["current"]]
          /\ step'[i] = "updateCurrent"
          /\ UNCHANGED <<keyState, seen, fresh>>
      BY <2>1, <3>1
    <3>3. WindowInv'
      BY <3>1, <3>2 DEF WindowInv, SigningKeysEnabled, Clean, Alias
    <3>4. ExecutionInv(i)'
      BY <3>1, <3>2 DEF ExecutionInv, Alias
    <3> QED
      BY <1>1, <3>3, <3>4, OnlyOne
  <2>2. CASE step[i] = "updateCurrent"
    <3>1. /\ alias["previous"] = alias["current"]
          /\ seen[i]["next"] = alias["next"]
          /\ keyState[fresh[i]] = "enabled" /\ \A a \in Alias : alias[a] # fresh[i]
      BY <2>2 DEF ExecutionInv, Created, RotationStart
    <3>2. /\ alias' = [alias EXCEPT !["current"] = alias["next"]]
          /\ step'[i] = "updateNext"
          /\ UNCHANGED <<keyState, seen, fresh>>
      BY <2>2, <3>1
    <3>3. WindowInv'
      BY <3>1, <3>2 DEF WindowInv, SigningKeysEnabled, Alias
    <3>4. ExecutionInv(i)'
      BY <3>1, <3>2 DEF ExecutionInv, Alias
    <3> QED
      BY <1>1, <3>3, <3>4, OnlyOne
  <2>3. CASE step[i] = "updateNext"
    <3>1. /\ alias["current"] = alias["next"]
          /\ keyState[fresh[i]] = "enabled" /\ \A a \in Alias : alias[a] # fresh[i]
      BY <2>3 DEF ExecutionInv, Created, RotationStart
    <3>2. /\ alias' = [alias EXCEPT !["next"] = fresh[i]]
          /\ step'[i] = "returned"
          /\ UNCHANGED <<keyState, seen, fresh>>
      BY <2>3
    <3>3. WindowInv'
      BY <3>1, <3>2 DEF WindowInv, SigningKeysEnabled, Alias
    <3>4. ExecutionInv(i)'
      BY <3>2 DEF ExecutionInv
    <3> QED
      BY <1>1, <3>3, <3>4, OnlyOne
  <2> QED
    BY <2>1, <2>2, <2>3
<1>8. ASSUME NEW i \in Invocation, Forget(i), UNCHANGED kms PROVE Inv'
  <2>1. WindowInv'
    BY <1>8 DEF Inv, kms, WindowInv, SigningKeysEnabled
  <2>2. step'[i] = "idle"
    BY <1>8 DEF Inv, TypeOK, Forget, Goto
  <2>3. ExecutionInv(i)'
    BY <2>2 DEF ExecutionInv, SeenBy, Created, RotationStart
  <2> QED
    BY <1>1, <2>1, <2>3, OnlyOne
<1> QED
  BY <1>2, <1>3, <1>4, <1>5, <1>6, <1>7, <1>8 DEF Next, Advance, Invoke, Return, Crash

LEMMA Invariance == ASSUME OneAtATime PROVE Spec => []Inv
<1>1. Inv /\ [Next]_vars => Inv'
  BY NextInv
<1> QED
  BY <1>1, InitInv, PTL DEF Spec

\* The key that signs and the key that is next are enabled at every moment of
\* every rotation, interrupted or not (lambda_handler, rotate_aliases).
THEOREM CanAlwaysSign == ASSUME OneAtATime PROVE Spec => []SigningKeysEnabled
<1>1. Inv => SigningKeysEnabled
  BY DEF Inv, WindowInv
<1> QED
  BY <1>1, Invariance, PTL

\* A step of the window, given the invariant.
SlideStep ==
  /\ alias'["previous"] # alias["previous"] => Clean /\ alias'["previous"] = alias["current"]
  /\ alias'["current"] # alias["current"] =>
       alias["previous"] = alias["current"] /\ alias'["current"] = alias["next"]
  /\ alias'["next"] # alias["next"] => alias["current"] = alias["next"]

LEMMA StepSlides == ASSUME Inv, [Next]_vars PROVE SlideStep \/ UNCHANGED vars
<1>1. CASE UNCHANGED alias
  BY <1>1 DEF SlideStep
<1>2. ASSUME NEW i \in Invocation, RotateAliases(i) PROVE SlideStep
  <2> USE <1>2 DEF RotateAliases, UpdateAlias, Inv, TypeOK, ExecutionInv, Alias
  <2>1. CASE step[i] = "updatePrevious"
    BY <2>1 DEF SlideStep, SeenBy
  <2>2. CASE step[i] = "updateCurrent"
    BY <2>2 DEF SlideStep
  <2>3. CASE step[i] = "updateNext"
    BY <2>3 DEF SlideStep
  <2> QED
    BY <2>1, <2>2, <2>3
<1> QED
  BY <1>1, <1>2 DEF Next, Advance, Invoke, ReadCurrentState, CreateKey, RetireKey, Return, Crash, kms, vars

\* The window slides by one key at a time, in order, and only from a whole
\* window, over any number of crashes and recoveries.
THEOREM WindowSlides == ASSUME OneAtATime PROVE Spec => SlidesInOrder
<1>1. Inv /\ [Next]_vars => [SlideStep]_vars
  BY StepSlides
<1> QED
  BY <1>1, Invariance, PTL DEF Spec, SlidesInOrder, SlideStep
------------------------------------------------------------------------------
(* What has left the window.                                                *)

Retired(k) == keyState[k] = "pending" \/ k \in spared

\* Only "previous" loses its key for good, and the key it is about to lose has
\* been through retire_key.
DroppedInv ==
  /\ DroppedKeysAreRetired
  /\ \A i \in Invocation : step[i] = "updatePrevious" => Retired(alias["previous"])

\* A step that moves no alias and takes back no retirement drops nothing.
LEMMA NothingDropped ==
  ASSUME OneAtATime, Inv, DroppedInv, NEW i \in Invocation, UNCHANGED <<alias, window>>,
         \A k \in Key : Retired(k) => Retired(k)' \/ k = alias["previous"],
         step'[i] = "updatePrevious" => Retired(alias["previous"])'
  PROVE  DroppedInv'
<1>1. DroppedKeysAreRetired'
  BY DEF Inv, TypeOK, DroppedInv, DroppedKeysAreRetired, Retired, Alias
<1>2. ASSUME NEW j \in Invocation, step'[j] = "updatePrevious" PROVE Retired(alias["previous"])'
  BY <1>2 DEF OneAtATime
<1> QED
  BY <1>1, <1>2 DEF DroppedInv

LEMMA NextDropped == ASSUME OneAtATime, Inv, DroppedInv, [Next]_vars PROVE DroppedInv'
<1> USE DEF Goto, kms, history
<1>1. CASE UNCHANGED vars
  BY <1>1 DEF DroppedInv, DroppedKeysAreRetired, Retired, vars
<1>2. ASSUME NEW i \in Invocation, Invoke(i) \/ ReadCurrentState(i) PROVE DroppedInv'
  <2>1. UNCHANGED <<alias, keyState, window, spared>> /\ step'[i] # "updatePrevious"
    BY <1>2 DEF Invoke, ReadCurrentState, Inv, TypeOK
  <2> QED
    BY <2>1, NothingDropped DEF Retired
<1>3. ASSUME NEW i \in Invocation, CreateKey(i) PROVE DroppedInv'
  <2>1. \A k \in Key : keyState[k] = "pending" => keyState'[k] = "pending"
    BY <1>3, NewKey DEF CreateKey, Absent, Inv, TypeOK
  <2>2. UNCHANGED <<alias, window, spared>>
    BY <1>3 DEF CreateKey
  <2>3. step'[i] # "updatePrevious"
    BY <1>3 DEF CreateKey, AfterCreate, Inv, TypeOK
  <2> QED
    BY <2>1, <2>2, <2>3, NothingDropped DEF Retired
<1>4. ASSUME NEW i \in Invocation, RetireKey(i) PROVE DroppedInv'
  <2>1. seen[i]["previous"] = alias["previous"] /\ alias["previous"] \in Key
    BY <1>4 DEF RetireKey, Inv, TypeOK, ExecutionInv, SeenBy, Alias
  <2>2. UNCHANGED <<alias, window>>
    BY <1>4 DEF RetireKey
  <2>3. \A k \in Key : Retired(k) => Retired(k)' \/ k = alias["previous"]
    BY <1>4, <2>1 DEF RetireKey, Inv, TypeOK, Retired
  <2>4. step'[i] = "updatePrevious" => Retired(alias["previous"])'
    BY <1>4, <2>1 DEF RetireKey, Inv, TypeOK, Retired
  <2> QED
    BY <2>2, <2>3, <2>4, NothingDropped
<1>5. ASSUME NEW i \in Invocation, RotateAliases(i) PROVE DroppedInv'
  <2> USE <1>5 DEF RotateAliases, UpdateAlias, Inv, TypeOK, ExecutionInv, Alias
  <2>1. UNCHANGED <<keyState, spared>> /\ step'[i] # "updatePrevious"
    OBVIOUS
  <2>2. \A j \in Invocation : step'[j] # "updatePrevious"
    BY <2>1 DEF OneAtATime
  <2>3. PICK a \in Alias, k \in Key :
          /\ alias' = [alias EXCEPT ![a] = k]
          /\ window' = window \cup {k}
          /\ \/ \E b \in Alias : b # a /\ alias[b] = alias[a]
             \/ Retired(alias[a])
    <3>1. CASE step[i] = "updatePrevious"
      BY <3>1 DEF DroppedInv, SeenBy
    <3>2. CASE step[i] = "updateCurrent"
      BY <3>2
    <3>3. CASE step[i] = "updateNext"
      <4>1. fresh[i] \in Key
        BY <3>3 DEF Created, RotationStart
      <4> QED
        BY <3>3, <4>1
    <3> QED
      BY <3>1, <3>2, <3>3
  <2>4. ASSUME NEW x \in window', \A b \in Alias : alias'[b] # x PROVE Retired(x)
    <3>1. x # k /\ x \in window
      BY <2>3, <2>4
    <3>2. CASE \E b \in Alias : alias[b] = x
      BY <2>3, <2>4, <3>2
    <3>3. CASE \A b \in Alias : alias[b] # x
      BY <3>1, <3>3 DEF DroppedInv, DroppedKeysAreRetired, Retired
    <3> QED
      BY <3>2, <3>3
  <2> QED
    BY <2>1, <2>2, <2>4 DEF DroppedInv, DroppedKeysAreRetired, Retired
<1>6. ASSUME NEW i \in Invocation, Return(i) \/ Crash(i) PROVE DroppedInv'
  <2>1. UNCHANGED <<alias, keyState, window, spared>> /\ step'[i] # "updatePrevious"
    BY <1>6 DEF Return, Crash, Forget, Inv, TypeOK
  <2> QED
    BY <2>1, NothingDropped DEF Retired
<1> QED
  BY <1>1, <1>2, <1>3, <1>4, <1>5, <1>6 DEF Next, Advance

\* No key leaks over any number of crashes: what has left the window is pending
\* deletion, unless retire_key logged a failure on it.
THEOREM NoKeyLeaks == ASSUME OneAtATime PROVE Spec => []DroppedKeysAreRetired
<1>1. Init => DroppedInv
  BY DEF Init, DroppedInv, DroppedKeysAreRetired
<1>2. Inv /\ DroppedInv /\ [Next]_vars => DroppedInv'
  BY NextDropped
<1>3. DroppedInv => DroppedKeysAreRetired
  BY DEF DroppedInv
<1> QED
  BY <1>1, <1>2, <1>3, Invariance, PTL DEF Spec

\* The key that an execution is about to point an alias at.
Target(i) ==
  CASE step[i] = "updatePrevious" -> seen[i]["current"]
    [] step[i] = "updateCurrent" -> seen[i]["next"]
    [] step[i] = "updateNext" -> fresh[i]

\* No update that a rotation still has to make is refused, or leaves an alias
\* with a key that cannot sign or be read: an execution that has begun to move
\* the aliases can go on to its end, also one that resumes a crashed one.
UpdatesAreAccepted ==
  \A i \in Invocation : step[i] \in RotationStart => keyState[Target(i)] = "enabled"

\* KMS refuses to point an alias at a key whose deletion is pending; the rotation
\* never asks it to (rotate_aliases), wherever executions crashed before.
THEOREM RotationsNeverStick == ASSUME OneAtATime PROVE Spec => []UpdatesAreAccepted
<1>1. Inv => UpdatesAreAccepted
  <2> SUFFICES ASSUME Inv, NEW i \in Invocation, step[i] \in RotationStart
               PROVE  keyState[Target(i)] = "enabled"
    BY DEF UpdatesAreAccepted
  <2> USE DEF Inv, ExecutionInv, WindowInv, SigningKeysEnabled, Alias
  <2>1. CASE step[i] = "updatePrevious"
    BY <2>1 DEF Target, SeenBy
  <2>2. CASE step[i] = "updateCurrent"
    BY <2>2 DEF Target
  <2>3. CASE step[i] = "updateNext"
    BY <2>3 DEF Target, Created, RotationStart
  <2> QED
    BY <2>1, <2>2, <2>3 DEF RotationStart
<1> QED
  BY <1>1, Invariance, PTL

------------------------------------------------------------------------------
(* The whole way of a key. Lists of three keys, sorting and hashing first.  *)

\* What travels between KMS, the attesters, the contract and the guard.
Lists == [1 .. 3 -> Key]

\* A modulus has a first byte to sort by.
LEMMA FirstDigit == ASSUME NEW k \in Key PROVE k.n[1] \in Nat
<1>1. k.n \in Seq(Nat) /\ k.n # << >>
  BY KeysAssumption
<1>2. Len(k.n) \in Nat \ {0}
  BY <1>1, EmptySeq
<1>3. 1 \in 1 .. Len(k.n)
  BY <1>2
<1> QED
  BY <1>1, <1>3, ElementOfSeq

\* Sorting a window loses no key.
LEMMA SortKeeps ==
  ASSUME NEW keys \in Lists
  PROVE  Run!SortPublicKeys(keys) \in Lists /\ ToSet(Run!SortPublicKeys(keys)) = ToSet(keys)
<1>1. CASE Run!Ascending(keys)
  BY <1>1 DEF Run!SortPublicKeys
<1>2. CASE ~Run!Ascending(keys)
  <2> DEFINE order == CHOOSE o \in Run!Orders : Run!Ascending(Run!Arranged(keys, o))
  <2>1. keys[1] \in Key /\ keys[2] \in Key /\ keys[3] \in Key
    BY DEF Lists
  <2>2. keys[1].n[1] \in Nat /\ keys[2].n[1] \in Nat /\ keys[3].n[1] \in Nat
    BY <2>1, FirstDigit
  <2>3. \E o \in Run!Orders : Run!Ascending(Run!Arranged(keys, o))
    <3> DEFINE x == keys[1].n[1]
               y == keys[2].n[1]
               z == keys[3].n[1]
    <3>1. \/ (x <= y /\ y <= z) \/ (x <= z /\ z <= y) \/ (y <= x /\ x <= z)
          \/ (y <= z /\ z <= x) \/ (z <= x /\ x <= y) \/ (z <= y /\ y <= x)
      BY <2>2
    <3> QED
      BY <3>1 DEF Run!Orders, Run!Ascending, Run!Arranged
  <2>4. order \in Run!Orders
    BY <2>3
  <2>5. Run!SortPublicKeys(keys) = Run!Arranged(keys, order)
    BY <1>2 DEF Run!SortPublicKeys
  <2> HIDE DEF order
  <2>6. Run!Arranged(keys, order) \in Lists /\ ToSet(Run!Arranged(keys, order)) = {keys[1], keys[2], keys[3]}
    BY <2>1, <2>4 DEF Run!Orders, Run!Arranged, Lists, ToSet
  <2>7. ToSet(keys) = {keys[1], keys[2], keys[3]}
    BY DEF Lists, ToSet
  <2> QED
    BY <2>5, <2>6, <2>7
<1> QED
  BY <1>1, <1>2

\* Lists that the attester finds equal hold the same keys.
LEMMA MatchMeansSame ==
  ASSUME NEW a \in Lists, NEW b \in Lists, Run!PublicKeysMatch(a, b)
  PROVE  ToSet(a) = ToSet(b)
BY SortKeeps DEF Run!PublicKeysMatch

\* The bytes of three keys are put one after the other.
LEMMA FlattenThree ==
  ASSUME NEW S, NEW f \in [1 .. 3 -> Seq(S)]
  PROVE  Att!FlattenSeq(f) = (f[1] \o f[2]) \o f[3]
<1> DEFINE Rec(g) == g = [i \in 1 .. 3 |-> IF i = 1 THEN f[i] ELSE g[i - 1] \o f[i]]
           flat == CHOOSE g : Rec(g)
           w == [i \in 1 .. 3 |-> IF i = 1 THEN f[1] ELSE IF i = 2 THEN f[1] \o f[2] ELSE (f[1] \o f[2]) \o f[3]]
<1>0. Len(f) = 3
  OBVIOUS
<1>1. Att!FlattenSeq(f) = flat[3]
  BY <1>0 DEF Att!FlattenSeq
<1>2. Rec(w)
  OBVIOUS
<1>3. Rec(flat)
  BY <1>2
<1>4. ASSUME NEW g, Rec(g) PROVE g[3] = (f[1] \o f[2]) \o f[3]
  <2>1. \A i \in 1 .. 3 : g[i] = IF i = 1 THEN f[i] ELSE g[i - 1] \o f[i]
    BY <1>4, Zenon
  <2>2. g[1] = f[1]
    BY <2>1
  <2>3. g[2] = g[1] \o f[2]
    BY <2>1
  <2>4. g[3] = g[2] \o f[3]
    BY <2>1
  <2> QED
    BY <2>2, <2>3, <2>4
<1> QED
  BY <1>1, <1>3, <1>4

\* Strings of known length can be told apart when they are put together.
LEMMA ConcatApart ==
  ASSUME NEW S, NEW a \in Seq(S), NEW b \in Seq(S), NEW c \in Seq(S), NEW d \in Seq(S),
         Len(a) = Len(c), a \o b = c \o d
  PROVE  a = c /\ b = d
<1>1. /\ Len(a \o b) = Len(a) + Len(b) /\ Len(c \o d) = Len(c) + Len(d)
      /\ \A i \in 1 .. Len(a) + Len(b) : (a \o b)[i] = IF i <= Len(a) THEN a[i] ELSE b[i - Len(a)]
      /\ \A i \in 1 .. Len(c) + Len(d) : (c \o d)[i] = IF i <= Len(c) THEN c[i] ELSE d[i - Len(c)]
  BY ConcatProperties
<1>2. Len(a) \in Nat /\ Len(b) \in Nat /\ Len(d) \in Nat
  BY LenProperties
<1>3. Len(b) = Len(d)
  BY <1>1, <1>2
<1>4. \A i \in 1 .. Len(a) : a[i] = c[i]
  BY <1>1, <1>2, <1>3
<1>5. ASSUME NEW i \in 1 .. Len(b) PROVE b[i] = d[i]
  <2>1. i + Len(a) \in 1 .. Len(a) + Len(b) /\ i + Len(a) > Len(a) /\ i + Len(a) - Len(a) = i
    BY <1>2
  <2>2. (a \o b)[i + Len(a)] = b[i] /\ (c \o d)[i + Len(a)] = d[i]
    BY <1>1, <1>2, <1>3, <2>1
  <2> QED
    BY <2>2
<1> QED
  BY <1>3, <1>4, <1>5, SeqEqual

\* The bytes of one key.
Bytes(k) == k.n \o k.e

\* They tell the key, and are as many as any other's.
LEMMA BytesOfAKey ==
  ASSUME NEW k \in Key, NEW l \in Key
  PROVE  /\ Bytes(k) \in Seq(Nat)
         /\ Len(Bytes(k)) = Len(Bytes(l))
         /\ Bytes(k) = Bytes(l) => k = l
<1>1. /\ k.n \in Seq(Nat) /\ k.e \in Seq(Nat) /\ l.n \in Seq(Nat) /\ l.e \in Seq(Nat)
      /\ k = [n |-> k.n, e |-> k.e] /\ l = [n |-> l.n, e |-> l.e]
      /\ Len(k.n) = Len(l.n) /\ Len(k.e) = Len(l.e)
  BY KeysAssumption
<1>2. Bytes(k) \in Seq(Nat) /\ Len(Bytes(k)) = Len(k.n) + Len(k.e) /\ Len(Bytes(l)) = Len(l.n) + Len(l.e)
  BY <1>1, ConcatProperties DEF Bytes
<1>3. ASSUME Bytes(k) = Bytes(l) PROVE k = l
  <2>1. k.n = l.n /\ k.e = l.e
    BY <1>1, <1>3, ConcatApart DEF Bytes
  <2> QED
    BY <1>1, <2>1
<1> QED
  BY <1>1, <1>2, <1>3

\* Two windows with the same hash are the same: keys of one size cannot run
\* into each other.
LEMMA HashIsFaithful ==
  ASSUME NEW s \in Lists, NEW t \in Lists,
         Att!ComputePublicKeysHash(s) = Att!ComputePublicKeysHash(t)
  PROVE  s = t
<1> DEFINE B(q) == [i \in 1 .. 3 |-> Bytes(q[i])]
<1>1. ASSUME NEW q \in Lists
      PROVE  /\ \A i \in 1 .. 3 : q[i] \in Key /\ Bytes(q[i]) \in Seq(Nat)
             /\ Att!ComputePublicKeysHash(q) = (Bytes(q[1]) \o Bytes(q[2])) \o Bytes(q[3])
  <2>1. \A i \in 1 .. 3 : q[i] \in Key
    BY DEF Lists
  <2>2. \A i \in 1 .. 3 : Bytes(q[i]) \in Seq(Nat)
    BY <2>1, BytesOfAKey
  <2>3. B(q) \in [1 .. 3 -> Seq(Nat)]
    BY <2>2
  <2>4. Att!ComputePublicKeysHash(q) = Att!FlattenSeq(B(q))
    <3>1. DOMAIN q = 1 .. 3
      BY DEF Lists
    <3>2. [i \in DOMAIN q |-> q[i].n \o q[i].e] = B(q)
      BY <3>1 DEF Bytes
    <3> QED
      BY <3>2, Zenon DEF Att!ComputePublicKeysHash
  <2>5. Att!FlattenSeq(B(q)) = (B(q)[1] \o B(q)[2]) \o B(q)[3]
    BY <2>3, FlattenThree
  <2>6. B(q)[1] = Bytes(q[1]) /\ B(q)[2] = Bytes(q[2]) /\ B(q)[3] = Bytes(q[3])
    OBVIOUS
  <2> QED
    BY <2>1, <2>2, <2>4, <2>5, <2>6
<1> HIDE DEF B
<1>2. ASSUME NEW i \in 1 .. 3
      PROVE  /\ Bytes(s[i]) \in Seq(Nat) /\ Bytes(t[i]) \in Seq(Nat)
             /\ Len(Bytes(s[i])) = Len(Bytes(t[i]))
             /\ Bytes(s[i]) = Bytes(t[i]) => s[i] = t[i]
  BY <1>1, BytesOfAKey
<1> DEFINE a == Bytes(s[1])
           b == Bytes(s[2])
           c == Bytes(s[3])
           x == Bytes(t[1])
           y == Bytes(t[2])
           z == Bytes(t[3])
<1>3. /\ a \in Seq(Nat) /\ b \in Seq(Nat) /\ c \in Seq(Nat)
      /\ x \in Seq(Nat) /\ y \in Seq(Nat) /\ z \in Seq(Nat)
      /\ Len(a) = Len(x) /\ Len(b) = Len(y)
  BY <1>2
<1>4. (a \o b) \o c = (x \o y) \o z
  BY <1>1
<1>5. a = x => s[1] = t[1]
  BY <1>2
<1>6. b = y => s[2] = t[2]
  BY <1>2
<1>7. c = z => s[3] = t[3]
  BY <1>2
<1> HIDE DEF a, b, c, x, y, z
<1>8. /\ a \o b \in Seq(Nat) /\ x \o y \in Seq(Nat)
      /\ Len(a \o b) = Len(a) + Len(b) /\ Len(x \o y) = Len(x) + Len(y)
  BY <1>3, ConcatProperties
<1>9. a \o b = x \o y /\ c = z
  BY <1>3, <1>4, <1>8, ConcatApart
<1>10. a = x /\ b = y
  BY <1>3, <1>9, ConcatApart
<1> QED
  BY <1>5, <1>6, <1>7, <1>9, <1>10 DEF Lists
------------------------------------------------------------------------------
(* The rotation, as the attesters and the guard see it.                     *)

\* An execution is under way.
UnderWay == \E i \in Invocation : step[i] \notin {"idle", "returned"}

\* The key behind "next" may become the signing key before anything else happens.
Committed == Interrupted \/ UnderWay

\* The keys that were ever in the window exist; the new one has not been there
\* yet; and what a rotation has begun to move is not retired.
KmsInv ==
  /\ Inv
  /\ \A a \in Alias : alias[a] \in window
  /\ \A k \in window : keyState[k] # "absent"
  /\ \A i \in Invocation : step[i] \in Created \ {"returned"} => fresh[i] \notin window
  /\ ~Clean => keyState[alias["previous"]] = "enabled"

\* The one execution's step leaves the window alone, or slides it by one key.
WindowStays == UNCHANGED <<alias, window>> /\ (Committed' => Committed)

PreviousMoves ==
  /\ Committed /\ Clean
  /\ alias' = [alias EXCEPT !["previous"] = alias["current"]]
  /\ window \subseteq window'

CurrentMoves ==
  /\ Committed
  /\ alias["previous"] = alias["current"]
  /\ alias' = [alias EXCEPT !["current"] = alias["next"]]
  /\ window \subseteq window'

NextMoves ==
  /\ Committed /\ ~Committed'
  /\ alias["current"] = alias["next"]
  /\ \E k \in Key : k \notin window /\ alias' = [alias EXCEPT !["next"] = k]
  /\ window \subseteq window'

Slide == WindowStays \/ PreviousMoves \/ CurrentMoves \/ NextMoves

\* The bootstrap's window.
LEMMA KmsInit == Init => KmsInv
<1> SUFFICES ASSUME Init PROVE KmsInv
  OBVIOUS
<1>1. Inv
  BY InitInv
<1>2. \A a \in Alias : alias[a] \in window
  BY DEF Init
<1>3. \A k \in window : keyState[k] # "absent"
  BY BootstrapAssumption DEF Init
<1>4. \A i \in Invocation : step[i] \notin Created
  BY DEF Init, Created, RotationStart
<1>5. Clean
  BY BootstrapAssumption DEF Init, Clean
<1> QED
  BY <1>1, <1>2, <1>3, <1>4, <1>5 DEF KmsInv

\* The step of the only execution.
LEMMA KmsStep ==
  ASSUME OneAtATime, KmsInv, NEW i \in Invocation, Inv',
         Advance(i) \/ Crash(i) \/ Invoke(i)
  PROVE  KmsInv' /\ (Slide \/ Invoke(i))
<1>0. Inv
  BY DEF KmsInv
<1> USE <1>0 DEF Inv, TypeOK, Goto, kms, history
<1>1. CASE Invoke(i)
  <2>1. UNCHANGED <<alias, keyState, window>> /\ step'[i] = "readPrevious"
    BY <1>1 DEF Invoke
  <2>2. \A j \in Invocation : step'[j] \notin Created
    BY <2>1 DEF OneAtATime, Created, RotationStart
  <2>3. Clean' <=> Clean
    BY <2>1 DEF Clean
  <2> QED
    BY <1>1, <2>1, <2>2, <2>3 DEF KmsInv
<1>2. CASE ReadCurrentState(i)
  <2>1. UNCHANGED <<alias, keyState, window>> /\ step'[i] \in {"readCurrent", "readNext", "create"}
    BY <1>2 DEF ReadCurrentState
  <2>2. \A j \in Invocation : step'[j] \notin Created
    BY <2>1 DEF OneAtATime, Created, RotationStart
  <2>3. Clean' <=> Clean
    BY <2>1 DEF Clean
  <2>4. UnderWay
    BY <1>2 DEF ReadCurrentState, UnderWay
  <2> QED
    BY <2>1, <2>2, <2>3, <2>4 DEF KmsInv, Slide, WindowStays, Committed
<1>3. CASE CreateKey(i)
  <2> DEFINE k == CHOOSE x \in Absent : TRUE
  <2>1. k \in Key /\ keyState[k] = "absent"
    BY <1>3, NewKey DEF CreateKey, Absent
  <2>2. /\ UNCHANGED <<alias, window>> /\ step[i] = "create"
        /\ keyState' = [keyState EXCEPT ![k] = "enabled"] /\ fresh'[i] = k
    BY <1>3 DEF CreateKey
  <2> HIDE DEF k
  <2>3. k \notin window
    BY <2>1 DEF KmsInv
  <2>4. Clean' <=> Clean
    BY <2>2 DEF Clean
  <2>5. UnderWay
    BY <2>2 DEF UnderWay
  <2>6. \A x \in window : keyState'[x] = keyState[x]
    BY <2>2, <2>3
  <2>7. alias["previous"] \in window /\ alias'["previous"] = alias["previous"]
    BY <2>2 DEF KmsInv, Alias
  <2>8. \A j \in Invocation : fresh'[j] \notin window'
    BY <2>2, <2>3 DEF OneAtATime
  <2>9. WindowStays
    BY <2>2, <2>5 DEF WindowStays, Committed
  <2> QED
    BY <2>2, <2>4, <2>6, <2>7, <2>8, <2>9 DEF KmsInv, Slide
<1>4. CASE RetireKey(i)
  <2>1. Clean
    BY <1>4 DEF RetireKey, ExecutionInv
  <2>2. /\ UNCHANGED <<alias, window, fresh>>
        /\ step[i] \in {"disable", "schedule"}
        /\ \A k \in Key : keyState'[k] \in {keyState[k], "disabled", "pending"}
    BY <1>4 DEF RetireKey
  <2>3. Clean'
    BY <2>1, <2>2 DEF Clean
  <2>4. UnderWay
    BY <2>2 DEF UnderWay
  <2>5. \A j \in Invocation : fresh'[j] \notin window'
    BY <2>2 DEF OneAtATime, KmsInv, Created
  <2>6. \A k \in window' : keyState'[k] # "absent"
    BY <2>2 DEF KmsInv
  <2>7. WindowStays
    BY <2>2, <2>4 DEF WindowStays, Committed
  <2> QED
    BY <2>2, <2>3, <2>5, <2>6, <2>7 DEF KmsInv, Slide
<1>5. CASE RotateAliases(i)
  <2>1. step[i] \in {"updatePrevious", "updateCurrent", "updateNext"} /\ step[i] \in Created
    BY <1>5 DEF RotateAliases, Created, RotationStart
  <2>2. Committed
    BY <2>1 DEF Committed, UnderWay
  <2>3. /\ UNCHANGED <<keyState, fresh>>
        /\ alias \in [Alias -> Key]
        /\ fresh[i] \notin window /\ fresh[i] \in Key /\ keyState[fresh[i]] = "enabled"
        /\ window \subseteq Key
    BY <1>5, <2>1 DEF RotateAliases, KmsInv, ExecutionInv
  <2>4. CASE step[i] = "updatePrevious"
    <3>1. /\ alias' = [alias EXCEPT !["previous"] = alias["current"]]
          /\ window' = window \cup {alias["current"]}
      BY <1>5, <2>4 DEF RotateAliases, UpdateAlias, ExecutionInv, SeenBy, Alias
    <3>2. keyState[alias["current"]] = "enabled" /\ alias["current"] \in window
      BY DEF KmsInv, WindowInv, SigningKeysEnabled, Alias
    <3>3. window' = window
      BY <3>1, <3>2
    <3>4. \A a \in Alias : alias'[a] \in window'
      BY <3>1, <3>3 DEF KmsInv, Alias
    <3>5. \A j \in Invocation : fresh'[j] \notin window'
      BY <2>3, <3>3 DEF OneAtATime
    <3>6. keyState'[alias'["previous"]] = "enabled"
      BY <2>3, <3>1, <3>2 DEF Alias
    <3> QED
      BY <2>2, <2>3, <2>4, <3>1, <3>3, <3>4, <3>5, <3>6 DEF KmsInv, Slide, PreviousMoves, ExecutionInv
  <2>5. CASE step[i] = "updateCurrent"
    <3>1. /\ alias' = [alias EXCEPT !["current"] = alias["next"]]
          /\ window' = window \cup {alias["next"]}
          /\ alias["previous"] = alias["current"]
      BY <1>5, <2>5 DEF RotateAliases, UpdateAlias, ExecutionInv, Alias
    <3>2. alias["next"] \in window /\ keyState[alias["previous"]] = "enabled"
      BY <3>1 DEF KmsInv, Clean, Alias
    <3>3. window' = window
      BY <3>1, <3>2
    <3>4. \A a \in Alias : alias'[a] \in window'
      BY <3>1, <3>3 DEF KmsInv, Alias
    <3>5. \A j \in Invocation : fresh'[j] \notin window'
      BY <2>3, <3>3 DEF OneAtATime
    <3>6. keyState'[alias'["previous"]] = "enabled"
      BY <2>3, <3>1, <3>2 DEF Alias
    <3> QED
      BY <2>2, <2>3, <3>1, <3>3, <3>4, <3>5, <3>6 DEF KmsInv, Slide, CurrentMoves
  <2>6. CASE step[i] = "updateNext"
    <3>1. /\ alias' = [alias EXCEPT !["next"] = fresh[i]]
          /\ window' = window \cup {fresh[i]}
          /\ alias["current"] = alias["next"]
          /\ step'[i] = "returned"
      BY <1>5, <2>6 DEF RotateAliases, UpdateAlias, ExecutionInv
    <3>2. keyState[alias["previous"]] = "enabled"
      BY <3>1 DEF KmsInv, Clean, Alias
    <3>3. \A a \in Alias : alias'[a] \in window'
      BY <2>3, <3>1 DEF KmsInv, Alias
    <3>4. \A j \in Invocation : step'[j] = "returned"
      BY <3>1 DEF OneAtATime
    <3>5. \A k \in window' : keyState'[k] # "absent"
      BY <2>3, <3>1 DEF KmsInv
    <3>6. keyState'[alias'["previous"]] = "enabled"
      BY <2>3, <3>1, <3>2 DEF Alias
    <3>7. Clean'
      BY <2>3, <3>1 DEF Clean, Alias, KmsInv, WindowInv
    <3>8. ~Committed'
      BY <3>4, <3>6, <3>7 DEF Committed, Interrupted, UnderWay
    <3>9. NextMoves
      BY <2>2, <2>3, <3>1, <3>8 DEF NextMoves
    <3> QED
      BY <3>3, <3>4, <3>5, <3>6, <3>9 DEF KmsInv, Slide
  <2> QED
    BY <2>1, <2>4, <2>5, <2>6
<1>6. CASE Return(i) \/ Crash(i)
  <2>1. UNCHANGED <<alias, keyState, window>> /\ step'[i] = "idle"
    BY <1>6 DEF Return, Crash, Forget
  <2>2. \A j \in Invocation : step'[j] = "idle"
    BY <2>1 DEF OneAtATime
  <2>3. (Clean' <=> Clean) /\ (Interrupted' <=> Interrupted)
    BY <2>1 DEF Clean, Interrupted
  <2>4. Committed' => Committed
    BY <2>2, <2>3 DEF Committed, UnderWay
  <2>5. \A j \in Invocation : step'[j] \notin Created
    BY <2>2 DEF Created, RotationStart
  <2> QED
    BY <2>1, <2>3, <2>4, <2>5 DEF KmsInv, Slide, WindowStays
<1> QED
  BY <1>1, <1>2, <1>3, <1>4, <1>5, <1>6 DEF Advance
------------------------------------------------------------------------------
(* The lists on their way.                                                  *)

Previous == alias["previous"]
Current == alias["current"]
Upcoming == alias["next"]

\* A list that the guard may have: it knows the keys that sign and signed, and
\* the one that is about to.
Covers(L) == {Previous, Current} \subseteq ToSet(L) /\ (Committed => Upcoming \in ToSet(L))

\* A key that only a list of this window can hold together with older ones.
Recent(k) == k = Upcoming \/ (k = Current /\ ~Committed)

\* A list that was read in one piece: whoever knows a key of the window knows
\* the older ones.
InOrder(L) ==
  /\ ToSet(L) \subseteq window
  /\ Upcoming \in ToSet(L) => {Previous, Current} \subseteq ToSet(L)
  /\ Current \in ToSet(L) => Previous \in ToSet(L)

\* What an attester holds, has attested and has asked the guard to fetch.
AttesterInv(a) ==
  /\ at[a] # "readKeys" => apiKeys[a] \in Lists
  /\ at[a] # "readKeys" /\ a \notin Unreliable => Covers(apiKeys[a]) /\ ToSet(apiKeys[a]) \subseteq window
  /\ at[a] # "readKeys" /\ a \in Unreliable => \E k \in ToSet(apiKeys[a]) : Recent(k)
  /\ kmsRead[a]["next"] # NoKey => Recent(kmsRead[a]["next"])
  /\ attestations[a] # NoKeys => attestations[a] \in Lists
  /\ attestations[a] # NoKeys /\ a \notin Unreliable => InOrder(attestations[a])
  /\ fetches[a] # NoKeys /\ fetches[a].answer # NoKeys =>
       fetches[a].answer \in Lists /\ Covers(fetches[a].answer)

ListInv ==
  /\ guardKeys \in Lists /\ Covers(guardKeys)
  /\ publicKeys \in Lists /\ Covers(publicKeys)
  /\ \A a \in AttesterId : AttesterInv(a)

\* The variables are functions of the right domains.
ShapeInv ==
  /\ quorum = Quorum
  /\ DOMAIN at = AttesterId
  /\ DOMAIN apiKeys = AttesterId
  /\ DOMAIN attestations = AttesterId
  /\ DOMAIN fetches = AttesterId
  /\ \A f \in AttesterId : fetches[f] # NoKeys => DOMAIN fetches[f] = {"from", "answer"}
  /\ kmsRead \in [AttesterId -> [Alias -> Key \cup {NoKey}]]

PipeInv == KmsInv /\ ShapeInv /\ ListInv

\* A step that leaves the window, or slides it, takes nothing from a list.
LEMMA SlideKeeps ==
  ASSUME KmsInv, KmsInv', Slide
  PROVE  /\ \A L : Covers(L) => Covers(L)'
         /\ \A k : Recent(k) => Recent(k)'
         /\ \A L : InOrder(L) => InOrder(L)'
         /\ window \subseteq window'
<1> USE DEF Covers, Recent, InOrder, Previous, Current, Upcoming
<1>0. DOMAIN alias = Alias /\ Alias = {"previous", "current", "next"}
  BY DEF KmsInv, Inv, TypeOK, Alias
<1>1. CASE WindowStays
  BY <1>1 DEF WindowStays
<1>2. CASE PreviousMoves
  BY <1>0, <1>2 DEF PreviousMoves
<1>3. CASE CurrentMoves
  BY <1>0, <1>3 DEF CurrentMoves
<1>4. CASE NextMoves
  BY <1>0, <1>4 DEF NextMoves
<1> QED
  BY <1>1, <1>2, <1>3, <1>4 DEF Slide

\* A step outside KMS and the Lambda takes nothing from a list either.
LEMMA VarsKeep ==
  ASSUME UNCHANGED vars
  PROVE  /\ \A L : Covers(L) <=> Covers(L)'
         /\ \A k : Recent(k) <=> Recent(k)'
         /\ \A L : InOrder(L) <=> InOrder(L)'
         /\ window \subseteq window'
<1>1. Committed' <=> Committed
  BY DEF vars, Committed, Interrupted, Clean, UnderWay
<1> QED
  BY <1>1 DEF vars, Covers, Recent, InOrder, Previous, Current, Upcoming

\* What getCurrentPublicKeys reads in one piece.
LEMMA WindowList ==
  ASSUME KmsInv
  PROVE  /\ Window \in Lists
         /\ ToSet(Window) = {Previous, Current, Upcoming}
         /\ ToSet(Window) \subseteq window
<1>1. \A a \in Alias : alias[a] \in Key /\ alias[a] \in window
  BY DEF KmsInv, Inv, TypeOK
<1>2. Previous \in Key /\ Current \in Key /\ Upcoming \in Key
      /\ Previous \in window /\ Current \in window /\ Upcoming \in window
  BY <1>1 DEF Alias, Previous, Current, Upcoming
<1>3. Window = <<Previous, Current, Upcoming>>
  BY DEF Window, Previous, Current, Upcoming
<1> HIDE DEF Previous, Current, Upcoming
<1> QED
  BY <1>2, <1>3 DEF Lists, ToSet

\* The start of a rotation finds its window in the guard; the steps after it
\* keep every list what it is.
LEMMA RotateKeeps ==
  ASSUME PipeInv, KmsInv', NEW i \in Invocation, Rotate(i), Slide \/ Invoke(i)
  PROVE  ListInv'
<1>1. UNCHANGED <<attestations, publicKeys, guardKeys, fetches, at, apiKeys, kmsRead>>
  BY DEF Rotate, contractVars, guardVars, runVars
<1>2. CASE Slide
  <2>1. /\ \A L : Covers(L) => Covers(L)'
        /\ \A k : Recent(k) => Recent(k)'
        /\ \A L : InOrder(L) => InOrder(L)'
        /\ window \subseteq window'
    BY <1>2, SlideKeeps DEF PipeInv
  <2>2. guardKeys' \in Lists /\ Covers(guardKeys)' /\ publicKeys' \in Lists /\ Covers(publicKeys)'
    BY <1>1, <2>1 DEF PipeInv, ListInv, Covers
  <2>3. ASSUME NEW a \in AttesterId PROVE AttesterInv(a)'
    <3>1. AttesterInv(a)
      BY DEF PipeInv, ListInv
    <3> QED
      BY <1>1, <2>1, <3>1 DEF AttesterInv, Covers, Recent, InOrder
  <2> QED
    BY <2>2, <2>3 DEF ListInv
<1>3. CASE Invoke(i) /\ Interrupted
  <2>1. UNCHANGED <<alias, window>>
    BY <1>3 DEF Invoke, kms, history
  <2>2. Slide
    BY <1>3, <2>1 DEF Slide, WindowStays, Committed
  <2> QED
    BY <2>2, <1>2
<1>4. CASE Invoke(i) /\ Settled
  <2>1. UNCHANGED <<alias, window>>
    BY <1>4 DEF Invoke, kms, history
  <2>2. /\ ToSet(guardKeys) = {Previous, Current, Upcoming}
        /\ ToSet(publicKeys) = {Previous, Current, Upcoming}
    BY <1>4, MatchMeansSame, WindowList DEF Settled, CaughtUp, PipeInv, ListInv
  <2>3. /\ guardKeys' \in Lists /\ publicKeys' \in Lists
        /\ Covers(guardKeys)' /\ Covers(publicKeys)'
    BY <1>1, <2>1, <2>2 DEF PipeInv, ListInv, Covers, Previous, Current, Upcoming
  <2>4. ASSUME NEW a \in AttesterId PROVE AttesterInv(a)'
    <3>1. AttesterInv(a)
      BY DEF PipeInv, ListInv
    <3>2. at[a] = "readKeys" /\ kmsRead[a]["next"] = NoKey /\ fetches[a] = NoKeys
      BY <1>4 DEF Settled, NothingRead, Alias
    <3> QED
      BY <1>1, <2>1, <3>1, <3>2 DEF AttesterInv, InOrder, Previous, Current, Upcoming
  <2> QED
    BY <2>3, <2>4 DEF ListInv
<1>5. Invoke(i) => Interrupted \/ Settled
  <2>1. CASE (Interrupted \/ Settled) /\ Invoke(i)
    BY <2>1
  <2>2. CASE Advance(i) \/ Crash(i)
    <3>1. step[i] # "idle"
      BY <2>2 DEF Advance, Crash, ReadCurrentState, CreateKey, RetireKey, RotateAliases, Return
    <3> QED
      BY <3>1 DEF Invoke
  <2> QED
    BY <2>1, <2>2 DEF Rotate
<1> QED
  BY <1>2, <1>3, <1>4, <1>5

\* The attesters that a step of one of them does not concern.
LEMMA OthersStay ==
  ASSUME NEW b \in AttesterId, AttesterInv(b), UNCHANGED vars,
         at'[b] = at[b], apiKeys'[b] = apiKeys[b], kmsRead'[b] = kmsRead[b],
         attestations'[b] \in {attestations[b], NoKeys}, fetches'[b] = fetches[b]
  PROVE  AttesterInv(b)'
<1>1. /\ \A L : Covers(L) <=> Covers(L)'
      /\ \A k : Recent(k) <=> Recent(k)'
      /\ \A L : InOrder(L) <=> InOrder(L)'
      /\ window \subseteq window'
  BY VarsKeep
<1> QED
  BY <1>1 DEF AttesterInv, Covers, Recent, InOrder

\* Fewer attesters than the quorum are unreliable.
FewUnreliable == Cardinality(Unreliable) < Quorum

\* A quorum holds a reliable attester.
LEMMA QuorumIsReliable ==
  ASSUME FewUnreliable, NEW M, M \subseteq AttesterId, Cardinality(M) >= Quorum
  PROVE  \E b \in M : b \notin Unreliable
<1> SUFFICES ASSUME M \subseteq Unreliable PROVE FALSE
  OBVIOUS
<1>1. IsFiniteSet(Unreliable)
  BY AttestersAssumption, FS_Subset
<1>2. Cardinality(M) <= Cardinality(Unreliable) /\ IsFiniteSet(M)
  BY <1>1, FS_Subset
<1>3. Cardinality(M) \in Nat /\ Cardinality(Unreliable) \in Nat
  BY <1>1, <1>2, FS_CardinalityType
<1> QED
  BY <1>2, <1>3, AttestersAssumption DEF FewUnreliable

\* A step of one attester that leaves the contract and the guard alone.
LEMMA OneAttester ==
  ASSUME ListInv, NEW a \in AttesterId, UNCHANGED <<vars, contractVars, guardKeys>>,
         \A b \in AttesterId \ {a} :
           /\ at'[b] = at[b] /\ apiKeys'[b] = apiKeys[b]
           /\ kmsRead'[b] = kmsRead[b] /\ fetches'[b] = fetches[b],
         AttesterInv(a)'
  PROVE  ListInv'
<1>1. ASSUME NEW b \in AttesterId \ {a} PROVE AttesterInv(b)'
  BY <1>1, OthersStay DEF ListInv, contractVars
<1>2. \A L : Covers(L) <=> Covers(L)'
  BY VarsKeep
<1> QED
  BY <1>1, <1>2 DEF ListInv, contractVars, Covers

\* A run that ends, or that has not read the keys yet, holds no list.
LEMMA RunEnds ==
  ASSUME PipeInv, NEW a \in AttesterId, Run!End(a), UNCHANGED <<vars, contractVars, guardVars>>,
         kmsRead' \in {kmsRead, [kmsRead EXCEPT ![a] = NothingRead]}
  PROVE  ListInv' /\ ShapeInv'
<1> USE DEF PipeInv, ShapeInv, guardVars, contractVars
<1>1. /\ at' = [at EXCEPT ![a] = "readKeys"]
      /\ apiKeys' = [apiKeys EXCEPT ![a] = NoKeys]
  BY DEF Run!End, Run!Goto
<1>2. ShapeInv'
  BY <1>1 DEF NothingRead
<1>3. kmsRead'[a]["next"] \in {kmsRead[a]["next"], NoKey}
  BY DEF NothingRead, Alias
<1>4. AttesterInv(a)
  BY DEF ListInv
<1>5. /\ \A L : Covers(L) <=> Covers(L)'
      /\ \A k : Recent(k) <=> Recent(k)'
      /\ \A L : InOrder(L) <=> InOrder(L)'
  BY VarsKeep
<1>6. at'[a] = "readKeys"
  BY <1>1
<1>7. AttesterInv(a)'
  BY <1>3, <1>4, <1>5, <1>6 DEF AttesterInv, Covers, Recent, InOrder
<1>8. \A b \in AttesterId \ {a} :
           /\ at'[b] = at[b] /\ apiKeys'[b] = apiKeys[b]
           /\ kmsRead'[b] = kmsRead[b] /\ fetches'[b] = fetches[b]
  BY <1>1
<1> QED
  BY <1>2, <1>7, <1>8, OneAttester

\* A run that goes on with the list it holds.
LEMMA RunGoesOn ==
  ASSUME PipeInv, NEW a \in AttesterId, at[a] # "readKeys", UNCHANGED <<vars, contractVars, guardKeys, apiKeys, kmsRead>>,
         NEW s, at' = [at EXCEPT ![a] = s],
         \/ UNCHANGED fetches
         \/ fetches' = [fetches EXCEPT ![a] = [from |-> source, answer |-> NoKeys]]
  PROVE  ListInv' /\ ShapeInv'
<1> USE DEF PipeInv, ShapeInv, contractVars
<1>1. ShapeInv'
  OBVIOUS
<1>2. AttesterInv(a)
  BY DEF ListInv
<1>3. /\ \A L : Covers(L) <=> Covers(L)'
      /\ \A k : Recent(k) <=> Recent(k)'
      /\ \A L : InOrder(L) <=> InOrder(L)'
      /\ window' = window
  BY VarsKeep DEF vars
<1>4. fetches'[a] = fetches[a] \/ fetches'[a].answer = NoKeys
  OBVIOUS
<1>5. AttesterInv(a)'
  BY <1>2, <1>3, <1>4 DEF AttesterInv, Covers, Recent, InOrder
<1>6. \A b \in AttesterId \ {a} :
           /\ at'[b] = at[b] /\ apiKeys'[b] = apiKeys[b]
           /\ kmsRead'[b] = kmsRead[b] /\ fetches'[b] = fetches[b]
  OBVIOUS
<1> QED
  BY <1>1, <1>5, <1>6, OneAttester

\* The reads of an unreliable attester: "next" is the freshest of them.
LEMMA ReadOneKeyKeeps ==
  ASSUME PipeInv, NEW a \in AttesterId, ReadOneKey(a)
  PROVE  ListInv' /\ ShapeInv'
<1> USE DEF PipeInv, ShapeInv
<1>1. PICK b \in Alias : kmsRead' = [kmsRead EXCEPT ![a][b] = alias[b]]
  BY DEF ReadOneKey
<1>2. at[a] = "readKeys" /\ UNCHANGED <<vars, contractVars, guardVars, runVars>>
  BY DEF ReadOneKey
<1>3. alias[b] \in Key
  BY DEF KmsInv, Inv, TypeOK
<1>4. ShapeInv'
  BY <1>1, <1>2, <1>3 DEF contractVars, guardVars, runVars
<1>5. kmsRead'[a]["next"] \in {kmsRead[a]["next"], Upcoming}
  BY <1>1 DEF Alias, Upcoming
<1>6. AttesterInv(a)
  BY DEF ListInv
<1>7. /\ \A L : Covers(L) <=> Covers(L)'
      /\ \A k : Recent(k) <=> Recent(k)'
      /\ \A L : InOrder(L) <=> InOrder(L)'
  BY <1>2, VarsKeep
<1>8. AttesterInv(a)'
  BY <1>2, <1>5, <1>6, <1>7 DEF AttesterInv, Covers, Recent, InOrder, contractVars, guardVars, runVars
<1>9. \A c \in AttesterId \ {a} :
           /\ at'[c] = at[c] /\ apiKeys'[c] = apiKeys[c]
           /\ kmsRead'[c] = kmsRead[c] /\ fetches'[c] = fetches[c]
  BY <1>1, <1>2 DEF guardVars, runVars
<1> QED
  BY <1>2, <1>4, <1>8, <1>9, OneAttester DEF guardVars

\* The list that a run goes on with.
LEMMA ReadKeysKeeps ==
  ASSUME PipeInv, NEW a \in AttesterId, ReadKeys(a)
  PROVE  ListInv' /\ ShapeInv'
<1> USE DEF PipeInv, ShapeInv
<1>1. /\ kmsRead' = [kmsRead EXCEPT ![a] = NothingRead]
      /\ UNCHANGED <<vars, contractVars, guardVars>>
      /\ at[a] = "readKeys"
  BY DEF ReadKeys, Run!KeysRead
<1>2. PICK keys \in Lists :
        /\ at' = [at EXCEPT ![a] = "readContract"]
        /\ apiKeys' = [apiKeys EXCEPT ![a] = Run!SortPublicKeys(keys)]
        /\ a \in Unreliable => \E k \in ToSet(keys) : Recent(k)
        /\ a \notin Unreliable => Covers(keys) /\ ToSet(keys) \subseteq window
  <2>1. CASE a \in Unreliable
    <3> DEFINE keys == <<kmsRead[a]["previous"], kmsRead[a]["current"], kmsRead[a]["next"]>>
    <3>1. kmsRead[a]["previous"] \in Key /\ kmsRead[a]["current"] \in Key /\ kmsRead[a]["next"] \in Key
      BY <2>1 DEF ReadKeys, Alias
    <3>2. keys \in Lists /\ kmsRead[a]["next"] \in ToSet(keys)
      BY <3>1 DEF Lists, ToSet
    <3>3. Recent(kmsRead[a]["next"])
      BY <3>1, NoKeyAssumption DEF ListInv, AttesterInv
    <3>4. Run!KeysRead(a, keys)
      BY <2>1 DEF ReadKeys
    <3> HIDE DEF keys
    <3> QED
      BY <2>1, <3>2, <3>3, <3>4 DEF Run!KeysRead, Run!Goto
  <2>2. CASE a \notin Unreliable
    <3>1. Run!KeysRead(a, Window)
      BY <2>2 DEF ReadKeys
    <3>2. Window \in Lists /\ Covers(Window) /\ ToSet(Window) \subseteq window
      BY WindowList DEF Covers
    <3> QED
      BY <2>2, <3>1, <3>2 DEF Run!KeysRead, Run!Goto
  <2> QED
    BY <2>1, <2>2
<1>3. ShapeInv'
  BY <1>1, <1>2 DEF contractVars, guardVars, NothingRead
<1>4. /\ apiKeys'[a] \in Lists /\ ToSet(apiKeys'[a]) = ToSet(keys)
      /\ kmsRead'[a]["next"] = NoKey
  BY <1>1, <1>2, SortKeeps DEF NothingRead, Alias
<1>5. AttesterInv(a)
  BY DEF ListInv
<1>6. /\ \A L : Covers(L) <=> Covers(L)'
      /\ \A k : Recent(k) <=> Recent(k)'
      /\ \A L : InOrder(L) <=> InOrder(L)'
      /\ window' = window
  BY <1>1, VarsKeep DEF vars
<1>7. UNCHANGED <<attestations, fetches>>
  BY <1>1 DEF contractVars, guardVars
<1>8. a \notin Unreliable => Covers(apiKeys'[a]) /\ ToSet(apiKeys'[a]) \subseteq window
  BY <1>2, <1>4 DEF Covers
<1>9. AttesterInv(a)'
  BY <1>2, <1>4, <1>5, <1>6, <1>7, <1>8 DEF AttesterInv, Covers, Recent, InOrder
<1>10. \A c \in AttesterId \ {a} :
           /\ at'[c] = at[c] /\ apiKeys'[c] = apiKeys[c]
           /\ kmsRead'[c] = kmsRead[c] /\ fetches'[c] = fetches[c]
  BY <1>1, <1>2 DEF guardVars
<1> QED
  BY <1>1, <1>3, <1>9, <1>10, OneAttester DEF guardVars

\* A list that reaches the quorum has a reliable attester behind it.
LEMMA QuorumCovers ==
  ASSUME FewUnreliable, PipeInv, NEW a \in AttesterId, at[a] # "readKeys",
         Att!ReachesQuorum(Att!WithAttestation(a, apiKeys[a]), apiKeys[a])
  PROVE  Covers(apiKeys[a])
<1> USE DEF PipeInv, ShapeInv
<1> DEFINE att == Att!WithAttestation(a, apiKeys[a])
           M == Att!Matching(att, apiKeys[a])
<1>1. AttesterInv(a)
  BY DEF ListInv
<1>2. CASE a \notin Unreliable
  BY <1>1, <1>2 DEF AttesterInv
<1>3. CASE a \in Unreliable
  <2>1. M \subseteq AttesterId /\ Cardinality(M) >= Quorum
    <3>1. M \subseteq AttesterId
      BY DEF Att!Matching
    <3>2. Att!Cardinality(M) >= quorum
      BY Zenon DEF Att!ReachesQuorum
    <3>3. Cardinality(M) = Att!Cardinality(M)
      BY DEF Cardinality, Att!Cardinality
    <3> QED
      BY <3>1, <3>2, <3>3
  <2>2. PICK b \in M : b \notin Unreliable
    <3> HIDE DEF M
    <3> QED
      BY <2>1, QuorumIsReliable
  <2>3. b # a /\ b \in AttesterId
    BY <1>3, <2>2 DEF Att!Matching
  <2>4. /\ attestations[b] # NoKeys
        /\ Att!ComputePublicKeysHash(attestations[b]) = Att!ComputePublicKeysHash(apiKeys[a])
    BY <2>2, <2>3 DEF Att!Matching, Att!WithAttestation
  <2>5. attestations[b] \in Lists /\ InOrder(attestations[b])
    BY <2>2, <2>3, <2>4 DEF ListInv, AttesterInv
  <2>6. apiKeys[a] \in Lists /\ \E k \in ToSet(apiKeys[a]) : Recent(k)
    BY <1>1, <1>3 DEF AttesterInv
  <2>7. attestations[b] = apiKeys[a]
    BY <2>4, <2>5, <2>6, HashIsFaithful
  <2> QED
    BY <2>5, <2>6, <2>7 DEF InOrder, Recent, Covers
<1> QED
  BY <1>2, <1>3

\* An attestation is recorded, or its list installed.
LEMMA AttestKeeps ==
  ASSUME FewUnreliable, PipeInv, NEW a \in AttesterId, Attest(a)
  PROVE  ListInv' /\ ShapeInv'
<1> USE DEF PipeInv, ShapeInv
<1> DEFINE att == Att!WithAttestation(a, apiKeys[a])
<1>1. /\ at[a] = "attest" /\ at' = [at EXCEPT ![a] = "readGuard"]
      /\ UNCHANGED <<vars, guardKeys, fetches, apiKeys, kmsRead, quorum>>
  BY DEF Attest, Run!Attested, Run!Goto, guardVars, Att!AttestPublicKeys
<1>2. \/ Att!ReachesQuorum(att, apiKeys[a]) /\ publicKeys' = apiKeys[a] /\ attestations' = Att!NoAttestations
      \/ attestations' = att /\ UNCHANGED publicKeys
  BY DEF Attest, Att!AttestPublicKeys, Att!InstallKeys
<1>3. DOMAIN attestations' = AttesterId
  BY <1>2 DEF Att!NoAttestations, Att!WithAttestation
<1>4. ShapeInv'
  BY <1>1, <1>3
<1>5. /\ \A L : Covers(L) <=> Covers(L)'
      /\ \A k : Recent(k) <=> Recent(k)'
      /\ \A L : InOrder(L) <=> InOrder(L)'
      /\ window' = window
  BY <1>1, VarsKeep DEF vars
<1>6. AttesterInv(a) /\ apiKeys[a] \in Lists
  BY <1>1 DEF ListInv, AttesterInv
<1>7. publicKeys' \in Lists /\ Covers(publicKeys')
  BY <1>1, <1>2, <1>6, QuorumCovers DEF ListInv
<1>8. \A b \in AttesterId : b # a => attestations'[b] \in {attestations[b], NoKeys}
  BY <1>2 DEF Att!NoAttestations, Att!WithAttestation
<1>9. attestations'[a] \in {apiKeys[a], NoKeys}
  BY <1>2 DEF Att!NoAttestations, Att!WithAttestation
<1>10. a \notin Unreliable => InOrder(apiKeys[a])
  BY <1>1, <1>6 DEF AttesterInv, InOrder, Covers
<1>11. AttesterInv(a)'
  BY <1>1, <1>5, <1>6, <1>9, <1>10 DEF AttesterInv, Covers, Recent, InOrder
<1>12. ASSUME NEW b \in AttesterId, b # a PROVE AttesterInv(b)'
  BY <1>1, <1>8, <1>12, OthersStay DEF ListInv
<1>13. guardKeys' \in Lists /\ Covers(guardKeys)'
  BY <1>1, <1>5 DEF ListInv, Covers
<1>14. Covers(publicKeys)'
  BY <1>5, <1>7 DEF Covers
<1> QED
  BY <1>4, <1>7, <1>11, <1>12, <1>13, <1>14 DEF ListInv

\* The receipts of a sync.
LEMMA AnswerKeeps ==
  ASSUME PipeInv, NEW a \in AttesterId, ContractAnswers(a)
  PROVE  ListInv' /\ ShapeInv'
<1> USE DEF PipeInv, ShapeInv
<1>1. /\ UNCHANGED <<vars, contractVars, runVars, kmsRead, guardKeys>>
      /\ fetches[a] # NoKeys
      /\ fetches' = [fetches EXCEPT ![a].answer = publicKeys]
  BY DEF ContractAnswers, Guard!AttestationAnswers
<1>2. DOMAIN fetches[a] = {"from", "answer"}
  BY <1>1
<1>3. DOMAIN fetches'[a] = {"from", "answer"} /\ fetches'[a].answer = publicKeys
  BY <1>1, <1>2
<1>4. \A b \in AttesterId \ {a} : fetches'[b] = fetches[b]
  BY <1>1
<1>5. ShapeInv'
  BY <1>1, <1>3, <1>4 DEF contractVars, runVars
<1>6. publicKeys \in Lists /\ Covers(publicKeys) /\ AttesterInv(a)
  BY DEF ListInv
<1>7. /\ \A L : Covers(L) <=> Covers(L)'
      /\ \A k : Recent(k) <=> Recent(k)'
      /\ \A L : InOrder(L) <=> InOrder(L)'
  BY <1>1, VarsKeep
<1>8. AttesterInv(a)'
  BY <1>1, <1>3, <1>6, <1>7 DEF AttesterInv, Covers, Recent, InOrder, contractVars, runVars
<1> QED
  BY <1>1, <1>4, <1>5, <1>8, OneAttester DEF runVars

\* The guard installs an answer, however old.
LEMMA CallbackKeeps ==
  ASSUME PipeInv, NEW a \in AttesterId, GuardCallback(a)
  PROVE  ListInv' /\ ShapeInv'
<1> USE DEF PipeInv, ShapeInv
<1>1. /\ UNCHANGED <<vars, contractVars, runVars, kmsRead>>
      /\ fetches[a] # NoKeys /\ fetches[a].answer # NoKeys
      /\ guardKeys' \in {guardKeys, fetches[a].answer}
      /\ fetches' = [fetches EXCEPT ![a] = NoKeys]
  BY DEF GuardCallback, Guard!OnSetPublicKeysCallback
<1>2. ShapeInv'
  BY <1>1 DEF contractVars, runVars
<1>3. AttesterInv(a)
  BY DEF ListInv
<1>4. guardKeys' \in Lists /\ Covers(guardKeys')
  BY <1>1, <1>3 DEF ListInv, AttesterInv
<1>5. /\ \A L : Covers(L) <=> Covers(L)'
      /\ \A k : Recent(k) <=> Recent(k)'
      /\ \A L : InOrder(L) <=> InOrder(L)'
  BY <1>1, VarsKeep
<1>6. AttesterInv(a)'
  BY <1>1, <1>3, <1>5 DEF AttesterInv, Covers, Recent, InOrder, contractVars, runVars
<1>7. ASSUME NEW b \in AttesterId \ {a} PROVE AttesterInv(b)'
  <2>1. fetches'[b] = fetches[b]
    BY <1>1
  <2> QED
    BY <1>1, <2>1, OthersStay DEF ListInv, contractVars, runVars
<1>8. /\ publicKeys' \in Lists /\ Covers(publicKeys)' /\ Covers(guardKeys)'
  BY <1>1, <1>4, <1>5 DEF ListInv, contractVars, Covers
<1> QED
  BY <1>2, <1>4, <1>6, <1>7, <1>8 DEF ListInv

\* The attested and synced bootstrap.
LEMMA PipeInit == PipelineInit => PipeInv
<1> SUFFICES ASSUME PipelineInit PROVE PipeInv
  OBVIOUS
<1>1. KmsInv
  BY KmsInit DEF PipelineInit
<1>2. ShapeInv
  BY DEF PipelineInit, ShapeInv, Run!Init, Att!NoAttestations, NothingRead
<1>3. publicKeys \in Lists /\ ToSet(publicKeys) = {Previous, Current, Upcoming} /\ guardKeys = publicKeys
  BY <1>1, WindowList, SortKeeps DEF PipelineInit
<1>4. Covers(publicKeys) /\ Covers(guardKeys)
  BY <1>3 DEF Covers
<1>5. ASSUME NEW a \in AttesterId PROVE AttesterInv(a)
  BY DEF PipelineInit, Run!Init, Att!NoAttestations, NothingRead, AttesterInv, Alias
<1> QED
  BY <1>1, <1>2, <1>3, <1>4, <1>5 DEF PipeInv, ListInv

\* Every step of the rotation, the attesters and the receipts.
LEMMA PipeNext ==
  ASSUME OneAtATime, FewUnreliable, PipeInv, [PipelineNext]_pipelineVars
  PROVE  PipeInv'
<1>1. CASE UNCHANGED pipelineVars
  <2>1. UNCHANGED vars
    BY <1>1 DEF pipelineVars
  <2>2. KmsInv'
    BY <2>1 DEF PipeInv, KmsInv, Inv, vars, TypeOK, WindowInv, SigningKeysEnabled, ExecutionInv, Clean
  <2>3. ShapeInv'
    BY <1>1 DEF PipeInv, ShapeInv, pipelineVars, contractVars, guardVars, runVars
  <2>4. \A L : Covers(L) <=> Covers(L)'
    BY <2>1, VarsKeep
  <2>5. ASSUME NEW a \in AttesterId PROVE AttesterInv(a)'
    BY <1>1, <2>1, OthersStay DEF PipeInv, ListInv, pipelineVars, contractVars, guardVars, runVars
  <2>6. ListInv'
    BY <1>1, <2>4, <2>5 DEF PipeInv, ListInv, Covers, pipelineVars, contractVars, guardVars
  <2> QED
    BY <2>2, <2>3, <2>6 DEF PipeInv
<1>2. ASSUME NEW i \in Invocation, Rotate(i) PROVE PipeInv'
  <2>1. Invoke(i) \/ Advance(i) \/ Crash(i)
    BY <1>2 DEF Rotate
  <2>2. Inv'
    BY <2>1, NextInv DEF PipeInv, KmsInv, Next
  <2>3. KmsInv' /\ (Slide \/ Invoke(i))
    BY <2>1, <2>2, KmsStep DEF PipeInv
  <2>4. ListInv'
    BY <1>2, <2>3, RotateKeeps
  <2>5. ShapeInv'
    BY <1>2 DEF Rotate, PipeInv, ShapeInv, contractVars, guardVars, runVars
  <2> QED
    BY <2>3, <2>4, <2>5 DEF PipeInv
<1>3. ASSUME NEW a \in AttesterId, AttesterStep(a) \/ SyncReceipt(a) \/ Fail(a) PROVE PipeInv'
  <2>1. UNCHANGED vars
    BY <1>3 DEF AttesterStep, SyncReceipt, Fail, ReadOneKey, ReadKeys, ReadFails, ReadContract, Attest,
                ReadGuard, Sync, SyncDone, ContractAnswers, GuardCallback
  <2>2. KmsInv'
    BY <2>1 DEF PipeInv, KmsInv, Inv, vars, TypeOK, WindowInv, SigningKeysEnabled, ExecutionInv, Clean
  <2>3. CASE ReadOneKey(a)
    BY <2>2, <2>3, ReadOneKeyKeeps DEF PipeInv
  <2>4. CASE ReadKeys(a)
    BY <2>2, <2>4, ReadKeysKeeps DEF PipeInv
  <2>5. CASE ReadFails(a) \/ Fail(a)
    <3>1. Run!End(a) /\ UNCHANGED <<vars, contractVars, guardVars>> /\ kmsRead' = [kmsRead EXCEPT ![a] = NothingRead]
      BY <2>5 DEF ReadFails, Fail, Run!Fails
    <3> QED
      BY <2>2, <3>1, RunEnds DEF PipeInv
  <2>6. CASE ReadContract(a)
    <3>1. /\ at[a] = "readContract" /\ UNCHANGED <<vars, contractVars, guardKeys, fetches, apiKeys, kmsRead>>
          /\ \E s : at' = [at EXCEPT ![a] = s]
      BY <2>6 DEF ReadContract, Run!ContractRead, Run!Goto, guardVars
    <3> QED
      BY <2>2, <3>1, RunGoesOn DEF PipeInv
  <2>7. CASE Attest(a)
    BY <2>2, <2>7, AttestKeeps DEF PipeInv
  <2>8. CASE ReadGuard(a)
    <3>1. /\ at[a] = "readGuard" /\ UNCHANGED <<vars, contractVars, guardVars, kmsRead>>
          /\ \/ Run!End(a)
             \/ at' = [at EXCEPT ![a] = "sync"] /\ UNCHANGED apiKeys
      BY <2>8 DEF ReadGuard, Run!GuardRead, Run!Goto
    <3>2. CASE Run!End(a)
      BY <2>2, <3>1, <3>2, RunEnds DEF PipeInv
    <3>3. CASE at' = [at EXCEPT ![a] = "sync"] /\ UNCHANGED apiKeys
      BY <2>2, <3>1, <3>3, RunGoesOn DEF PipeInv, guardVars
    <3> QED
      BY <3>1, <3>2, <3>3
  <2>9. CASE Sync(a)
    <3>1. /\ at[a] = "sync" /\ at' = [at EXCEPT ![a] = "syncing"]
          /\ UNCHANGED <<vars, contractVars, guardKeys, apiKeys, kmsRead>>
          /\ fetches' = [fetches EXCEPT ![a] = [from |-> source, answer |-> NoKeys]]
      BY <2>9 DEF Sync, Run!Synced, Run!Goto, Guard!SetPublicKeys
    <3> QED
      BY <2>2, <3>1, RunGoesOn DEF PipeInv
  <2>10. CASE SyncDone(a)
    BY <2>2, <2>10, RunEnds DEF SyncDone, Run!SyncEnded, PipeInv
  <2>11. CASE ContractAnswers(a)
    BY <2>2, <2>11, AnswerKeeps DEF PipeInv
  <2>12. CASE GuardCallback(a)
    BY <2>2, <2>12, CallbackKeeps DEF PipeInv
  <2> QED
    BY <1>3, <2>3, <2>4, <2>5, <2>6, <2>7, <2>8, <2>9, <2>10, <2>11, <2>12 DEF AttesterStep, SyncReceipt
<1> QED
  BY <1>1, <1>2, <1>3 DEF PipelineNext

\* A rotation never invalidates in-flight JWTs: whatever the interleaving of its
\* calls with the attesters' reads and receipts, and whatever it is interrupted
\* by, the guard has the key that signs and the one that signed before.
THEOREM InFlightTokensVerify ==
  ASSUME OneAtATime, FewUnreliable
  PROVE  PipelineSpec => []InFlightVerifiable
<1>1. PipeInv /\ [PipelineNext]_pipelineVars => PipeInv'
  BY PipeNext
<1>2. PipeInv => InFlightVerifiable
  BY DEF PipeInv, ListInv, Covers, InFlightVerifiable, Previous, Current
<1> QED
  BY <1>1, <1>2, PipeInit, PTL DEF PipelineSpec

------------------------------------------------------------------------------
(* Keys that were dropped.                                                  *)

\* The lists that may yet reach the guard, and the keys that may yet reach a list.
IsHeld(L) ==
  \/ L = guardKeys \/ L = publicKeys
  \/ \E a \in AttesterId : at[a] # "readKeys" /\ L = apiKeys[a]
  \/ \E a \in AttesterId : fetches[a] # NoKeys /\ fetches[a].answer # NoKeys /\ L = fetches[a].answer

IsRead(k) == \E a \in AttesterId, b \in Alias : k = kmsRead[a][b] /\ k # NoKey

Carried(k) == IsRead(k) \/ \E L : IsHeld(L) /\ k \in ToSet(L)

InWindow(k) == k \in {Previous, Current, Upcoming}

\* At most one key is on its way that is not in the window, and none when the
\* window may begin to slide.
DroppedKeysInv ==
  /\ ShapeInv
  /\ \A L : IsHeld(L) => L \in Lists
  /\ \A k, l : Carried(k) /\ Carried(l) => InWindow(k) \/ InWindow(l) \/ k = l
  /\ Clean /\ Committed => \A k : Carried(k) => InWindow(k)

\* What a step of an attester or of a receipt may add: a key of the window, and
\* a list of keys that were on their way.
OnlyCarries ==
  /\ \A k : IsRead(k)' => IsRead(k) \/ InWindow(k)
  /\ \A L : IsHeld(L)' =>
       \/ IsHeld(L)
       \/ L \in Lists /\ \A k \in ToSet(L) : IsRead(k) \/ InWindow(k)

\* Such a step keeps the invariant.
LEMMA CarryingKeeps ==
  ASSUME DroppedKeysInv, UNCHANGED vars, ShapeInv', OnlyCarries
  PROVE  DroppedKeysInv'
<1>1. \A k : Carried(k)' => Carried(k) \/ InWindow(k)
  BY DEF Carried, OnlyCarries
<1>2. \A k : InWindow(k)' <=> InWindow(k)
  BY DEF vars, InWindow, Previous, Current, Upcoming
<1>3. \A L : IsHeld(L)' => L \in Lists
  BY DEF DroppedKeysInv, OnlyCarries
<1>4. (Clean <=> Clean') /\ (Committed <=> Committed')
  BY DEF vars, Committed, Interrupted, Clean, UnderWay
<1>5. \A k, l : Carried(k)' /\ Carried(l)' => InWindow(k)' \/ InWindow(l)' \/ k = l
  BY <1>1, <1>2 DEF DroppedKeysInv
<1>6. Clean' /\ Committed' => \A k : Carried(k)' => InWindow(k)'
  BY <1>1, <1>2, <1>4 DEF DroppedKeysInv
<1> QED
  BY <1>3, <1>5, <1>6 DEF DroppedKeysInv, Lists

\* A step of a run that reads nothing and takes up no list but the contract's.
LEMMA RunCarries ==
  ASSUME DroppedKeysInv, NEW a \in AttesterId, UNCHANGED <<contractVars, guardKeys>>, NEW s,
         at' = [at EXCEPT ![a] = s],
         \/ s = "readKeys" /\ apiKeys' = [apiKeys EXCEPT ![a] = NoKeys]
         \/ at[a] # "readKeys" /\ UNCHANGED apiKeys,
         kmsRead' \in {kmsRead, [kmsRead EXCEPT ![a] = NothingRead]},
         fetches' \in {fetches, [fetches EXCEPT ![a] = [from |-> source, answer |-> NoKeys]]}
  PROVE  ShapeInv' /\ OnlyCarries
<1> USE DEF DroppedKeysInv, ShapeInv, contractVars
<1>1. ShapeInv'
  BY DEF NothingRead
<1>2. \A k : IsRead(k)' => IsRead(k)
  BY DEF IsRead, NothingRead
<1>3. \A L : IsHeld(L)' => IsHeld(L)
  <2> SUFFICES ASSUME NEW L, IsHeld(L)' PROVE IsHeld(L)
    OBVIOUS
  <2>1. CASE L = guardKeys' \/ L = publicKeys'
    BY <2>1 DEF IsHeld
  <2>2. ASSUME NEW b \in AttesterId, at'[b] # "readKeys", L = apiKeys'[b] PROVE IsHeld(L)
    BY <2>2 DEF IsHeld
  <2>3. ASSUME NEW b \in AttesterId, fetches'[b] # NoKeys, fetches'[b].answer # NoKeys, L = fetches'[b].answer
        PROVE  IsHeld(L)
    BY <2>3 DEF IsHeld
  <2> QED
    BY <2>1, <2>2, <2>3 DEF IsHeld
<1> QED
  BY <1>1, <1>2, <1>3 DEF OnlyCarries

\* One of the three reads.
LEMMA ReadOneCarries ==
  ASSUME DroppedKeysInv, KmsInv, NEW a \in AttesterId, ReadOneKey(a)
  PROVE  ShapeInv' /\ OnlyCarries
<1> USE DEF DroppedKeysInv, ShapeInv
<1>1. PICK b \in Alias : kmsRead' = [kmsRead EXCEPT ![a][b] = alias[b]]
  BY DEF ReadOneKey
<1>2. UNCHANGED <<contractVars, guardVars, runVars>>
  BY DEF ReadOneKey
<1>3. alias[b] \in Key /\ InWindow(alias[b])
  BY DEF KmsInv, Inv, TypeOK, Alias, InWindow, Previous, Current, Upcoming
<1>4. ShapeInv'
  BY <1>1, <1>2, <1>3 DEF contractVars, guardVars, runVars
<1>5. \A c \in AttesterId, d \in Alias : kmsRead'[c][d] \in {kmsRead[c][d], alias[b]}
  BY <1>1
<1>6. \A k : IsRead(k)' => IsRead(k) \/ InWindow(k)
  BY <1>3, <1>5 DEF IsRead
<1>7. \A L : IsHeld(L)' => IsHeld(L)
  BY <1>2 DEF IsHeld, contractVars, guardVars, runVars
<1> QED
  BY <1>4, <1>6, <1>7 DEF OnlyCarries

\* What was read becomes the run's list.
LEMMA ReadKeysCarries ==
  ASSUME DroppedKeysInv, KmsInv, NEW a \in AttesterId, ReadKeys(a)
  PROVE  ShapeInv' /\ OnlyCarries
<1> USE DEF DroppedKeysInv, ShapeInv
<1>1. /\ kmsRead' = [kmsRead EXCEPT ![a] = NothingRead]
      /\ UNCHANGED <<contractVars, guardVars>>
  BY DEF ReadKeys
<1>2. PICK keys \in Lists :
        /\ at' = [at EXCEPT ![a] = "readContract"]
        /\ apiKeys' = [apiKeys EXCEPT ![a] = Run!SortPublicKeys(keys)]
        /\ \A k \in ToSet(keys) : IsRead(k) \/ InWindow(k)
  <2>1. CASE a \in Unreliable
    <3> DEFINE p == kmsRead[a]["previous"]
               c == kmsRead[a]["current"]
               n == kmsRead[a]["next"]
               keys == <<p, c, n>>
    <3>1. /\ p \in Key /\ c \in Key /\ n \in Key
          /\ IsRead(p) /\ IsRead(c) /\ IsRead(n)
      BY <2>1 DEF ReadKeys, Alias, IsRead
    <3>2. Run!KeysRead(a, keys)
      BY <2>1 DEF ReadKeys
    <3> HIDE DEF p, c, n
    <3>3. keys \in Lists /\ ToSet(keys) = {p, c, n}
      BY <3>1 DEF Lists, ToSet
    <3> HIDE DEF keys
    <3> QED
      BY <3>1, <3>2, <3>3 DEF Run!KeysRead, Run!Goto
  <2>2. CASE a \notin Unreliable
    <3>1. Run!KeysRead(a, Window)
      BY <2>2 DEF ReadKeys
    <3>2. Window \in Lists /\ \A k \in ToSet(Window) : InWindow(k)
      BY WindowList DEF InWindow
    <3> QED
      BY <3>1, <3>2 DEF Run!KeysRead, Run!Goto
  <2> QED
    BY <2>1, <2>2
<1>3. ShapeInv'
  BY <1>1, <1>2 DEF contractVars, guardVars, NothingRead
<1>4. \A k : IsRead(k)' => IsRead(k)
  BY <1>1 DEF IsRead, NothingRead
<1>5. Run!SortPublicKeys(keys) \in Lists /\ ToSet(Run!SortPublicKeys(keys)) = ToSet(keys)
  BY SortKeeps
<1>6. ASSUME NEW L, IsHeld(L)' PROVE IsHeld(L) \/ L = Run!SortPublicKeys(keys)
  <2>1. CASE L = guardKeys' \/ L = publicKeys'
    BY <1>1, <2>1 DEF IsHeld, contractVars, guardVars
  <2>2. ASSUME NEW b \in AttesterId, at'[b] # "readKeys", L = apiKeys'[b]
        PROVE  IsHeld(L) \/ L = Run!SortPublicKeys(keys)
    BY <1>2, <2>2 DEF IsHeld
  <2>3. ASSUME NEW b \in AttesterId, fetches'[b] # NoKeys, fetches'[b].answer # NoKeys, L = fetches'[b].answer
        PROVE  IsHeld(L)
    BY <1>1, <2>3 DEF IsHeld, guardVars
  <2> QED
    BY <1>6, <2>1, <2>2, <2>3 DEF IsHeld
<1> QED
  BY <1>2, <1>3, <1>4, <1>5, <1>6 DEF OnlyCarries

\* The contract takes a list from nobody but the run that attests it, ...
LEMMA AttestCarries ==
  ASSUME DroppedKeysInv, NEW a \in AttesterId, Attest(a)
  PROVE  ShapeInv' /\ OnlyCarries
<1> USE DEF DroppedKeysInv, ShapeInv
<1>1. /\ at[a] = "attest" /\ at' = [at EXCEPT ![a] = "readGuard"]
      /\ UNCHANGED <<guardKeys, fetches, apiKeys, kmsRead, quorum>>
  BY DEF Attest, Run!Attested, Run!Goto, guardVars, Att!AttestPublicKeys
<1>2. publicKeys' \in {publicKeys, apiKeys[a]} /\ DOMAIN attestations' = AttesterId
  BY DEF Attest, Att!AttestPublicKeys, Att!InstallKeys, Att!NoAttestations, Att!WithAttestation
<1>3. ShapeInv'
  BY <1>1, <1>2
<1>4. \A k : IsRead(k)' => IsRead(k)
  BY <1>1 DEF IsRead
<1>5. ASSUME NEW b \in AttesterId, at'[b] # "readKeys" PROVE at[b] # "readKeys"
  BY <1>1, <1>5
<1>6. \A L : IsHeld(L)' => IsHeld(L)
  BY <1>1, <1>2, <1>5 DEF IsHeld
<1> QED
  BY <1>3, <1>4, <1>6 DEF OnlyCarries

\* ... the receipt from the contract, and the guard from the receipt.
LEMMA ReceiptsCarry ==
  ASSUME DroppedKeysInv, NEW a \in AttesterId, SyncReceipt(a)
  PROVE  ShapeInv' /\ OnlyCarries
<1> USE DEF DroppedKeysInv, ShapeInv
<1>1. UNCHANGED <<contractVars, runVars, kmsRead>> /\ fetches[a] # NoKeys
  BY DEF SyncReceipt, ContractAnswers, GuardCallback, Guard!AttestationAnswers, Guard!OnSetPublicKeysCallback
<1>2. \A k : IsRead(k)' => IsRead(k)
  BY <1>1 DEF IsRead
<1>3. CASE ContractAnswers(a)
  <2>1. UNCHANGED guardKeys /\ fetches' = [fetches EXCEPT ![a].answer = publicKeys]
    BY <1>3 DEF ContractAnswers, Guard!AttestationAnswers
  <2>2. DOMAIN fetches'[a] = {"from", "answer"} /\ fetches'[a].answer = publicKeys
    BY <1>1, <2>1
  <2>3. \A b \in AttesterId \ {a} : fetches'[b] = fetches[b]
    BY <2>1
  <2>4. ShapeInv'
    BY <1>1, <2>1, <2>2, <2>3 DEF contractVars, runVars
  <2>5. \A L : IsHeld(L)' => IsHeld(L)
    BY <1>1, <2>1, <2>2, <2>3 DEF IsHeld, contractVars, runVars
  <2> QED
    BY <1>2, <2>4, <2>5 DEF OnlyCarries
<1>4. CASE GuardCallback(a)
  <2>1. /\ fetches[a].answer # NoKeys /\ guardKeys' \in {guardKeys, fetches[a].answer}
        /\ fetches' = [fetches EXCEPT ![a] = NoKeys]
    BY <1>4 DEF GuardCallback, Guard!OnSetPublicKeysCallback
  <2>2. ShapeInv'
    BY <1>1, <2>1 DEF contractVars, runVars
  <2>3. ASSUME NEW b \in AttesterId, fetches'[b] # NoKeys PROVE fetches'[b] = fetches[b]
    BY <2>1, <2>3
  <2>4. IsHeld(guardKeys')
    BY <1>1, <2>1 DEF IsHeld
  <2>5. \A L : IsHeld(L)' => IsHeld(L)
    BY <1>1, <2>3, <2>4 DEF IsHeld, contractVars, runVars
  <2> QED
    BY <1>2, <2>2, <2>5 DEF OnlyCarries
<1> QED
  BY <1>3, <1>4 DEF SyncReceipt

\* An attester that fails, or any other step of it.
LEMMA AttesterCarries ==
  ASSUME DroppedKeysInv, KmsInv, NEW a \in AttesterId, AttesterStep(a) \/ SyncReceipt(a) \/ Fail(a)
  PROVE  ShapeInv' /\ OnlyCarries
<1> USE DEF guardVars
<1>1. CASE ReadOneKey(a)
  BY <1>1, ReadOneCarries
<1>2. CASE ReadKeys(a)
  BY <1>2, ReadKeysCarries
<1>3. CASE ReadFails(a) \/ Fail(a) \/ SyncDone(a)
  <2>1. Run!End(a) /\ UNCHANGED <<contractVars, guardVars>> /\ kmsRead' \in {kmsRead, [kmsRead EXCEPT ![a] = NothingRead]}
    BY <1>3 DEF ReadFails, Fail, SyncDone, Run!Fails, Run!SyncEnded
  <2> QED
    BY <2>1, RunCarries DEF Run!End, Run!Goto
<1>4. CASE ReadContract(a)
  <2>1. /\ at[a] = "readContract" /\ UNCHANGED <<contractVars, guardVars, apiKeys, kmsRead>>
        /\ \E s : at' = [at EXCEPT ![a] = s]
    BY <1>4 DEF ReadContract, Run!ContractRead, Run!Goto
  <2> QED
    BY <2>1, RunCarries
<1>5. CASE Attest(a)
  BY <1>5, AttestCarries
<1>6. CASE ReadGuard(a)
  <2>1. /\ at[a] = "readGuard" /\ UNCHANGED <<contractVars, guardVars, kmsRead>>
        /\ \/ Run!End(a)
           \/ at' = [at EXCEPT ![a] = "sync"] /\ UNCHANGED apiKeys
    BY <1>6 DEF ReadGuard, Run!GuardRead, Run!Goto
  <2> QED
    BY <2>1, RunCarries DEF Run!End, Run!Goto
<1>7. CASE Sync(a)
  <2>1. /\ at[a] = "sync" /\ at' = [at EXCEPT ![a] = "syncing"]
        /\ UNCHANGED <<contractVars, guardKeys, apiKeys, kmsRead>>
        /\ fetches' = [fetches EXCEPT ![a] = [from |-> source, answer |-> NoKeys]]
    BY <1>7 DEF Sync, Run!Synced, Run!Goto, Guard!SetPublicKeys
  <2> QED
    BY <2>1, RunCarries
<1>8. CASE SyncReceipt(a)
  BY <1>8, ReceiptsCarry
<1> QED
  BY <1>1, <1>2, <1>3, <1>4, <1>5, <1>6, <1>7, <1>8 DEF AttesterStep

\* The rotation. A key leaves the window while nothing else that is on its way
\* is outside of it, and the next rotation waits until it is gone.
LEMMA RotationDropsOne ==
  ASSUME DroppedKeysInv, KmsInv, KmsInv', NEW i \in Invocation, Rotate(i), Slide \/ Invoke(i)
  PROVE  DroppedKeysInv'
<1>1. /\ ShapeInv'
      /\ \A L : IsHeld(L)' <=> IsHeld(L)
      /\ \A k : IsRead(k)' <=> IsRead(k)
  BY DEF Rotate, DroppedKeysInv, ShapeInv, IsHeld, IsRead, contractVars, guardVars, runVars
<1>2. /\ \A L : IsHeld(L)' => L \in Lists
      /\ \A k : Carried(k)' <=> Carried(k)
  BY <1>1 DEF DroppedKeysInv, Carried
<1>3. Lists' = Lists /\ DOMAIN alias = Alias /\ Alias = {"previous", "current", "next"}
  BY DEF KmsInv, Inv, TypeOK, Alias, Lists
<1>4. SUFFICES /\ \A k, l : Carried(k) /\ Carried(l) => InWindow(k)' \/ InWindow(l)' \/ k = l
               /\ Clean' /\ Committed' => \A k : Carried(k) => InWindow(k)'
  BY <1>1, <1>2, <1>3 DEF DroppedKeysInv
<1> USE DEF InWindow, Previous, Current, Upcoming
<1>5. CASE WindowStays
  BY <1>5 DEF WindowStays, DroppedKeysInv, Clean
<1>6. CASE PreviousMoves
  <2>1. alias'["previous"] = alias["current"] /\ alias'["current"] = alias["current"] /\ alias'["next"] = alias["next"]
    BY <1>3, <1>6 DEF PreviousMoves
  <2>2. \A k : Carried(k) => InWindow(k)
    BY <1>6 DEF PreviousMoves, DroppedKeysInv
  <2> QED
    BY <2>1, <2>2 DEF Clean
<1>7. CASE CurrentMoves
  <2>1. alias'["previous"] = alias["current"] /\ alias'["current"] = alias["next"] /\ alias'["next"] = alias["next"]
    BY <1>3, <1>7 DEF CurrentMoves
  <2>2. \A k : InWindow(k) => InWindow(k)'
    BY <1>7, <2>1 DEF CurrentMoves
  <2> QED
    BY <2>1, <2>2 DEF Clean, DroppedKeysInv
<1>8. CASE NextMoves
  <2>1. /\ alias'["previous"] = alias["previous"] /\ alias'["current"] = alias["next"]
        /\ alias["current"] = alias["next"] /\ ~Committed'
    BY <1>3, <1>8 DEF NextMoves
  <2>2. \A k : InWindow(k) => InWindow(k)'
    BY <2>1
  <2> QED
    BY <2>1, <2>2 DEF DroppedKeysInv
<1>9. CASE Invoke(i)
  <2>1. UNCHANGED <<alias, window>> /\ step[i] = "idle"
    BY <1>9 DEF Invoke, kms, history
  <2>2. Interrupted \/ Settled
    BY <2>1 DEF Rotate, Advance, Crash, ReadCurrentState, CreateKey, RetireKey, RotateAliases, Return
  <2>3. CASE Interrupted
    BY <1>5, <2>1, <2>3 DEF WindowStays, Committed
  <2>4. CASE Settled
    <3>1. /\ ToSet(guardKeys) = {Previous, Current, Upcoming}
          /\ ToSet(publicKeys) = {Previous, Current, Upcoming}
      BY <2>4, MatchMeansSame, WindowList DEF Settled, CaughtUp, DroppedKeysInv, IsHeld
    <3>2. \A k : ~IsRead(k)
      BY <2>4 DEF Settled, NothingRead, IsRead
    <3>3. \A L : IsHeld(L) => L = guardKeys \/ L = publicKeys
      BY <2>4 DEF Settled, IsHeld
    <3>4. \A k : Carried(k) => InWindow(k)'
      BY <2>1, <3>1, <3>2, <3>3 DEF Carried
    <3> QED
      BY <3>4
  <2> QED
    BY <2>2, <2>3, <2>4
<1> QED
  BY <1>5, <1>6, <1>7, <1>8, <1>9 DEF Slide

\* The bootstrap has one list, the window's.
LEMMA DroppedInit == PipelineInit => KmsInv /\ DroppedKeysInv
<1> SUFFICES ASSUME PipelineInit PROVE KmsInv /\ DroppedKeysInv
  OBVIOUS
<1>1. KmsInv
  BY KmsInit DEF PipelineInit
<1>2. ShapeInv
  BY DEF PipelineInit, ShapeInv, Run!Init, Att!NoAttestations, NothingRead
<1>3. publicKeys \in Lists /\ ToSet(publicKeys) = {Previous, Current, Upcoming} /\ guardKeys = publicKeys
  BY <1>1, WindowList, SortKeeps DEF PipelineInit
<1>4. \A L : IsHeld(L) => L = publicKeys
  BY <1>3 DEF PipelineInit, Run!Init, IsHeld
<1>5. \A k : ~IsRead(k)
  BY DEF PipelineInit, NothingRead, IsRead
<1>6. \A k : Carried(k) => InWindow(k)
  BY <1>3, <1>4, <1>5 DEF Carried, InWindow
<1> QED
  BY <1>1, <1>2, <1>3, <1>4, <1>6 DEF DroppedKeysInv

\* Every step of the pipeline.
LEMMA DroppedStep ==
  ASSUME OneAtATime, KmsInv, DroppedKeysInv, [PipelineNext]_pipelineVars
  PROVE  KmsInv' /\ DroppedKeysInv'
<1>1. CASE UNCHANGED vars
  <2>1. KmsInv'
    BY <1>1 DEF KmsInv, Inv, vars, TypeOK, WindowInv, SigningKeysEnabled, ExecutionInv, Clean
  <2>2. CASE UNCHANGED pipelineVars
    <3>1. ShapeInv'
      BY <2>2 DEF DroppedKeysInv, ShapeInv, pipelineVars, contractVars, guardVars, runVars
    <3>2. OnlyCarries
      BY <2>2 DEF OnlyCarries, IsHeld, IsRead, pipelineVars, contractVars, guardVars, runVars
    <3> QED
      BY <1>1, <2>1, <3>1, <3>2, CarryingKeeps
  <2>3. ASSUME NEW a \in AttesterId, AttesterStep(a) \/ SyncReceipt(a) \/ Fail(a) PROVE DroppedKeysInv'
    BY <1>1, <2>3, AttesterCarries, CarryingKeeps
  <2>4. ASSUME NEW i \in Invocation, Rotate(i) PROVE DroppedKeysInv'
    <3>1. Inv' /\ (Invoke(i) \/ Advance(i) \/ Crash(i))
      BY <2>1, <2>4 DEF KmsInv, Rotate
    <3>2. Slide \/ Invoke(i)
      BY <3>1, KmsStep
    <3> QED
      BY <2>1, <2>4, <3>2, RotationDropsOne
  <2> QED
    BY <2>1, <2>2, <2>3, <2>4 DEF PipelineNext
<1>2. ASSUME NEW i \in Invocation, Rotate(i) PROVE KmsInv' /\ DroppedKeysInv'
  <2>1. Invoke(i) \/ Advance(i) \/ Crash(i)
    BY <1>2 DEF Rotate
  <2>2. Inv'
    BY <2>1, NextInv DEF KmsInv, Next
  <2>3. KmsInv' /\ (Slide \/ Invoke(i))
    BY <2>1, <2>2, KmsStep
  <2> QED
    BY <1>2, <2>3, RotationDropsOne
<1>3. ASSUME NEW a \in AttesterId, AttesterStep(a) \/ SyncReceipt(a) \/ Fail(a) PROVE UNCHANGED vars
  BY <1>3 DEF AttesterStep, SyncReceipt, Fail, ReadOneKey, ReadKeys, ReadFails, ReadContract, Attest,
              ReadGuard, Sync, SyncDone, ContractAnswers, GuardCallback
<1>4. UNCHANGED pipelineVars => UNCHANGED vars
  BY DEF pipelineVars
<1> QED
  BY <1>1, <1>2, <1>3, <1>4 DEF PipelineNext

\* A key that was dropped is refused before the next one is: besides the window
\* the guard accepts one key at most, whatever votes and answers are late, and
\* whichever attesters fail and wherever rotations crash.
THEOREM DroppedTokensAreRefused ==
  ASSUME OneAtATime
  PROVE  PipelineSpec => []DroppedKeysAreRefused
<1>1. KmsInv /\ DroppedKeysInv /\ [PipelineNext]_pipelineVars => KmsInv' /\ DroppedKeysInv'
  BY DroppedStep
<1>2. KmsInv /\ DroppedKeysInv => DroppedKeysAreRefused
  <2> SUFFICES ASSUME KmsInv, DroppedKeysInv, NEW k \in ToSet(guardKeys) \ ToSet(Window), NEW l \in ToSet(guardKeys) \ ToSet(Window)
               PROVE  k = l
    BY DEF DroppedKeysAreRefused
  <2>1. Carried(k) /\ Carried(l)
    BY DEF Carried, IsHeld
  <2>2. ~InWindow(k) /\ ~InWindow(l)
    BY WindowList DEF InWindow
  <2> QED
    BY <2>1, <2>2 DEF DroppedKeysInv
<1> QED
  BY <1>1, <1>2, DroppedInit, PTL DEF PipelineSpec

\* The pipeline only rotates as the Lambda does, so what is proved of the Lambda
\* alone holds in it.
THEOREM PipelineImplementsRotation == PipelineSpec => Spec
<1>1. PipelineInit => Init
  BY DEF PipelineInit
<1>2. [PipelineNext]_pipelineVars => [Next]_vars
  BY DEF PipelineNext, pipelineVars, Rotate, Next, AttesterStep, SyncReceipt, Fail, ReadOneKey, ReadKeys,
         ReadFails, ReadContract, Attest, ReadGuard, Sync, SyncDone, ContractAnswers, GuardCallback
<1> QED
  BY <1>1, <1>2, PTL DEF PipelineSpec, Spec

\* In the pipeline too the issuer can always sign, no key leaks and the window
\* slides in order.
THEOREM PipelineRotatesSafely ==
  ASSUME OneAtATime
  PROVE  PipelineSpec => []SigningKeysEnabled /\ []DroppedKeysAreRetired /\ SlidesInOrder
BY PipelineImplementsRotation, CanAlwaysSign, NoKeyLeaks, WindowSlides, PTL
==============================================================================

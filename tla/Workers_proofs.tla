---------------------------- MODULE Workers_proofs ----------------------------
(***************************************************************************)
(* What the install previews show, what the package change alerts remember *)
(* and repeat, and what the backups keep of their settings and archives,   *)
(* for every number of devices, packages, executions, requests and         *)
(* failures.                                                               *)
(***************************************************************************)
EXTENDS Previews, PackageAlerts, Backups, FiniteSetTheorems, TLAPS

-----------------------------------------------------------------------------
(* Install previews *)

Devices == {DeviceOrder[i] : i \in DOMAIN DeviceOrder} \cup {ViewedDevice[v] : v \in Viewers}
DeviceLists == Seq(Devices)
Pairs == Targets \X (Changes \cup {NoChange})

PreviewPlaces == {"idle", "survey", "stage", "generate", "fetch", "cancel", "give up", "error",
                  "status", "previewed", "answer", "write", "ended"}
APreview == [pc : PreviewPlaces, left : SUBSET Targets, scope : SUBSET Targets,
             parts : SUBSET Pairs, devices : DeviceLists]

PreviewTypes ==
    /\ pending \in [Targets -> Changes \cup {NoChange}]
    /\ edits \in Nat
    /\ faulty \in Nat
    /\ context \in [by : Previewers \cup {Nobody}, diff : SUBSET Pairs]
    /\ preview \in [Previewers -> APreview]
    /\ results = [t \in Previewers |-> results[t]]

DeviceTargets(t) == TargetsOf(CurrentDevice(t))

(* Nothing that t has gathered, or has to do, is of another device, and what *)
(* is staged in its name is what it is about to fetch.                       *)
Gathered(t) ==
    /\ preview[t].left \subseteq DeviceTargets(t)
    /\ preview[t].scope \subseteq DeviceTargets(t)
    /\ preview[t].parts \subseteq WaitingIn(DeviceTargets(t))
    /\ Before(t, "fetch") /\ context.by = t => context.diff = WaitingIn(preview[t].scope)

(* What is pending on the device has been fetched, is staged, or is left.    *)
InHand(t) ==
    preview[t].parts \cup WaitingIn(preview[t].left)
        \cup (IF preview[t].pc \in {"generate", "fetch"} THEN WaitingIn(preview[t].scope) ELSE {})

Underway(t) == preview[t].pc \in {"stage", "generate", "fetch", "cancel", "status"}

Accounted(t) ==
    /\ Underway(t) /\ t \notin blind => WaitingIn(DeviceTargets(t)) \subseteq InHand(t)
    /\ Before(t, "status") => preview[t].left = {}

Caused(t) == preview[t].pc \in {"give up", "error"} => faulty > 0

PreviewInv ==
    /\ PreviewTypes
    /\ PreviewIsComplete
    /\ \A t \in Previewers : Caused(t)
    /\ edits = 0 => \A t \in Previewers : Gathered(t) /\ Accounted(t)

(* The preview of t is the only one that changes.                            *)
OnlyPreview(t) == \A u \in Previewers : u # t => preview'[u] = preview[u]

(* A preview goes on.                                                        *)
LEMMA GoOnIs ==
  ASSUME PreviewTypes, NEW t \in Previewers, NEW pc \in PreviewPlaces, GoOn(t, pc)
  PROVE  /\ preview' \in [Previewers -> APreview] /\ OnlyPreview(t)
         /\ preview'[t].pc = pc /\ preview'[t].left = preview[t].left
         /\ preview'[t].scope = preview[t].scope /\ preview'[t].parts = preview[t].parts
         /\ preview'[t].devices = preview[t].devices
  BY DEF PreviewTypes, APreview, GoOn, OnlyPreview

(* What waits in a scope is what waits in its parts.                         *)
LEMMA Waiting ==
  ASSUME PreviewTypes, NEW S \in SUBSET Targets
  PROVE  /\ WaitingIn(S) \in SUBSET Pairs
         /\ WaitingIn({}) = {}
         /\ \A R \in SUBSET Targets : WaitingIn(S \cup R) = WaitingIn(S) \cup WaitingIn(R)
         /\ \A R \in SUBSET Targets : R \subseteq S => WaitingIn(R) \subseteq WaitingIn(S)
  BY DEF PreviewTypes, WaitingIn, Pairs

(* The targets of a device are targets.                                      *)
LEMMA ItsTargets ==
  ASSUME NEW d
  PROVE  TargetsOf(d) \in SUBSET Targets
  BY DEF TargetsOf

(* Another preview is as it was, whatever a step does to what is staged.     *)
LEMMA OthersStay ==
  ASSUME PreviewInv, NEW t \in Previewers, NEW u \in Previewers, u # t, OnlyPreview(t),
         pending' = pending, edits' = edits, faulty' \in Nat, faulty' >= faulty,
         blind \subseteq blind', context'.by = u => context' = context
  PROVE  /\ Caused(u)'
         /\ edits' = 0 => Gathered(u)' /\ Accounted(u)'
<1>1. preview'[u] = preview[u]
  BY DEF OnlyPreview
<1>2. Caused(u)'
  <2>1. Caused(u) /\ faulty \in Nat
    BY DEF PreviewInv, PreviewTypes
  <2>2. faulty > 0 => faulty' > 0
    BY <2>1
  <2>3. preview[u].pc \in {"give up", "error"} => faulty' > 0
    BY <2>1, <2>2 DEF Caused
  <2> QED
    BY <1>1, <2>3 DEF Caused
<1>3. ASSUME edits' = 0
      PROVE  Gathered(u)' /\ Accounted(u)'
  <2>1. Gathered(u) /\ Accounted(u)
    BY <1>3 DEF PreviewInv
  <2>2. Gathered(u)'
    BY <2>1, <1>1 DEF Gathered, DeviceTargets, TargetsOf, CurrentDevice, WaitingIn, Before
  <2>3. Accounted(u)'
    BY <2>1, <1>1 DEF Accounted, Underway, InHand, DeviceTargets, TargetsOf, CurrentDevice,
                      WaitingIn, Before
  <2> QED
    BY <2>2, <2>3
<1> QED
  BY <1>2, <1>3

(* What has been answered stays true, as long as no answer is added.         *)
LEMMA AnswersStay ==
  ASSUME PreviewIsComplete, results' = results, pending' = pending, edits' = edits,
         faulty \in Nat, faulty' \in Nat, faulty' >= faulty, blind \subseteq blind'
  PROVE  PreviewIsComplete'
  BY DEF PreviewIsComplete, WaitingIn, TargetsOf

(* What remains to be shown of a step of t.                                  *)
LEMMA StepOf ==
  ASSUME PreviewInv, NEW t \in Previewers, PreviewTypes', OnlyPreview(t),
         pending' = pending, edits' = edits, faulty' \in Nat, faulty' >= faulty,
         blind \subseteq blind', context' = context \/ context'.by \in {t, Nobody},
         results' = results,
         Caused(t)', edits' = 0 => Gathered(t)' /\ Accounted(t)'
  PROVE  PreviewInv'
<1>1. PreviewIsComplete'
  BY AnswersStay DEF PreviewInv, PreviewTypes
<1>3. \A u \in Previewers : context'.by = u /\ u # t => context' = context
  BY PreviewsAssumption
<1>4. ASSUME NEW u \in Previewers, u # t
      PROVE  Caused(u)' /\ (edits' = 0 => Gathered(u)' /\ Accounted(u)')
  BY <1>3, <1>4, OthersStay
<1> QED
  BY <1>1, <1>4 DEF PreviewInv

(* A call fails, or does not.                                                *)
LEMMA FaultIs ==
  ASSUME faulty \in Nat, Fault \/ faulty' = faulty
  PROVE  /\ faulty' \in Nat /\ faulty' >= faulty
         /\ Fault => faulty' > 0
  BY DEF Fault

(* What is overlooked makes t blind.                                         *)
LEMMA OverlookIs ==
  ASSUME NEW t, NEW S, Overlook(t, S)
  PROVE  /\ blind \subseteq blind'
         /\ t \notin blind' => WaitingIn(S) = {} /\ t \notin blind
  BY DEF Overlook

(* What there is to show of t, in the terms of the state before, when the    *)
(* device is the same.                                                       *)
LEMMA NowIs ==
  ASSUME NEW t \in Previewers, pending' = pending,
         preview'[t].devices = preview[t].devices
  PROVE  /\ (/\ preview'[t].left \subseteq DeviceTargets(t)
             /\ preview'[t].scope \subseteq DeviceTargets(t)
             /\ preview'[t].parts \subseteq WaitingIn(DeviceTargets(t))
             /\ (preview'[t].pc = "fetch" /\ context'.by = t)
                   => context'.diff = WaitingIn(preview'[t].scope))
                => Gathered(t)'
         /\ (/\ (preview'[t].pc \in {"stage", "generate", "fetch", "cancel", "status"}
                   /\ t \notin blind')
                   => WaitingIn(DeviceTargets(t)) \subseteq preview'[t].parts
                        \cup WaitingIn(preview'[t].left)
                        \cup (IF preview'[t].pc \in {"generate", "fetch"}
                              THEN WaitingIn(preview'[t].scope) ELSE {})
             /\ preview'[t].pc = "status" => preview'[t].left = {})
                => Accounted(t)'
<1>1. DeviceTargets(t)' = DeviceTargets(t)
  BY DEF DeviceTargets, TargetsOf, CurrentDevice
<1>2. /\ WaitingIn(DeviceTargets(t))' = WaitingIn(DeviceTargets(t))
      /\ WaitingIn(preview[t].left)' = WaitingIn(preview'[t].left)
      /\ WaitingIn(preview[t].scope)' = WaitingIn(preview'[t].scope)
  BY <1>1 DEF WaitingIn
<1>3. InHand(t)' = preview'[t].parts \cup WaitingIn(preview'[t].left)
                        \cup (IF preview'[t].pc \in {"generate", "fetch"}
                              THEN WaitingIn(preview'[t].scope) ELSE {})
  BY <1>2 DEF InHand
<1> QED
  BY <1>1, <1>2, <1>3 DEF Gathered, Accounted, Underway, Before

(* The targets of the device at hand.                                        *)
LEMMA Here ==
  ASSUME PreviewTypes, NEW t \in Previewers
  PROVE  /\ DeviceTargets(t) \in SUBSET Targets
         /\ preview[t].left \in SUBSET Targets /\ preview[t].scope \in SUBSET Targets
         /\ preview[t].parts \in SUBSET Pairs
  BY ItsTargets DEF PreviewTypes, APreview, DeviceTargets

(* A step that leaves the parts, the targets and the context.                *)
LEMMA JustGoOn ==
  ASSUME PreviewInv, NEW t \in Previewers, NEW pc \in PreviewPlaces, GoOn(t, pc),
         pc \notin {"stage", "generate", "status", "fetch"},
         pc = "cancel" => Before(t, "fetch") /\ Overlook(t, preview[t].scope),
         pending' = pending, edits' = edits, context' = context, results' = results,
         blind \subseteq blind',
         Fault \/ faulty' = faulty, pc \in {"give up", "error"} => Fault
  PROVE  PreviewInv'
<1>1. PreviewTypes
  BY DEF PreviewInv
<1>2. /\ preview' \in [Previewers -> APreview] /\ OnlyPreview(t)
      /\ preview'[t].pc = pc /\ preview'[t].left = preview[t].left
      /\ preview'[t].scope = preview[t].scope /\ preview'[t].parts = preview[t].parts
      /\ preview'[t].devices = preview[t].devices
  BY <1>1, GoOnIs
<1>3. faulty' \in Nat /\ faulty' >= faulty /\ (Fault => faulty' > 0)
  BY <1>1, FaultIs DEF PreviewTypes
<1>4. PreviewTypes'
  BY <1>1, <1>2, <1>3 DEF PreviewTypes
<1>5. Caused(t)'
  BY <1>2, <1>3 DEF Caused
<1>6. ASSUME edits' = 0
      PROVE  Gathered(t)' /\ Accounted(t)'
  <2>1. Gathered(t) /\ Accounted(t)
    BY <1>6 DEF PreviewInv
  <2>2. Gathered(t)'
    BY <1>2, <2>1, NowIs DEF Gathered
  <2>3. CASE pc = "cancel"
    <3>1. Before(t, "fetch") /\ Overlook(t, preview[t].scope)
      BY <2>3
    <3>2. t \notin blind' => WaitingIn(preview[t].scope) = {} /\ t \notin blind
      BY <3>1, OverlookIs
    <3>3. t \notin blind' => WaitingIn(DeviceTargets(t)) \subseteq
             preview[t].parts \cup WaitingIn(preview[t].left)
      BY <2>1, <3>1, <3>2 DEF Accounted, Underway, InHand, Before
    <3> QED
      BY <1>2, <2>2, <2>3, <3>3, NowIs
  <2>4. CASE pc # "cancel"
    BY <1>2, <2>2, <2>4, NowIs
  <2> QED
    BY <2>2, <2>3, <2>4
<1> QED
  BY <1>2, <1>3, <1>4, <1>5, <1>6, StepOf

-----------------------------------------------------------------------------
(* One step per action of get_install_preview *)

(* The device is the same, its targets are asked for.                        *)
LEMMA StartPreviewKeeps ==
  ASSUME PreviewInv, NEW t \in Previewers, StartPreview(t)
  PROVE  PreviewInv'
<1>1. /\ GoOn(t, "survey") /\ pending' = pending /\ edits' = edits /\ context' = context
      /\ results' = results /\ blind \subseteq blind' /\ faulty' = faulty
  BY DEF StartPreview, pendingVars
<1>2. "survey" \in PreviewPlaces
  BY DEF PreviewPlaces
<1> QED
  BY <1>1, <1>2, JustGoOn

(* A package is taken up: its scope is no longer left.                       *)
LEMMA TakeUpIs ==
  ASSUME PreviewTypes, NEW t \in Previewers, NEW pc \in PreviewPlaces,
         NEW scope \in SUBSET Targets,
         preview' = [preview EXCEPT ![t].pc = pc, ![t].scope = scope, ![t].left = @ \ scope]
  PROVE  /\ preview' \in [Previewers -> APreview] /\ OnlyPreview(t)
         /\ preview'[t].pc = pc /\ preview'[t].left = preview[t].left \ scope
         /\ preview'[t].scope = scope /\ preview'[t].parts = preview[t].parts
         /\ preview'[t].devices = preview[t].devices
  BY DEF PreviewTypes, APreview, OnlyPreview

(* A VDOM that was not seen is overlooked.                                   *)
LEMMA SurveyKeeps ==
  ASSUME PreviewInv, NEW t \in Previewers, Survey(t)
  PROVE  PreviewInv'
<1>1. PreviewTypes
  BY DEF PreviewInv
<1>2. PICK seen \in SUBSET DeviceTargets(t) :
         /\ Fault \/ faulty' = faulty
         /\ Overlook(t, DeviceTargets(t) \ seen)
         /\ preview' = [preview EXCEPT ![t].parts = {}, ![t].left = seen,
                                       ![t].pc = IF seen = {} THEN "status" ELSE "stage"]
  BY DEF Survey, DeviceTargets
<1> DEFINE pc == IF seen = {} THEN "status" ELSE "stage"
<1>3. DeviceTargets(t) \in SUBSET Targets
  BY <1>1, Here
<1>4. /\ preview' \in [Previewers -> APreview] /\ OnlyPreview(t)
      /\ preview'[t].pc = pc /\ preview'[t].left = seen
      /\ preview'[t].scope = preview[t].scope /\ preview'[t].parts = {}
      /\ preview'[t].devices = preview[t].devices
  <2>1. pc \in PreviewPlaces
    <3>1. pc = "status" \/ pc = "stage"
      OBVIOUS
    <3> QED
      BY <3>1 DEF PreviewPlaces
  <2>2. seen \in SUBSET Targets
    BY <1>3
  <2>3. preview' = [preview EXCEPT ![t].parts = {}, ![t].left = seen, ![t].pc = pc]
    BY <1>2
  <2> HIDE DEF pc
  <2> QED
    BY <1>1, <2>1, <2>2, <2>3 DEF PreviewTypes, APreview, OnlyPreview
<1>5. faulty' \in Nat /\ faulty' >= faulty
  BY <1>1, <1>2, FaultIs DEF PreviewTypes
<1>6. blind \subseteq blind' /\ (t \notin blind' => WaitingIn(DeviceTargets(t) \ seen) = {})
  BY <1>2, OverlookIs
<1>7. UNCHANGED <<pendingVars, context, results>>
  BY DEF Survey
<1>8. PreviewTypes' /\ Caused(t)'
  BY <1>1, <1>4, <1>5, <1>7 DEF PreviewTypes, pendingVars, Caused
<1>9. ASSUME edits' = 0
      PROVE  Gathered(t)' /\ Accounted(t)'
  <2>1. preview[t].scope \subseteq DeviceTargets(t)
    BY <1>7, <1>9 DEF PreviewInv, Gathered, pendingVars
  <2>2. Gathered(t)'
    BY <1>4, <1>7, <2>1, NowIs DEF pendingVars
  <2>3. t \notin blind' => WaitingIn(DeviceTargets(t)) \subseteq WaitingIn(seen)
    <3>1. DeviceTargets(t) = seen \cup (DeviceTargets(t) \ seen)
      BY <1>2
    <3>2. WaitingIn(DeviceTargets(t)) = WaitingIn(seen) \cup WaitingIn(DeviceTargets(t) \ seen)
      BY <1>1, <1>3, <3>1, Waiting
    <3> QED
      BY <1>6, <3>2
  <2>4. Accounted(t)'
    BY <1>4, <1>7, <2>3, NowIs DEF pendingVars
  <2> QED
    BY <2>2, <2>4
<1> QED
  BY <1>4, <1>5, <1>6, <1>7, <1>8, <1>9, StepOf DEF pendingVars

(* The package that is staged is in hand.                                    *)
LEMMA StageKeeps ==
  ASSUME PreviewInv, NEW t \in Previewers, Stage(t)
  PROVE  PreviewInv'
<1>1. PreviewTypes
  BY DEF PreviewInv
<1>2. PICK p \in {AssignedTo[r] : r \in preview[t].left} :
         LET scope == {r \in preview[t].left : AssignedTo[r] = p}
         IN  preview' = [preview EXCEPT ![t].pc = "generate", ![t].scope = scope,
                                        ![t].left = @ \ scope]
  BY DEF Stage
<1> DEFINE scope == {r \in preview[t].left : AssignedTo[r] = p}
<1>3. preview' = [preview EXCEPT ![t].pc = "generate", ![t].scope = scope, ![t].left = @ \ scope]
  BY <1>2
<1>4. preview[t].left \in SUBSET Targets /\ scope \subseteq preview[t].left
  BY <1>1, Here
<1> HIDE DEF scope
<1>5. "generate" \in PreviewPlaces /\ scope \in SUBSET Targets
  BY <1>4 DEF PreviewPlaces
<1>6. /\ preview' \in [Previewers -> APreview] /\ OnlyPreview(t)
      /\ preview'[t].pc = "generate" /\ preview'[t].left = preview[t].left \ scope
      /\ preview'[t].scope = scope /\ preview'[t].parts = preview[t].parts
      /\ preview'[t].devices = preview[t].devices
  BY <1>1, <1>3, <1>5, TakeUpIs
<1>7. /\ context' = [by |-> t, diff |-> {}] /\ pending' = pending /\ edits' = edits
      /\ results' = results /\ blind' = blind /\ faulty' = faulty /\ Before(t, "stage")
  BY DEF Stage, pendingVars
<1>8. context'.by = t /\ context' \in [by : Previewers \cup {Nobody}, diff : SUBSET Pairs]
  BY <1>7
<1>9. PreviewTypes'
  BY <1>1, <1>6, <1>7, <1>8 DEF PreviewTypes
<1>10. Caused(t)'
  BY <1>6 DEF Caused
<1>11. ASSUME edits' = 0
       PROVE  Gathered(t)' /\ Accounted(t)'
  <2>1. Gathered(t) /\ Accounted(t)
    BY <1>7, <1>11 DEF PreviewInv
  <2>2. Gathered(t)'
    BY <1>4, <1>6, <1>7, <2>1, NowIs DEF Gathered
  <2>3. WaitingIn(preview[t].left) = WaitingIn(preview[t].left \ scope) \cup WaitingIn(scope)
    <3>1. preview[t].left = (preview[t].left \ scope) \cup scope
      BY <1>4
    <3> QED
      BY <1>1, <1>4, <3>1, Waiting
  <2>4. t \notin blind => WaitingIn(DeviceTargets(t)) \subseteq
           preview[t].parts \cup WaitingIn(preview[t].left)
    BY <1>7, <2>1 DEF Accounted, Underway, InHand, Before
  <2>5. Accounted(t)'
    BY <1>6, <1>7, <2>3, <2>4, NowIs
  <2> QED
    BY <2>2, <2>5
<1> QED
  BY <1>1, <1>6, <1>7, <1>8, <1>9, <1>10, <1>11, StepOf DEF PreviewTypes

(* A package that is skipped was empty, or t is blind.                       *)
LEMMA SkipPackageKeeps ==
  ASSUME PreviewInv, NEW t \in Previewers, SkipPackage(t)
  PROVE  PreviewInv'
<1>1. PreviewTypes
  BY DEF PreviewInv
<1>2. PICK p \in {AssignedTo[r] : r \in preview[t].left \cup preview[t].scope} :
         LET scope == IF Before(t, "generate") THEN preview[t].scope
                      ELSE {r \in preview[t].left : AssignedTo[r] = p}
         IN  /\ preview' = [preview EXCEPT ![t].pc = "cancel", ![t].scope = scope,
                                           ![t].left = @ \ scope]
             /\ Overlook(t, scope)
  BY DEF SkipPackage
<1> DEFINE scope == IF Before(t, "generate") THEN preview[t].scope
                    ELSE {r \in preview[t].left : AssignedTo[r] = p}
<1>3. /\ preview' = [preview EXCEPT ![t].pc = "cancel", ![t].scope = scope, ![t].left = @ \ scope]
      /\ Overlook(t, scope)
  BY <1>2
<1>4. /\ preview[t].left \in SUBSET Targets /\ preview[t].scope \in SUBSET Targets
      /\ Before(t, "generate") => scope = preview[t].scope
      /\ ~Before(t, "generate") => scope \subseteq preview[t].left
  BY <1>1, Here
<1> HIDE DEF scope
<1>5. "cancel" \in PreviewPlaces /\ scope \in SUBSET Targets
  BY <1>4 DEF PreviewPlaces
<1>6. /\ preview' \in [Previewers -> APreview] /\ OnlyPreview(t)
      /\ preview'[t].pc = "cancel" /\ preview'[t].left = preview[t].left \ scope
      /\ preview'[t].scope = scope /\ preview'[t].parts = preview[t].parts
      /\ preview'[t].devices = preview[t].devices
  BY <1>1, <1>3, <1>5, TakeUpIs
<1>7. /\ context' = context /\ pending' = pending /\ edits' = edits /\ results' = results
      /\ Before(t, "stage") \/ Before(t, "generate")
  BY DEF SkipPackage, pendingVars
<1>8. faulty' \in Nat /\ faulty' >= faulty
  BY <1>1, FaultIs DEF SkipPackage, PreviewTypes
<1>9. blind \subseteq blind' /\ (t \notin blind' => WaitingIn(scope) = {} /\ t \notin blind)
  BY <1>3, OverlookIs
<1>10. PreviewTypes' /\ Caused(t)'
  BY <1>1, <1>6, <1>7, <1>8 DEF PreviewTypes, Caused
<1>11. ASSUME edits' = 0
       PROVE  Gathered(t)' /\ Accounted(t)'
  <2>1. Gathered(t) /\ Accounted(t)
    BY <1>7, <1>11 DEF PreviewInv
  <2>2. Gathered(t)'
    BY <1>4, <1>6, <1>7, <2>1, NowIs DEF Gathered
  <2>3. WaitingIn(preview[t].left) \subseteq WaitingIn(preview[t].left \ scope) \cup WaitingIn(scope)
    <3>1. WaitingIn((preview[t].left \ scope) \cup scope)
             = WaitingIn(preview[t].left \ scope) \cup WaitingIn(scope)
      BY <1>1, <1>4, <1>5, Waiting
    <3>2. WaitingIn(preview[t].left) \subseteq WaitingIn((preview[t].left \ scope) \cup scope)
      <4>1. preview[t].left \subseteq (preview[t].left \ scope) \cup scope
        OBVIOUS
      <4> QED
        BY <1>1, <1>4, <1>5, <4>1, Waiting
    <3> QED
      BY <3>1, <3>2
  <2>4. t \notin blind' => WaitingIn(DeviceTargets(t)) \subseteq
           preview[t].parts \cup WaitingIn(preview[t].left)
    BY <1>4, <1>7, <1>9, <2>1 DEF Accounted, Underway, InHand, Before
  <2>5. Accounted(t)'
    BY <1>6, <1>7, <1>9, <2>3, <2>4, NowIs
  <2> QED
    BY <2>2, <2>5
<1> QED
  BY <1>6, <1>7, <1>8, <1>9, <1>10, <1>11, StepOf

(* What is generated is what waits in the scope, if the context is t's.      *)
LEMMA GenerateKeeps ==
  ASSUME PreviewInv, NEW t \in Previewers, Generate(t)
  PROVE  PreviewInv'
<1>1. PreviewTypes
  BY DEF PreviewInv
<1>2. /\ GoOn(t, "fetch") /\ Before(t, "generate")
      /\ context' = IF context.by = t THEN [context EXCEPT !.diff = WaitingIn(preview[t].scope)]
                    ELSE context
      /\ pending' = pending /\ edits' = edits /\ results' = results /\ blind' = blind
      /\ faulty' = faulty
  BY DEF Generate, pendingVars
<1>3. "fetch" \in PreviewPlaces
  BY DEF PreviewPlaces
<1>4. /\ preview' \in [Previewers -> APreview] /\ OnlyPreview(t)
      /\ preview'[t].pc = "fetch" /\ preview'[t].left = preview[t].left
      /\ preview'[t].scope = preview[t].scope /\ preview'[t].parts = preview[t].parts
      /\ preview'[t].devices = preview[t].devices
  BY <1>1, <1>2, <1>3, GoOnIs
<1>5. /\ context' \in [by : Previewers \cup {Nobody}, diff : SUBSET Pairs]
      /\ context'.by = context.by
      /\ context.by # t => context' = context
      /\ context.by = t => context'.diff = WaitingIn(preview[t].scope)
  <2>1. WaitingIn(preview[t].scope) \in SUBSET Pairs
    BY <1>1, Here, Waiting
  <2> DEFINE W == WaitingIn(preview[t].scope)
  <2>2. context' = IF context.by = t THEN [context EXCEPT !.diff = W] ELSE context
    BY <1>2
  <2>3. W \in SUBSET Pairs /\ context \in [by : Previewers \cup {Nobody}, diff : SUBSET Pairs]
    BY <1>1, <2>1 DEF PreviewTypes
  <2> HIDE DEF W
  <2>4. /\ context' \in [by : Previewers \cup {Nobody}, diff : SUBSET Pairs]
        /\ context'.by = context.by
        /\ context.by # t => context' = context
        /\ context.by = t => context'.diff = W
    BY <2>2, <2>3
  <2> QED
    BY <2>4 DEF W
<1>6. PreviewTypes'
  BY <1>1, <1>2, <1>4, <1>5 DEF PreviewTypes
<1>7. Caused(t)'
  BY <1>4 DEF Caused
<1>8. ASSUME edits' = 0
      PROVE  Gathered(t)' /\ Accounted(t)'
  <2>1. Gathered(t) /\ Accounted(t)
    BY <1>2, <1>8 DEF PreviewInv
  <2>2. Gathered(t)'
    BY <1>2, <1>4, <1>5, <2>1, NowIs DEF Gathered
  <2>3. t \notin blind => WaitingIn(DeviceTargets(t)) \subseteq
           preview[t].parts \cup WaitingIn(preview[t].left) \cup WaitingIn(preview[t].scope)
    BY <1>2, <2>1 DEF Accounted, Underway, InHand, Before
  <2>4. Accounted(t)'
    BY <1>2, <1>4, <2>3, NowIs
  <2> QED
    BY <2>2, <2>4
<1>9. context' = context \/ context'.by \in {t, Nobody}
  BY <1>5
<1> QED
  BY <1>1, <1>2, <1>4, <1>6, <1>7, <1>8, <1>9, StepOf DEF PreviewTypes

(* A failed task is a fault.                                                 *)
LEMMA TaskFailsKeeps ==
  ASSUME PreviewInv, NEW t \in Previewers, TaskFails(t)
  PROVE  PreviewInv'
<1>1. /\ GoOn(t, "give up") /\ pending' = pending /\ edits' = edits /\ context' = context
      /\ results' = results /\ blind \subseteq blind' /\ Fault
  BY DEF TaskFails, pendingVars
<1>2. "give up" \in PreviewPlaces
  BY DEF PreviewPlaces
<1> QED
  BY <1>1, <1>2, JustGoOn

(* What cannot be fetched is overlooked.                                     *)
LEMMA FetchFailsKeeps ==
  ASSUME PreviewInv, NEW t \in Previewers, FetchFails(t)
  PROVE  PreviewInv'
<1>1. /\ GoOn(t, "cancel") /\ pending' = pending /\ edits' = edits /\ context' = context
      /\ results' = results /\ Overlook(t, preview[t].scope) /\ Fault /\ Before(t, "fetch")
  BY DEF FetchFails, pendingVars
<1>2. "cancel" \in PreviewPlaces
  BY DEF PreviewPlaces
<1> QED
  BY <1>1, <1>2, JustGoOn, OverlookIs

(* What is fetched joins the parts.                                          *)
LEMMA FetchKeeps ==
  ASSUME PreviewInv, NEW t \in Previewers, Fetch(t)
  PROVE  PreviewInv'
<1>1. PreviewTypes
  BY DEF PreviewInv
<1> DEFINE part == IF context.by = t THEN context.diff ELSE {}
           parts == preview[t].parts \cup part
<1>2. /\ preview' = [preview EXCEPT ![t].pc = "cancel", ![t].parts = parts]
      /\ pending' = pending /\ edits' = edits /\ results' = results /\ context' = context
      /\ faulty' = faulty /\ Before(t, "fetch")
      /\ IF context.by = t THEN blind' = blind ELSE Overlook(t, preview[t].scope)
  BY DEF Fetch, WithPart, pendingVars
<1>3. /\ part \in SUBSET Pairs
      /\ context.by = t => part = context.diff
      /\ context.by # t => part = {}
  BY <1>1 DEF PreviewTypes
<1>4. parts \in SUBSET Pairs /\ "cancel" \in PreviewPlaces
  BY <1>1, <1>3, Here DEF PreviewPlaces
<1>5. parts = preview[t].parts \cup part
  OBVIOUS
<1> HIDE DEF part, parts
<1>6. /\ preview' \in [Previewers -> APreview] /\ OnlyPreview(t)
      /\ preview'[t].pc = "cancel" /\ preview'[t].left = preview[t].left
      /\ preview'[t].scope = preview[t].scope /\ preview'[t].parts = parts
      /\ preview'[t].devices = preview[t].devices
  BY <1>1, <1>2, <1>4 DEF PreviewTypes, APreview, OnlyPreview
<1>7. /\ blind \subseteq blind'
      /\ t \notin blind' => t \notin blind
      /\ t \notin blind' /\ context.by # t => WaitingIn(preview[t].scope) = {}
  BY <1>2, OverlookIs
<1>8. PreviewTypes' /\ Caused(t)'
  BY <1>1, <1>2, <1>6 DEF PreviewTypes, Caused
<1>9. ASSUME edits' = 0
      PROVE  Gathered(t)' /\ Accounted(t)'
  <2>1. Gathered(t) /\ Accounted(t)
    BY <1>2, <1>9 DEF PreviewInv
  <2>2. context.by = t => part = WaitingIn(preview[t].scope)
    BY <1>2, <1>3, <2>1 DEF Gathered
  <2>3. part \subseteq WaitingIn(DeviceTargets(t))
    <3>1. WaitingIn(preview[t].scope) \subseteq WaitingIn(DeviceTargets(t))
      BY <1>1, <2>1, Here, Waiting DEF Gathered
    <3> QED
      BY <1>3, <2>2, <3>1
  <2>4. Gathered(t)'
    BY <1>2, <1>5, <1>6, <2>1, <2>3, NowIs DEF Gathered
  <2>5. t \notin blind => WaitingIn(DeviceTargets(t)) \subseteq
           preview[t].parts \cup WaitingIn(preview[t].left) \cup WaitingIn(preview[t].scope)
    BY <1>2, <2>1 DEF Accounted, Underway, InHand, Before
  <2>6. t \notin blind' => WaitingIn(DeviceTargets(t)) \subseteq
           parts \cup WaitingIn(preview[t].left)
    BY <1>5, <1>7, <2>2, <2>5
  <2>7. Accounted(t)'
    BY <1>2, <1>6, <2>6, NowIs
  <2> QED
    BY <2>4, <2>7
<1> QED
  BY <1>1, <1>2, <1>6, <1>7, <1>8, <1>9, StepOf DEF PreviewTypes

(* After the cancel, nothing is staged; an empty rest ends the device.       *)
LEMMA CancelKeeps ==
  ASSUME PreviewInv, NEW t \in Previewers, Cancel(t)
  PROVE  PreviewInv'
<1>1. PreviewTypes /\ Caused(t)
  BY DEF PreviewInv
<1> DEFINE pc == IF Before(t, "give up") THEN "error"
                 ELSE IF preview[t].left = {} THEN "status" ELSE "stage"
<1>2. /\ GoOn(t, pc) /\ context' = [by |-> Nobody, diff |-> {}]
      /\ pending' = pending /\ edits' = edits /\ results' = results /\ blind' = blind
      /\ faulty' = faulty /\ (Before(t, "cancel") \/ Before(t, "give up"))
  BY DEF Cancel, NoContext, pendingVars
<1>3. /\ pc \in {"error", "status", "stage"}
      /\ pc = "error" => Before(t, "give up")
      /\ pc # "error" => Before(t, "cancel")
      /\ pc = "status" => preview[t].left = {}
  BY <1>2 DEF Before
<1> HIDE DEF pc
<1>4. pc \in PreviewPlaces
  BY <1>3 DEF PreviewPlaces
<1>5. /\ preview' \in [Previewers -> APreview] /\ OnlyPreview(t)
      /\ preview'[t].pc = pc /\ preview'[t].left = preview[t].left
      /\ preview'[t].scope = preview[t].scope /\ preview'[t].parts = preview[t].parts
      /\ preview'[t].devices = preview[t].devices
  BY <1>1, <1>2, <1>4, GoOnIs
<1>6. context' \in [by : Previewers \cup {Nobody}, diff : SUBSET Pairs] /\ context'.by = Nobody
  BY <1>2
<1>7. PreviewTypes'
  BY <1>1, <1>2, <1>5, <1>6 DEF PreviewTypes
<1>8. Caused(t)'
  BY <1>1, <1>2, <1>3, <1>5 DEF Caused, Before
<1>9. ASSUME edits' = 0
      PROVE  Gathered(t)' /\ Accounted(t)'
  <2>1. Gathered(t) /\ Accounted(t)
    BY <1>2, <1>9 DEF PreviewInv
  <2>2. Gathered(t)'
    BY <1>2, <1>3, <1>5, <2>1, NowIs DEF Gathered
  <2>3. pc # "error" /\ t \notin blind => WaitingIn(DeviceTargets(t)) \subseteq
           preview[t].parts \cup WaitingIn(preview[t].left)
    BY <1>3, <2>1 DEF Accounted, Underway, InHand, Before
  <2>4. Accounted(t)'
    BY <1>2, <1>3, <1>5, <2>3, NowIs
  <2> QED
    BY <2>2, <2>4
<1>10. /\ context' = context \/ context'.by \in {t, Nobody}
       /\ blind \subseteq blind'
  BY <1>2, <1>6
<1>11. faulty' \in Nat /\ faulty' >= faulty
  BY <1>1, <1>2, FaultIs DEF PreviewTypes
<1> QED
  BY <1>2, <1>5, <1>7, <1>8, <1>9, <1>10, <1>11, StepOf

-----------------------------------------------------------------------------
(* What becomes of a preview *)

(* What is left of a device's list is a list of devices, as long as there    *)
(* are any.                                                                  *)
LEMMA RestOf ==
  ASSUME NEW s \in Seq(Devices)
  PROVE  /\ (IF Len(s) > 1 THEN Tail(s) ELSE s) \in Seq(Devices)
         /\ s # << >> => (IF Len(s) > 1 THEN Tail(s) ELSE s) # << >>
<1>1. CASE Len(s) > 1
  <2>1. s # << >>
    BY <1>1
  <2>2. Tail(s) \in Seq(Devices) /\ Len(Tail(s)) = Len(s) - 1 /\ Len(s) \in Nat
    BY <2>1
  <2> DEFINE rest == Tail(s)
  <2>3. rest \in Seq(Devices)
    BY <2>2
  <2>4. Len(rest) # 0
    BY <1>1, <2>2
  <2>6. (IF Len(s) > 1 THEN rest ELSE s) = rest
    BY <1>1
  <2> HIDE DEF rest
  <2>5. rest \in Seq(Devices) /\ rest # << >>
    BY <2>3, <2>4
  <2>7. (IF Len(s) > 1 THEN rest ELSE s) \in Seq(Devices)
    BY <2>5, <2>6
  <2>8. (IF Len(s) > 1 THEN rest ELSE s) # << >>
    BY <2>5, <2>6
  <2> QED
    BY <2>7, <2>8 DEF rest
<1>2. CASE ~(Len(s) > 1)
  BY <1>2
<1> QED
  BY <1>1, <1>2

(* An answer that is right leaves everything right.                          *)
LEMMA FinishKeeps ==
  ASSUME PreviewInv, NEW t \in Previewers, NEW status, NEW diff, Finish(t, status, diff),
         pending' = pending, edits' = edits, context' = context, blind' = blind,
         faulty' \in Nat, faulty' >= faulty,
         edits = 0 => diff \subseteq WaitingIn(DeviceTargets(t)),
         (edits = 0 /\ status # "error" /\ t \notin blind) => diff = WaitingIn(DeviceTargets(t)),
         status = "error" => faulty' > 0
  PROVE  PreviewInv'
<1>1. PreviewTypes
  BY DEF PreviewInv
<1> DEFINE answer == [device |-> CurrentDevice(t), status |-> status, diff |-> diff]
           pc == IF Len(preview[t].devices) > 1 THEN "survey"
                 ELSE IF t \in Bulk THEN "previewed" ELSE "answer"
           rest == IF Len(preview[t].devices) > 1 THEN Tail(preview[t].devices)
                   ELSE preview[t].devices
<1>2. results' = [results EXCEPT ![t] = @ \cup {answer}]
  BY DEF Finish
<1>3. preview' = [preview EXCEPT ![t].parts = {}, ![t].scope = {}, ![t].left = {},
                                 ![t].pc = pc, ![t].devices = rest]
  BY <1>1 DEF Finish, PreviewTypes, APreview
<1>4. answer.device = CurrentDevice(t) /\ answer.status = status /\ answer.diff = diff
  OBVIOUS
<1>5. pc \in {"survey", "previewed", "answer"} /\ rest \in DeviceLists
  BY <1>1, RestOf DEF PreviewTypes, APreview, DeviceLists
<1> HIDE DEF answer, pc, rest
<1>6. pc \in PreviewPlaces
  BY <1>5 DEF PreviewPlaces
<1>7. /\ preview' \in [Previewers -> APreview] /\ OnlyPreview(t)
      /\ preview'[t].pc = pc /\ preview'[t].left = {}
      /\ preview'[t].scope = {} /\ preview'[t].parts = {}
  <2> DEFINE q == [preview[t] EXCEPT !.parts = {}, !.scope = {}, !.left = {},
                                     !.pc = pc, !.devices = rest]
  <2>1. /\ q \in APreview /\ q.pc = pc /\ q.left = {} /\ q.scope = {} /\ q.parts = {}
    BY <1>1, <1>5, <1>6 DEF PreviewTypes, APreview
  <2>2. preview' = [preview EXCEPT ![t] = q]
    BY <1>1, <1>3 DEF PreviewTypes
  <2> HIDE DEF q
  <2> QED
    BY <1>1, <2>1, <2>2 DEF PreviewTypes, OnlyPreview
<1>8. /\ results' = [u \in Previewers |-> results'[u]]
      /\ results'[t] = results[t] \cup {answer}
      /\ \A u \in Previewers : u # t => results'[u] = results[u]
  <2>1. results = [u \in Previewers |-> results[u]]
    BY <1>1 DEF PreviewTypes
  <2> QED
    BY <1>2, <2>1
<1>9. PreviewTypes'
  BY <1>1, <1>7, <1>8 DEF PreviewTypes
<1>10. PreviewIsComplete'
  <2> SUFFICES ASSUME NEW u \in Previewers, NEW res \in results'[u]
               PROVE  /\ edits' = 0 => res.diff \subseteq WaitingIn(TargetsOf(res.device))'
                      /\ (edits' = 0 /\ res.status # "error" /\ u \notin blind') =>
                            res.diff = WaitingIn(TargetsOf(res.device))'
                      /\ res.status = "error" => faulty' > 0
    BY DEF PreviewIsComplete
  <2>1. WaitingIn(TargetsOf(res.device))' = WaitingIn(TargetsOf(res.device))
    BY DEF WaitingIn, TargetsOf
  <2>2. CASE res \in results[u]
    <3>1. /\ edits = 0 => res.diff \subseteq WaitingIn(TargetsOf(res.device))
          /\ (edits = 0 /\ res.status # "error" /\ u \notin blind) =>
                res.diff = WaitingIn(TargetsOf(res.device))
          /\ res.status = "error" => faulty > 0
      BY <2>2 DEF PreviewInv, PreviewIsComplete
    <3>2. faulty > 0 => faulty' > 0
      BY <1>1 DEF PreviewTypes
    <3> QED
      BY <2>1, <3>1, <3>2
  <2>3. CASE res \notin results[u]
    <3>1. u = t /\ res = answer
      BY <1>8, <2>3
    <3>2. TargetsOf(res.device) = DeviceTargets(t)
      BY <1>4, <3>1 DEF DeviceTargets
    <3> QED
      BY <1>4, <2>1, <3>1, <3>2
  <2> QED
    BY <2>2, <2>3
<1>11. Caused(t)'
  BY <1>5, <1>7 DEF Caused
<1>12. ASSUME edits' = 0
       PROVE  Gathered(t)' /\ Accounted(t)'
  BY <1>5, <1>7 DEF Gathered, Accounted, Underway, Before
<1>13. ASSUME NEW u \in Previewers, u # t
       PROVE  Caused(u)' /\ (edits' = 0 => Gathered(u)' /\ Accounted(u)')
  <2>1. blind \subseteq blind' /\ (context'.by = u => context' = context)
    OBVIOUS
  <2> QED
    BY <1>7, <1>13, <2>1, OthersStay
<1> QED
  BY <1>9, <1>10, <1>11, <1>12, <1>13 DEF PreviewInv

(* A device without an error is answered with all that was gathered.         *)
LEMMA ConcludeKeeps ==
  ASSUME PreviewInv, NEW t \in Previewers, Conclude(t)
  PROVE  PreviewInv'
<1>1. PreviewTypes
  BY DEF PreviewInv
<1>2. /\ Before(t, "status") /\ pending' = pending /\ edits' = edits /\ context' = context
      /\ blind' = blind /\ faulty' = faulty
  BY DEF Conclude, pendingVars
<1>3. PICK modified \in BOOLEAN :
          Finish(t, CASE preview[t].parts # {} -> "ok"
                      [] preview[t].parts = {} /\ modified -> "pkg_pending_no_diff"
                      [] preview[t].parts = {} /\ ~modified -> "no_changes",
                 preview[t].parts)
  BY DEF Conclude
<1> DEFINE status == CASE preview[t].parts # {} -> "ok"
                       [] preview[t].parts = {} /\ modified -> "pkg_pending_no_diff"
                       [] preview[t].parts = {} /\ ~modified -> "no_changes"
<1>4. Finish(t, status, preview[t].parts)
  BY <1>3
<1>5. status # "error"
  OBVIOUS
<1> HIDE DEF status
<1>6. edits = 0 => /\ preview[t].parts \subseteq WaitingIn(DeviceTargets(t))
                   /\ t \notin blind => WaitingIn(DeviceTargets(t)) \subseteq preview[t].parts
  <2> SUFFICES ASSUME edits = 0
               PROVE  /\ preview[t].parts \subseteq WaitingIn(DeviceTargets(t))
                      /\ t \notin blind => WaitingIn(DeviceTargets(t)) \subseteq preview[t].parts
    OBVIOUS
  <2>1. Gathered(t) /\ Accounted(t)
    BY DEF PreviewInv
  <2>2. preview[t].left = {} /\ WaitingIn({}) = {}
    BY <1>1, <1>2, <2>1, Waiting DEF Accounted
  <2> QED
    BY <1>2, <2>1, <2>2 DEF Gathered, Accounted, Underway, InHand, Before
<1>7. faulty' \in Nat /\ faulty' >= faulty
  BY <1>1, <1>2, FaultIs DEF PreviewTypes
<1> QED
  BY <1>2, <1>4, <1>5, <1>6, <1>7, FinishKeeps

(* An error shows nothing, and something failed.                             *)
LEMMA PreviewErrorKeeps ==
  ASSUME PreviewInv, NEW t \in Previewers, PreviewError(t)
  PROVE  PreviewInv'
<1>1. PreviewTypes /\ Caused(t)
  BY DEF PreviewInv
<1>2. /\ Finish(t, "error", {}) /\ pending' = pending /\ edits' = edits
      /\ context' = context /\ blind' = blind
      /\ (Before(t, "error") /\ faulty' = faulty) \/ Fault
  BY DEF PreviewError, pendingVars
<1>3. faulty' \in Nat /\ faulty' >= faulty /\ (Fault => faulty' > 0)
  BY <1>1, <1>2, FaultIs DEF PreviewTypes
<1>4. faulty' > 0
  BY <1>1, <1>2, <1>3 DEF Caused, Before
<1> QED
  BY <1>2, <1>3, <1>4, FinishKeeps

(* The end of a thread.                                                      *)
LEMMA EndKeeps ==
  ASSUME PreviewInv, NEW t \in Previewers, NEW pc \in {"write", "ended"}, GoOn(t, pc),
         Fault \/ faulty' = faulty,
         UNCHANGED <<pending, edits, context, results, blind>>
  PROVE  PreviewInv'
<1>1. pc \in PreviewPlaces
  BY DEF PreviewPlaces
<1>2. blind \subseteq blind'
  OBVIOUS
<1> QED
  BY <1>1, <1>2, JustGoOn

(* A pending change changes: from then on only the errors are told of.       *)
LEMMA EditKeeps ==
  ASSUME PreviewInv, NEW r \in Targets, EditPending(r),
         UNCHANGED <<context, preview, results, blind, faulty>>
  PROVE  PreviewInv'
<1>1. PreviewTypes
  BY DEF PreviewInv
<1>2. edits' \in Nat /\ edits' # 0
  BY <1>1 DEF PreviewTypes, EditPending
<1>3. pending' \in [Targets -> Changes \cup {NoChange}]
  BY <1>1 DEF PreviewTypes, EditPending
<1>4. PreviewTypes'
  BY <1>1, <1>2, <1>3 DEF PreviewTypes
<1>5. \A t \in Previewers : Caused(t)'
  BY DEF PreviewInv, Caused
<1>6. PreviewIsComplete'
  BY <1>2 DEF PreviewInv, PreviewIsComplete
<1> QED
  BY <1>2, <1>4, <1>5, <1>6 DEF PreviewInv

-----------------------------------------------------------------------------
(* A preview starts with nothing in hand.                                    *)
LEMMA PreviewsStart == PreviewsInit => PreviewInv
<1> SUFFICES ASSUME PreviewsInit
             PROVE  PreviewInv
  OBVIOUS
<1>1. PreviewTypes
  <2>1. DeviceOrder \in Seq(Devices)
    BY PendingAssumption DEF Devices
  <2>2. ASSUME NEW t \in Previewers
        PROVE  (IF t \in Bulk THEN DeviceOrder ELSE <<ViewedDevice[t]>>) \in Seq(Devices)
    <3>1. CASE t \in Bulk
      BY <2>1, <3>1
    <3>2. CASE t \notin Bulk
      <4>1. ViewedDevice[t] \in Devices
        BY <3>2 DEF Previewers, Devices
      <4> QED
        BY <3>2, <4>1
    <3> QED
      BY <3>1, <3>2
  <2>3. preview \in [Previewers -> APreview]
    BY <2>2 DEF PreviewsInit, APreview, PreviewPlaces, DeviceLists
  <2>4. context \in [by : Previewers \cup {Nobody}, diff : SUBSET Pairs]
    BY DEF PreviewsInit, NoContext
  <2>5. results = [t \in Previewers |-> results[t]]
    BY DEF PreviewsInit
  <2> QED
    BY <2>3, <2>4, <2>5 DEF PreviewsInit, PendingInit, PreviewTypes
<1>2. \A t \in Previewers : /\ preview[t].pc = "idle" /\ preview[t].left = {}
                            /\ preview[t].scope = {} /\ preview[t].parts = {}
                            /\ results[t] = {}
  BY DEF PreviewsInit
<1>3. PreviewIsComplete
  BY <1>2 DEF PreviewIsComplete
<1>4. \A t \in Previewers : Caused(t) /\ Gathered(t) /\ Accounted(t)
  BY <1>2 DEF Caused, Gathered, Accounted, Underway, Before
<1> QED
  BY <1>1, <1>3, <1>4 DEF PreviewInv

(* Every step leaves the previews right.                                     *)
LEMMA PreviewsStep == PreviewInv /\ [PreviewsNext]_previewVars => PreviewInv'
<1> SUFFICES ASSUME PreviewInv, [PreviewsNext]_previewVars
             PROVE  PreviewInv'
  OBVIOUS
<1>1. ASSUME NEW t \in Previewers, PreviewStep(t)
      PROVE  PreviewInv'
  BY <1>1, StartPreviewKeeps, SurveyKeeps, StageKeeps, SkipPackageKeeps, GenerateKeeps,
     TaskFailsKeeps, FetchKeeps, FetchFailsKeeps, CancelKeeps, ConcludeKeeps,
     PreviewErrorKeeps
     DEF PreviewStep
<1>2. ASSUME NEW t \in Previewers, PreviewerDies(t)
      PROVE  PreviewInv'
  BY <1>2, EndKeeps DEF PreviewerDies, pendingVars
<1>3. ASSUME NEW v \in Viewers, ReadTaskFile(v)
      PROVE  PreviewInv'
  <2>1. v \in Previewers
    BY DEF Previewers
  <2>2. PICK pc \in {"write", "ended"} : GoOn(v, pc)
    BY <1>3 DEF ReadTaskFile
  <2> QED
    BY <1>3, <2>1, <2>2, EndKeeps DEF ReadTaskFile, pendingVars
<1>4. ASSUME NEW v \in Viewers, WriteTaskFile(v)
      PROVE  PreviewInv'
  <2>1. v \in Previewers
    BY DEF Previewers
  <2> QED
    BY <1>4, <2>1, EndKeeps DEF WriteTaskFile, pendingVars
<1>5. ASSUME UNCHANGED <<pending, edits, context, preview, results, blind, faulty>>
      PROVE  PreviewInv'
  <2>1. PreviewTypes' /\ PreviewIsComplete'
    BY <1>5 DEF PreviewInv, PreviewTypes, PreviewIsComplete, WaitingIn, TargetsOf
  <2>2. \A t \in Previewers : Caused(t)'
    BY <1>5 DEF PreviewInv, Caused
  <2>3. edits' = 0 => \A t \in Previewers : Gathered(t)' /\ Accounted(t)'
    BY <1>5 DEF PreviewInv, Gathered, Accounted, Underway, InHand, DeviceTargets, TargetsOf,
                CurrentDevice, WaitingIn, Before
  <2> QED
    BY <2>1, <2>2, <2>3 DEF PreviewInv
<1>6. ASSUME NEW v \in Viewers, EvictTaskFile(v)
      PROVE  PreviewInv'
  BY <1>5, <1>6 DEF EvictTaskFile, pendingVars
<1>7. ASSUME NEW r \in Targets, EditPending(r), UNCHANGED <<context, preview, results, task,
                                                            blind, faulty>>
      PROVE  PreviewInv'
  BY <1>7, EditKeeps
<1>8. CASE UNCHANGED previewVars
  BY <1>5, <1>8 DEF previewVars, pendingVars
<1> QED
  BY <1>1, <1>2, <1>3, <1>4, <1>6, <1>7, <1>8 DEF PreviewsNext

(* The previews, their inductive invariant.                                  *)
THEOREM PreviewsInvariance == PreviewsSpec => []PreviewInv
<1> QED
  BY PreviewsStart, PreviewsStep, PTL DEF PreviewsSpec

(* A preview without an error that was not misled by a swallowed failure or  *)
(* by another preview shows everything that is pending on its device, none   *)
(* shows what is not, and an error has a cause (get_install_preview).        *)
THEOREM PreviewCorrect == PreviewsSpec => []PreviewIsComplete
<1>1. PreviewInv => PreviewIsComplete
  BY DEF PreviewInv
<1> QED
  BY <1>1, PreviewsInvariance, PTL

-----------------------------------------------------------------------------
(* Package change alerts *)

Actors == Evaluations \cup RuleEditors
ListOrder == DeviceLists \ {<< >>}
SentOf == [Packages -> SUBSET Pairs]
ARule == [exists : BOOLEAN, enabled : BOOLEAN, watched : SUBSET Packages, sent : SentOf]
AnAnswer == [device : Devices, status : {"ok", "no_changes", "pkg_pending_no_diff", "error"},
             diff : SUBSET Pairs]
ADue == [package : Packages, diff : SUBSET Pairs]
AlertPlaces == {"idle", "previewed", "lookup", "mail", "record", "save", "ended"}

AnEvaluation == [pc : AlertPlaces, devices : ListOrder, read : SUBSET AnAnswer, base : ARule,
                 keep : BOOLEAN, sent : SentOf, due : SUBSET ADue]

AlertTypes ==
    /\ pending \in [Targets -> Changes \cup {NoChange}]
    /\ rule \in ARule
    /\ lastAlert \in SentOf
    /\ evaluation \in [Actors -> AnEvaluation]

(* Each change that sent has was mailed.                                     *)
Mailed(sent) == \A p \in Packages : sent[p] # {} =>
    \E a \in alerts : a.package = p /\ a.diff = sent[p]

AllMailed ==
    /\ Mailed(rule.sent)
    /\ \A t \in Actors : Mailed(evaluation[t].sent) /\ Mailed(evaluation[t].base.sent)

(* What was mailed last, and still waits, is in sent.                        *)
Told(sent) == \A p \in Packages : lastAlert[p] # {} => sent[p] = lastAlert[p]

Busy(t) == evaluation[t].pc \in {"lookup", "mail", "record", "save"}
Telling(t) == evaluation[t].pc = "mail" \/ (evaluation[t].pc = "save" /\ ~evaluation[t].keep)

(* What was mailed last is what waits now.                                   *)
LastIsCurrent == \A p \in Packages : lastAlert[p] # {} => lastAlert[p] = DiffIn(ScopeOf(p))

(* A device that was read without an error is as it was read.                *)
Exact(t) == \A res \in evaluation[t].read : res.status # "error" =>
    /\ res.diff = WaitingIn(TargetsOf(res.device))
    /\ res.status # "ok" => res.diff = {}

Alone == \A t, u \in Evaluations : Busy(t) /\ Busy(u) => t = u

(* An evaluation knows what was mailed last, and so does the file when none  *)
(* is about to tell it.                                                      *)
Knows(t) ==
    /\ InEvaluation(t, "lookup") => Told(evaluation[t].base.sent)
    /\ Telling(t) => Told(evaluation[t].sent)
    /\ InEvaluation(t, "record") => evaluation[t].keep
    /\ evaluation[t].keep => evaluation[t].pc \in {"record", "save"}

FileKnows ==
    rule.exists /\ (\A t \in Evaluations : ~Telling(t)) => Told(rule.sent)

(* What is due to be mailed waits, and is not what was mailed last.          *)
DueIsNew(t) == InEvaluation(t, "mail") => \A a \in evaluation[t].due :
    /\ a.diff # {} /\ a.diff = DiffIn(ScopeOf(a.package))
    /\ lastAlert[a.package] # a.diff

(* A rule that was found deleted stays deleted.                              *)
Gone(t) == InEvaluation(t, "save") /\ ~evaluation[t].base.exists => ~rule.exists

Orderly ==
    /\ LastIsCurrent /\ Alone /\ FileKnows
    /\ \A t \in Evaluations : Exact(t) /\ Knows(t) /\ DueIsNew(t)
    /\ \A t \in Actors : Gone(t)

AlertInv == AlertTypes /\ AllMailed /\ (~misled => Orderly)

OnlyActor(t) == \A u \in Actors : u # t => evaluation'[u] = evaluation[u]

(* Nothing sent.                                                             *)
LEMMA NothingSent ==
  /\ Unsent \in SentOf /\ NoRule \in ARule /\ NoRule.sent = Unsent
  /\ Mailed(Unsent)
  BY DEF Unsent, SentOf, NoRule, ARule, Mailed

(* A thread that holds nothing.                                              *)
LEMMA HoldingIs ==
  ASSUME NEW pc \in AlertPlaces
  PROVE  /\ Holding(pc) \in AnEvaluation
         /\ Holding(pc).pc = pc /\ Holding(pc).read = {} /\ Holding(pc).base = NoRule
         /\ ~Holding(pc).keep /\ Holding(pc).sent = Unsent /\ Holding(pc).due = {}
<1>1. DeviceOrder \in ListOrder
  BY PendingAssumption DEF ListOrder, DeviceLists, Devices
<1> QED
  BY <1>1, NothingSent DEF Holding, AnEvaluation

(* The same with something to record.                                        *)
LEMMA KeepingIs ==
  ASSUME NEW pc \in AlertPlaces, NEW h, h = [Holding(pc) EXCEPT !.keep = TRUE]
  PROVE  /\ h \in AnEvaluation
         /\ h.pc = pc /\ h.read = {} /\ h.base = NoRule /\ h.keep
         /\ h.sent = Unsent /\ h.due = {}
<1>1. DeviceOrder \in ListOrder
  BY PendingAssumption DEF ListOrder, DeviceLists, Devices
<1> QED
  BY <1>1, NothingSent DEF Holding, AnEvaluation

(* An evaluation is replaced.                                                *)
LEMMA SetEvaluation ==
  ASSUME AlertTypes, NEW t \in Actors, NEW h \in AnEvaluation,
         evaluation' = [evaluation EXCEPT ![t] = h]
  PROVE  evaluation' \in [Actors -> AnEvaluation] /\ OnlyActor(t) /\ evaluation'[t] = h
  BY DEF AlertTypes, OnlyActor

(* What holds of an evaluation's fields.                                     *)
LEMMA EvaluationHas ==
  ASSUME AlertTypes, NEW t \in Actors
  PROVE  /\ evaluation[t] \in AnEvaluation
         /\ evaluation[t].pc \in AlertPlaces /\ evaluation[t].devices \in ListOrder
         /\ evaluation[t].read \in SUBSET AnAnswer /\ evaluation[t].base \in ARule
         /\ evaluation[t].sent \in SentOf /\ evaluation[t].due \in SUBSET ADue
  BY DEF AlertTypes, AnEvaluation

(* Another actor is as it was, when only t has moved.                        *)
LEMMA OthersAre ==
  ASSUME AlertTypes, NEW t \in Actors, OnlyActor(t), NEW u \in Actors, u # t,
         UNCHANGED <<pending, rule, alerts, lastAlert>>
  PROVE  /\ Mailed(evaluation[u].sent) => Mailed(evaluation[u].sent)'
         /\ Mailed(evaluation[u].base.sent) => Mailed(evaluation[u].base.sent)'
         /\ Exact(u) => Exact(u)'
         /\ Knows(u) => Knows(u)'
         /\ DueIsNew(u) => DueIsNew(u)'
         /\ Gone(u) => Gone(u)'
<1>1. evaluation'[u] = evaluation[u]
  BY DEF OnlyActor
<1>2. Exact(u) => Exact(u)'
  BY <1>1 DEF Exact, WaitingIn, TargetsOf
<1>3. Knows(u) => Knows(u)'
  BY <1>1 DEF Knows, InEvaluation, Told, Telling
<1>4. DueIsNew(u) => DueIsNew(u)'
  BY <1>1 DEF DueIsNew, InEvaluation, DiffIn, ScopeOf, WaitingIn
<1> QED
  BY <1>1, <1>2, <1>3, <1>4 DEF Mailed, Gone, InEvaluation

(* What remains to be shown of a step of t that leaves the rule, the alerts  *)
(* and what is pending alone.                                                *)
LEMMA QuietStep ==
  ASSUME AlertInv, NEW t \in Actors, evaluation' \in [Actors -> AnEvaluation], OnlyActor(t),
         UNCHANGED <<pending, rule, alerts, lastAlert>>,
         misled => misled',
         Mailed(evaluation'[t].sent), Mailed(evaluation'[t].base.sent),
         ~misled' => Gone(t)',
         (~misled' /\ t \in Evaluations) =>
            /\ Exact(t)' /\ Knows(t)' /\ DueIsNew(t)'
            /\ Busy(t)' => \A u \in Evaluations : Busy(u) => u = t
            /\ Telling(t) => Telling(t)'
  PROVE  AlertInv'
<1>1. AlertTypes /\ AllMailed
  BY DEF AlertInv
<1>2. AlertTypes'
  BY <1>1 DEF AlertTypes
<1>3. AllMailed'
  <2>1. Mailed(rule.sent)'
    BY <1>1 DEF AllMailed, Mailed
  <2>2. ASSUME NEW u \in Actors
        PROVE  Mailed(evaluation[u].sent)' /\ Mailed(evaluation[u].base.sent)'
    <3>1. CASE u = t
      BY <3>1 DEF Mailed
    <3>2. CASE u # t
      BY <1>1, <3>2, OthersAre DEF AllMailed
    <3> QED
      BY <3>1, <3>2
  <2> QED
    BY <2>1, <2>2 DEF AllMailed
<1>4. ASSUME ~misled'
      PROVE  Orderly'
  <2>1. Orderly
    BY <1>4 DEF AlertInv
  <2>2. LastIsCurrent'
    BY <2>1 DEF Orderly, LastIsCurrent, DiffIn, ScopeOf, WaitingIn
  <2>3. Evaluations \subseteq Actors
    BY DEF Actors
  <2>4. \A u \in Actors : u # t => (Busy(u)' <=> Busy(u)) /\ (Telling(u)' <=> Telling(u))
    BY DEF Busy, Telling, OnlyActor
  <2>5. Alone'
    BY <1>4, <2>1, <2>3, <2>4 DEF Orderly, Alone
  <2>6. FileKnows'
    <3> SUFFICES ASSUME rule'.exists, \A u \in Evaluations : ~Telling(u)'
                 PROVE  Told(rule.sent)'
      BY DEF FileKnows
    <3>1. \A u \in Evaluations : ~Telling(u)
      BY <1>4, <2>3, <2>4
    <3>2. Told(rule.sent)
      BY <2>1, <3>1 DEF Orderly, FileKnows
    <3> QED
      BY <3>2 DEF Told
  <2>7. \A u \in Evaluations : Exact(u)' /\ Knows(u)' /\ DueIsNew(u)'
    BY <1>1, <1>4, <2>1, <2>3, OthersAre DEF Orderly
  <2>8. \A u \in Actors : Gone(u)'
    BY <1>1, <1>4, <2>1, OthersAre DEF Orderly
  <2> QED
    BY <2>2, <2>5, <2>6, <2>7, <2>8 DEF Orderly
<1> QED
  BY <1>2, <1>3, <1>4 DEF AlertInv

(* A thread that ends holds nothing.                                         *)
LEMMA EndIs ==
  ASSUME AlertTypes, NEW t \in Actors, End(t)
  PROVE  /\ evaluation' \in [Actors -> AnEvaluation] /\ OnlyActor(t)
         /\ evaluation'[t].pc = "ended" /\ evaluation'[t].read = {}
         /\ evaluation'[t].base.sent = Unsent /\ ~evaluation'[t].keep
         /\ evaluation'[t].sent = Unsent
<1>1. "ended" \in AlertPlaces
  BY DEF AlertPlaces
<1>2. Holding("ended") \in AnEvaluation
  BY <1>1, HoldingIs
<1>3. evaluation' \in [Actors -> AnEvaluation] /\ OnlyActor(t) /\ evaluation'[t] = Holding("ended")
  BY <1>2, SetEvaluation DEF End
<1> QED
  BY <1>1, <1>3, HoldingIs, NothingSent

(* A thread that ends with nothing to tell, or misleads.                     *)
LEMMA EndKeepsAlerts ==
  ASSUME AlertInv, NEW t \in Actors, End(t), UNCHANGED <<pending, rule, alerts, lastAlert>>,
         misled => misled', t \in Evaluations /\ Telling(t) => misled'
  PROVE  AlertInv'
<1>1. AlertTypes
  BY DEF AlertInv
<1>2. /\ evaluation' \in [Actors -> AnEvaluation] /\ OnlyActor(t)
      /\ evaluation'[t].pc = "ended" /\ evaluation'[t].read = {}
      /\ evaluation'[t].base.sent = Unsent /\ ~evaluation'[t].keep
      /\ evaluation'[t].sent = Unsent
  BY <1>1, EndIs
<1>3. Mailed(evaluation'[t].sent) /\ Mailed(evaluation'[t].base.sent)
  BY <1>2, NothingSent
<1>4. Exact(t)' /\ Knows(t)' /\ DueIsNew(t)' /\ Gone(t)' /\ ~Busy(t)'
  BY <1>2 DEF Exact, Knows, DueIsNew, Gone, Busy, Telling, InEvaluation
<1> QED
  BY <1>2, <1>3, <1>4, QuietStep

(* A device is read, and the next is up.                                     *)
LEMMA ShownIs ==
  ASSUME AlertTypes, NEW t \in Actors, NEW res \in AnAnswer,
         evaluation' = [evaluation EXCEPT
            ![t].read = @ \cup {res},
            ![t].pc = IF Len(evaluation[t].devices) > 1 THEN "idle" ELSE "previewed",
            ![t].devices = IF Len(@) > 1 THEN Tail(@) ELSE @]
  PROVE  /\ evaluation' \in [Actors -> AnEvaluation] /\ OnlyActor(t)
         /\ evaluation'[t].pc \in {"idle", "previewed"}
         /\ evaluation'[t].read = evaluation[t].read \cup {res}
         /\ evaluation'[t].base = evaluation[t].base /\ evaluation'[t].keep = evaluation[t].keep
         /\ evaluation'[t].sent = evaluation[t].sent
<1> DEFINE pc == IF Len(evaluation[t].devices) > 1 THEN "idle" ELSE "previewed"
           rest == IF Len(evaluation[t].devices) > 1 THEN Tail(evaluation[t].devices)
                   ELSE evaluation[t].devices
           h == [evaluation[t] EXCEPT !.read = @ \cup {res}, !.pc = pc, !.devices = rest]
<1>1. evaluation' = [evaluation EXCEPT ![t] = h]
  BY EvaluationHas DEF AlertTypes, AnEvaluation
<1>2. pc \in {"idle", "previewed"} /\ pc \in AlertPlaces
  BY DEF AlertPlaces
<1>3. rest \in ListOrder
  <2>1. evaluation[t].devices \in Seq(Devices) /\ evaluation[t].devices # << >>
    BY EvaluationHas DEF ListOrder, DeviceLists
  <2>2. rest \in Seq(Devices) /\ rest # << >>
    BY <2>1, RestOf
  <2> QED
    BY <2>2 DEF ListOrder, DeviceLists
<1> HIDE DEF pc, rest
<1>4. /\ h \in AnEvaluation /\ h.pc = pc /\ h.read = evaluation[t].read \cup {res}
      /\ h.base = evaluation[t].base /\ h.keep = evaluation[t].keep
      /\ h.sent = evaluation[t].sent
  BY <1>2, <1>3, EvaluationHas DEF AnEvaluation
<1> HIDE DEF h
<1> QED
  BY <1>1, <1>2, <1>4, SetEvaluation

(* What is pending on a device, in part or in full, is an answer.            *)
LEMMA AnswerIs ==
  ASSUME AlertTypes, NEW t \in Actors, NEW diff, NEW status,
         diff \subseteq WaitingIn(TargetsOf(Head(evaluation[t].devices))),
         status \in {"ok", "no_changes", "pkg_pending_no_diff", "error"}
  PROVE  [device |-> Head(evaluation[t].devices), status |-> status, diff |-> diff] \in AnAnswer
<1>1. evaluation[t].devices \in Seq(Devices) /\ evaluation[t].devices # << >>
  BY EvaluationHas DEF ListOrder, DeviceLists
<1>2. Head(evaluation[t].devices) \in Devices
  BY <1>1
<1>3. WaitingIn(TargetsOf(Head(evaluation[t].devices))) \subseteq Pairs
  BY DEF AlertTypes, WaitingIn, TargetsOf, Pairs
<1> QED
  BY <1>2, <1>3 DEF AnAnswer

(* A preview shows what is pending, or says that it failed, or misleads.     *)
LEMMA PreviewDeviceKeeps ==
  ASSUME AlertInv, NEW t \in Evaluations, PreviewDevice(t)
  PROVE  AlertInv'
<1>1. AlertTypes /\ t \in Actors /\ Mailed(evaluation[t].sent) /\ Mailed(evaluation[t].base.sent)
  BY DEF AlertInv, AllMailed, Actors
<1> DEFINE d == Head(evaluation[t].devices)
           all == WaitingIn(TargetsOf(d))
           Answer(status, diff) == [device |-> d, status |-> status, diff |-> diff]
           Shown(res) == evaluation' = [evaluation EXCEPT
              ![t].read = @ \cup {res},
              ![t].pc = IF Len(evaluation[t].devices) > 1 THEN "idle" ELSE "previewed",
              ![t].devices = IF Len(@) > 1 THEN Tail(@) ELSE @]
<1>2. /\ \/ Shown(Answer(IF all = {} THEN "no_changes" ELSE "ok", all)) /\ NoMishap
         \/ Shown(Answer("error", {})) /\ Handled
         \/ \E some \in (SUBSET all) \ {all} :
               Shown(Answer(IF some = {} THEN "pkg_pending_no_diff" ELSE "ok", some)) /\ Misleading
      /\ InEvaluation(t, "idle")
      /\ UNCHANGED <<pending, rule, alerts, lastAlert>>
  BY DEF PreviewDevice, pendingVars
<1>3. PICK res \in AnAnswer :
         /\ Shown(res)
         /\ misled => misled'
         /\ ~misled' => /\ res.status # "error" => res.device = d /\ res.diff = all
                        /\ res.status \notin {"ok", "error"} => all = {}
  <2>1. CASE Shown(Answer(IF all = {} THEN "no_changes" ELSE "ok", all)) /\ NoMishap
    <3> DEFINE status == IF all = {} THEN "no_changes" ELSE "ok"
    <3>1. status \in {"ok", "no_changes"} /\ (status # "ok" => all = {})
      OBVIOUS
    <3>2. Shown(Answer(status, all)) /\ (misled => misled')
      BY <2>1 DEF NoMishap
    <3> HIDE DEF status
    <3>3. Answer(status, all) \in AnAnswer
      BY <1>1, <3>1, AnswerIs
    <3>4. /\ Answer(status, all).status = status /\ Answer(status, all).device = d
          /\ Answer(status, all).diff = all
      OBVIOUS
    <3> HIDE DEF Answer, Shown
    <3> QED
      BY <3>1, <3>2, <3>3, <3>4
  <2>2. CASE Shown(Answer("error", {})) /\ Handled
    <3>1. Answer("error", {}) \in AnAnswer
      BY <1>1, AnswerIs
    <3>2. Answer("error", {}).status = "error" /\ (misled => misled')
      BY <2>2 DEF Handled
    <3> HIDE DEF Answer, Shown
    <3> QED
      BY <2>2, <3>1, <3>2
  <2>3. ASSUME NEW some \in (SUBSET all) \ {all},
               Shown(Answer(IF some = {} THEN "pkg_pending_no_diff" ELSE "ok", some)), Misleading
        PROVE  \E res \in AnAnswer : /\ Shown(res) /\ (misled => misled') /\ misled'
    <3> DEFINE status == IF some = {} THEN "pkg_pending_no_diff" ELSE "ok"
    <3>1. status \in {"ok", "pkg_pending_no_diff"}
      OBVIOUS
    <3>2. Shown(Answer(status, some))
      BY <2>3
    <3> HIDE DEF status
    <3>3. Answer(status, some) \in AnAnswer
      BY <1>1, <3>1, AnswerIs
    <3> HIDE DEF Answer, Shown
    <3> QED
      BY <2>3, <3>2, <3>3 DEF Misleading
  <2> HIDE DEF Answer, Shown
  <2> QED
    BY <1>2, <2>1, <2>2, <2>3
<1>4. /\ evaluation' \in [Actors -> AnEvaluation] /\ OnlyActor(t)
      /\ evaluation'[t].pc \in {"idle", "previewed"}
      /\ evaluation'[t].read = evaluation[t].read \cup {res}
      /\ evaluation'[t].base = evaluation[t].base /\ evaluation'[t].keep = evaluation[t].keep
      /\ evaluation'[t].sent = evaluation[t].sent
  BY <1>1, <1>3, ShownIs
<1>5. ASSUME ~misled'
      PROVE  Exact(t)' /\ Knows(t)' /\ DueIsNew(t)' /\ Gone(t)' /\ ~Busy(t)' /\ ~Telling(t)
  <2>1. Exact(t) /\ Knows(t)
    BY <1>3, <1>5 DEF AlertInv, Orderly
  <2>2. Exact(t)'
    <3>1. \A q : WaitingIn(TargetsOf(q))' = WaitingIn(TargetsOf(q))
      BY <1>2 DEF WaitingIn, TargetsOf
    <3> QED
      BY <1>3, <1>4, <1>5, <2>1, <3>1 DEF Exact
  <2>3. ~evaluation[t].keep
    BY <1>2, <2>1 DEF Knows, InEvaluation
  <2> QED
    BY <1>2, <1>4, <2>2, <2>3 DEF Knows, DueIsNew, Gone, Busy, Telling, InEvaluation
<1>6. Mailed(evaluation'[t].sent) /\ Mailed(evaluation'[t].base.sent)
  BY <1>1, <1>4
<1> HIDE DEF d, all, Answer, Shown
<1> QED
  BY <1>1, <1>2, <1>3, <1>4, <1>5, <1>6, QuietStep

(* The rule that is read knows what was mailed last, if no other evaluation  *)
(* is about to tell it.                                                      *)
LEMMA ReadRulesKeeps ==
  ASSUME AlertInv, NEW t \in Evaluations, ReadRules(t)
  PROVE  AlertInv'
<1>1. AlertTypes /\ t \in Actors /\ AllMailed
  BY DEF AlertInv, Actors
<1>2. InEvaluation(t, "previewed") /\ UNCHANGED <<pending, rule, alerts, lastAlert>>
  BY DEF ReadRules, pendingVars
<1>3. misled => misled'
  BY DEF ReadRules
<1>4. CASE rule.exists /\ rule.enabled
  <2>1. evaluation' = [evaluation EXCEPT ![t].pc = "lookup", ![t].base = rule]
    BY <1>4 DEF ReadRules
  <2>2. "lookup" \in AlertPlaces /\ rule \in ARule
    BY <1>1 DEF AlertPlaces, AlertTypes
  <2>3. /\ evaluation' \in [Actors -> AnEvaluation] /\ OnlyActor(t)
        /\ evaluation'[t].pc = "lookup" /\ evaluation'[t].base = rule
        /\ evaluation'[t].read = evaluation[t].read
        /\ evaluation'[t].keep = evaluation[t].keep
        /\ evaluation'[t].sent = evaluation[t].sent
    BY <1>1, <2>1, <2>2 DEF AlertTypes, AnEvaluation, OnlyActor
  <2>4. Mailed(evaluation'[t].sent) /\ Mailed(evaluation'[t].base.sent)
    BY <1>1, <2>3 DEF AllMailed
  <2>5. ASSUME ~misled'
        PROVE  /\ Exact(t)' /\ Knows(t)' /\ DueIsNew(t)' /\ Gone(t)' /\ ~Telling(t)
               /\ \A u \in Evaluations : Busy(u) => u = t
    <3>1. Orderly
      BY <1>3, <2>5 DEF AlertInv
    <3>2. \A u \in Evaluations : u # t => ~Busy(u)
      BY <1>4, <2>5 DEF ReadRules, Busy
    <3>3. ~evaluation[t].keep
      BY <1>2, <3>1 DEF Orderly, Knows, InEvaluation
    <3>4. \A u \in Evaluations : ~Telling(u)
      BY <1>2, <3>2, <3>3 DEF Telling, Busy, InEvaluation
    <3>5. Told(rule.sent)
      BY <1>4, <3>1, <3>4 DEF Orderly, FileKnows
    <3>6. Told(evaluation[t].base.sent)'
      BY <1>2, <2>3, <3>5 DEF Told
    <3>7. Knows(t)'
      BY <2>3, <3>3, <3>6 DEF Knows, InEvaluation, Telling
    <3>8. Exact(t)'
      BY <1>2, <2>3, <3>1 DEF Orderly, Exact, WaitingIn, TargetsOf
    <3> QED
      BY <2>3, <3>2, <3>4, <3>7, <3>8 DEF DueIsNew, Gone, InEvaluation
  <2> QED
    BY <1>1, <1>2, <1>3, <2>3, <2>4, <2>5, QuietStep
<1>5. CASE ~(rule.exists /\ rule.enabled)
  <2>1. End(t)
    BY <1>5 DEF ReadRules
  <2>2. Telling(t) => misled'
    BY <1>2, <1>3 DEF AlertInv, Orderly, Knows, Telling, InEvaluation
  <2> QED
    BY <1>1, <1>2, <1>3, <2>1, <2>2, EndKeepsAlerts
<1> QED
  BY <1>4, <1>5

(* The failure is to be recorded, and nothing else.                          *)
LEMMA RecordIs ==
  ASSUME AlertTypes, NEW t \in Actors,
         evaluation' = [evaluation EXCEPT ![t] = [Holding("record") EXCEPT !.keep = TRUE]]
  PROVE  /\ evaluation' \in [Actors -> AnEvaluation] /\ OnlyActor(t)
         /\ evaluation'[t].pc = "record" /\ evaluation'[t].read = {}
         /\ evaluation'[t].base.sent = Unsent /\ evaluation'[t].keep
         /\ evaluation'[t].sent = Unsent
<1> DEFINE h == [Holding("record") EXCEPT !.keep = TRUE]
<1>1. "record" \in AlertPlaces
  BY DEF AlertPlaces
<1>2. evaluation' = [evaluation EXCEPT ![t] = h]
  OBVIOUS
<1>3. /\ h \in AnEvaluation
      /\ h.pc = "record" /\ h.read = {} /\ h.base = NoRule /\ h.keep
      /\ h.sent = Unsent
  BY <1>1, KeepingIs
<1> HIDE DEF h
<1> QED
  BY <1>2, <1>3, SetEvaluation, NothingSent

(* A lookup that fails keeps what was sent.                                  *)
LEMMA LookupFailsKeeps ==
  ASSUME AlertInv, NEW t \in Evaluations, LookupFails(t)
  PROVE  AlertInv'
<1>1. AlertTypes /\ t \in Actors
  BY DEF AlertInv, Actors
<1>2. /\ InEvaluation(t, "lookup") /\ UNCHANGED <<pending, rule, alerts, lastAlert>>
      /\ misled => misled'
  BY DEF LookupFails, pendingVars, Handled
<1>3. /\ evaluation' \in [Actors -> AnEvaluation] /\ OnlyActor(t)
      /\ evaluation'[t].pc = "record" /\ evaluation'[t].read = {}
      /\ evaluation'[t].base.sent = Unsent /\ evaluation'[t].keep
      /\ evaluation'[t].sent = Unsent
  BY <1>1, RecordIs DEF LookupFails
<1>4. Mailed(evaluation'[t].sent) /\ Mailed(evaluation'[t].base.sent)
  BY <1>3, NothingSent
<1>5. Exact(t)' /\ Knows(t)' /\ DueIsNew(t)' /\ Gone(t)'
  BY <1>3 DEF Exact, Knows, DueIsNew, Gone, InEvaluation, Telling
<1>6. ~misled' => \A u \in Evaluations : Busy(u) => u = t
  BY <1>2 DEF AlertInv, Orderly, Alone, Busy, InEvaluation
<1>7. ~Telling(t)
  BY <1>2 DEF Telling, InEvaluation
<1> QED
  BY <1>1, <1>2, <1>3, <1>4, <1>5, <1>6, <1>7, QuietStep

(* What was gathered for a package is what waits, when each of its devices   *)
(* was read.                                                                 *)
LEMMA DiffIsExact ==
  ASSUME NEW t, NEW S \in SUBSET Targets, Exact(t), ~HasUnreadable(t, S)
  PROVE  DiffOf(t, S) = DiffIn(S)
<1>1. ASSUME NEW x \in DiffOf(t, S)
      PROVE  x \in DiffIn(S)
  <2>1. PICK res \in evaluation[t].read : res.status = "ok" /\ x \in res.diff
    BY DEF DiffOf
  <2>2. x[1] \in S /\ x[2] \in PolicyChanges
    BY DEF DiffOf
  <2>3. x \in WaitingIn(TargetsOf(res.device))
    BY <2>1 DEF Exact
  <2>4. PICK r \in TargetsOf(res.device) : x = <<r, pending[r]>> /\ pending[r] # NoChange
    BY <2>3 DEF WaitingIn
  <2>5. x \in WaitingIn(S)
    BY <2>2, <2>4 DEF WaitingIn
  <2> QED
    BY <2>2, <2>5 DEF DiffIn
<1>2. ASSUME NEW x \in DiffIn(S)
      PROVE  x \in DiffOf(t, S)
  <2>1. PICK r \in S : x = <<r, pending[r]>> /\ pending[r] # NoChange
    BY DEF DiffIn, WaitingIn
  <2>2. x[1] \in S /\ x[2] \in PolicyChanges
    BY <2>1 DEF DiffIn
  <2>3. PICK res \in evaluation[t].read : res.device = OnDevice[r] /\ res.status # "error"
    BY DEF HasUnreadable
  <2>4. x \in WaitingIn(TargetsOf(res.device))
    BY <2>1, <2>3 DEF WaitingIn, TargetsOf
  <2>5. res.status = "ok" /\ x \in res.diff
    BY <2>3, <2>4 DEF Exact
  <2> QED
    BY <2>2, <2>3, <2>5 DEF DiffOf
<1> QED
  BY <1>1, <1>2

(* What a comparison makes of an evaluation.                                 *)
LEMMA CompareIs ==
  ASSUME AlertTypes, NEW t \in Actors, NEW found \in SUBSET Packages, NEW scope,
         Compare(t, found, scope)
  PROVE  /\ evaluation' \in [Actors -> AnEvaluation] /\ OnlyActor(t)
         /\ evaluation'[t].pc = "mail" /\ evaluation'[t].read = {}
         /\ evaluation'[t].base = NoRule /\ evaluation'[t].keep = evaluation[t].keep
         /\ \A p \in Packages :
               \/ evaluation'[t].sent[p] = evaluation[t].base.sent[p]
               \/ /\ evaluation'[t].sent[p] = {} /\ DiffOf(t, scope[p]) = {}
                  /\ ~HasUnreadable(t, scope[p])
         /\ \A a \in evaluation'[t].due :
               /\ a.package \in Packages /\ a.diff = DiffOf(t, scope[a.package])
               /\ ~HasUnreadable(t, scope[a.package])
               /\ a.diff # {} /\ a.diff # evaluation[t].base.sent[a.package]
<1> DEFINE known == {p \in found \cap evaluation[t].base.watched : ~HasUnreadable(t, scope[p])}
           last == evaluation[t].base.sent
           sent == [p \in Packages |->
                       IF p \in known /\ DiffOf(t, scope[p]) = {} THEN {} ELSE last[p]]
           due == {[package |-> p, diff |-> DiffOf(t, scope[p])] :
                       p \in {q \in known : DiffOf(t, scope[q]) \notin {{}, last[q]}}}
<1>1. evaluation' = [evaluation EXCEPT ![t].pc = "mail", ![t].read = {}, ![t].base = NoRule,
                                       ![t].sent = sent, ![t].due = due]
  BY DEF Compare
<1>2. \A S : DiffOf(t, S) \in SUBSET Pairs
  BY EvaluationHas DEF DiffOf, AnAnswer
<1>3. last \in SentOf
  BY EvaluationHas DEF ARule
<1>4. sent \in SentOf
  BY <1>2, <1>3 DEF SentOf
<1>5. known \subseteq Packages
  OBVIOUS
<1>6. due \in SUBSET ADue
  BY <1>2, <1>5 DEF ADue
<1>7. \A p \in Packages :
         \/ sent[p] = last[p]
         \/ sent[p] = {} /\ DiffOf(t, scope[p]) = {} /\ ~HasUnreadable(t, scope[p])
  OBVIOUS
<1>8. \A a \in due :
         /\ a.package \in Packages /\ a.diff = DiffOf(t, scope[a.package])
         /\ ~HasUnreadable(t, scope[a.package])
         /\ a.diff # {} /\ a.diff # last[a.package]
  BY <1>5
<1>9. "mail" \in AlertPlaces /\ NoRule \in ARule
  BY NothingSent DEF AlertPlaces
<1>10. last = evaluation[t].base.sent
  OBVIOUS
<1> DEFINE h == [evaluation[t] EXCEPT !.pc = "mail", !.read = {}, !.base = NoRule,
                                      !.sent = sent, !.due = due]
<1>11. evaluation' = [evaluation EXCEPT ![t] = h]
  <2> HIDE DEF sent, due
  <2> QED
    BY <1>1, EvaluationHas DEF AlertTypes, AnEvaluation
<1> HIDE DEF known, last, sent, due
<1>12. /\ h \in AnEvaluation /\ h.pc = "mail" /\ h.read = {} /\ h.base = NoRule
       /\ h.keep = evaluation[t].keep /\ h.sent = sent /\ h.due = due
  BY <1>4, <1>6, <1>9, EvaluationHas DEF AnEvaluation
<1> HIDE DEF h
<1>13. /\ evaluation' \in [Actors -> AnEvaluation] /\ OnlyActor(t) /\ evaluation'[t] = h
  BY <1>11, <1>12, SetEvaluation
<1> QED
  BY <1>7, <1>8, <1>10, <1>12, <1>13

(* Only what waits, and was not mailed last, becomes due.                    *)
LEMMA LookupKeeps ==
  ASSUME AlertInv, NEW t \in Evaluations, Lookup(t)
  PROVE  AlertInv'
<1>1. AlertTypes /\ t \in Actors /\ Mailed(evaluation[t].base.sent)
  BY DEF AlertInv, AllMailed, Actors
<1>2. InEvaluation(t, "lookup") /\ UNCHANGED <<pending, rule, alerts, lastAlert>>
  BY DEF Lookup, pendingVars
<1> DEFINE whole == [p \in Packages |-> ScopeOf(p)]
<1>3. PICK found, scope :
         /\ found \in SUBSET Packages
         /\ Compare(t, found, scope)
         /\ misled => misled'
         /\ ~misled' => scope = whole
  <2>1. CASE Compare(t, Packages, whole) /\ NoMishap
    BY <2>1 DEF NoMishap
  <2>2. CASE \E found \in (SUBSET Packages) \ {{}, Packages} : Compare(t, found, whole) /\ Handled
    BY <2>2 DEF Handled
  <2>3. ASSUME NEW p \in Packages, NEW some \in (SUBSET ScopeOf(p)) \ {ScopeOf(p)},
               Compare(t, Packages, [whole EXCEPT ![p] = some]) /\ Misleading
        PROVE  \E scope : /\ Compare(t, Packages, scope)
                          /\ misled'
    BY <2>3 DEF Misleading
  <2> HIDE DEF whole
  <2> QED
    BY <2>1, <2>2, <2>3 DEF Lookup, whole
<1>4. /\ evaluation' \in [Actors -> AnEvaluation] /\ OnlyActor(t)
      /\ evaluation'[t].pc = "mail" /\ evaluation'[t].read = {}
      /\ evaluation'[t].base = NoRule /\ evaluation'[t].keep = evaluation[t].keep
      /\ \A p \in Packages :
            \/ evaluation'[t].sent[p] = evaluation[t].base.sent[p]
            \/ /\ evaluation'[t].sent[p] = {} /\ DiffOf(t, scope[p]) = {}
               /\ ~HasUnreadable(t, scope[p])
      /\ \A a \in evaluation'[t].due :
            /\ a.package \in Packages /\ a.diff = DiffOf(t, scope[a.package])
            /\ ~HasUnreadable(t, scope[a.package])
            /\ a.diff # {} /\ a.diff # evaluation[t].base.sent[a.package]
  BY <1>1, <1>3, CompareIs
<1>5. Mailed(evaluation'[t].sent) /\ Mailed(evaluation'[t].base.sent)
  <2>1. Mailed(evaluation'[t].sent)
    BY <1>1, <1>4 DEF Mailed
  <2> QED
    BY <1>4, <2>1, NothingSent
<1>6. Gone(t)' /\ Exact(t)'
  BY <1>4 DEF Gone, Exact, InEvaluation
<1>7. ~Telling(t)
  BY <1>2 DEF Telling, InEvaluation
<1>8. ASSUME ~misled'
      PROVE  Knows(t)' /\ DueIsNew(t)' /\ \A u \in Evaluations : Busy(u) => u = t
  <2>1. LastIsCurrent /\ Alone /\ Exact(t) /\ Knows(t)
    BY <1>3, <1>8 DEF AlertInv, Orderly
  <2>2. \A u \in Evaluations : Busy(u) => u = t
    BY <1>2, <2>1 DEF Alone, Busy, InEvaluation
  <2>3. ~evaluation[t].keep /\ Told(evaluation[t].base.sent)
    BY <1>2, <2>1 DEF Knows, InEvaluation
  <2>4. \A p \in Packages : scope[p] = ScopeOf(p) /\ ScopeOf(p) \in SUBSET Targets
    BY <1>3, <1>8 DEF ScopeOf
  <2>5. \A p \in Packages : ~HasUnreadable(t, scope[p]) =>
           DiffOf(t, scope[p]) = DiffIn(ScopeOf(p))
    BY <2>1, <2>4, DiffIsExact
  <2>6. Told(evaluation'[t].sent)
    BY <1>4, <2>1, <2>3, <2>5 DEF Told, LastIsCurrent
  <2>7. Told(evaluation[t].sent)'
    BY <1>2, <2>6 DEF Told
  <2>8. Knows(t)'
    BY <1>4, <2>3, <2>7 DEF Knows, InEvaluation, Telling
  <2>9. \A a \in evaluation'[t].due : /\ a.diff # {} /\ a.diff = DiffIn(ScopeOf(a.package))
                                      /\ lastAlert[a.package] # a.diff
    BY <1>4, <2>3, <2>5 DEF Told
  <2>10. DueIsNew(t)'
    BY <1>2, <2>9 DEF DueIsNew, DiffIn, ScopeOf, WaitingIn
  <2> QED
    BY <2>2, <2>8, <2>10
<1> QED
  BY <1>1, <1>2, <1>3, <1>4, <1>5, <1>6, <1>7, <1>8, QuietStep

-----------------------------------------------------------------------------
(* The emails, and what is remembered of them *)

(* An email that is accepted.                                                *)
LEMMA MailKeeps ==
  ASSUME AlertInv, NEW t \in Evaluations, NEW a \in evaluation[t].due, Mail(t, a)
  PROVE  AlertInv'
<1>1. AlertTypes /\ t \in Actors /\ AllMailed
  BY DEF AlertInv, Actors
<1>2. a \in ADue /\ a.package \in Packages /\ a.diff \in SUBSET Pairs
  BY <1>1, EvaluationHas DEF ADue
<1>3. /\ InEvaluation(t, "mail") /\ pending' = pending /\ rule' = rule
      /\ alerts' = alerts \cup {[by |-> t, package |-> a.package, diff |-> a.diff]}
      /\ lastAlert' = [lastAlert EXCEPT ![a.package] = a.diff]
      /\ evaluation' = [evaluation EXCEPT ![t].due = @ \ {a}, ![t].sent[a.package] = a.diff]
      /\ misled' = misled
  BY DEF Mail, NoMishap, pendingVars
<1> DEFINE sent == [evaluation[t].sent EXCEPT ![a.package] = a.diff]
           due == evaluation[t].due \ {a}
           mail == [by |-> t, package |-> a.package, diff |-> a.diff]
           h == [evaluation[t] EXCEPT !.due = due, !.sent = sent]
<1>4. /\ sent \in SentOf /\ sent[a.package] = a.diff
      /\ \A p \in Packages : p # a.package => sent[p] = evaluation[t].sent[p]
  BY <1>1, <1>2, EvaluationHas DEF SentOf
<1>5. evaluation' = [evaluation EXCEPT ![t] = h]
  BY <1>1, <1>3, EvaluationHas DEF AlertTypes, AnEvaluation
<1> HIDE DEF sent
<1>6. /\ h \in AnEvaluation /\ h.pc = "mail" /\ h.sent = sent /\ h.due = due
      /\ h.base = evaluation[t].base /\ h.keep = evaluation[t].keep
      /\ h.read = evaluation[t].read
  BY <1>1, <1>3, <1>4, EvaluationHas DEF AnEvaluation, InEvaluation
<1> HIDE DEF h
<1>7. evaluation' \in [Actors -> AnEvaluation] /\ OnlyActor(t) /\ evaluation'[t] = h
  BY <1>1, <1>5, <1>6, SetEvaluation
<1>8. /\ lastAlert' \in SentOf /\ lastAlert'[a.package] = a.diff
      /\ \A p \in Packages : p # a.package => lastAlert'[p] = lastAlert[p]
  BY <1>1, <1>2, <1>3 DEF AlertTypes, SentOf
<1>9. AlertTypes'
  BY <1>1, <1>3, <1>7, <1>8 DEF AlertTypes
<1>10. mail \in alerts' /\ mail.package = a.package /\ mail.diff = a.diff /\ alerts \subseteq alerts'
  BY <1>3
<1>11. AllMailed'
  <2>1. \A s : Mailed(s) => Mailed(s)'
    BY <1>10 DEF Mailed
  <2>2. Mailed(rule.sent)'
    BY <1>1, <1>3, <2>1 DEF AllMailed, Mailed
  <2>3. ASSUME NEW u \in Actors
        PROVE  Mailed(evaluation[u].sent)' /\ Mailed(evaluation[u].base.sent)'
    <3>1. Mailed(evaluation[u].sent) /\ Mailed(evaluation[u].base.sent)
      BY <1>1 DEF AllMailed
    <3>2. CASE u # t
      BY <1>7, <1>10, <3>1, <3>2 DEF Mailed, OnlyActor
    <3>3. CASE u = t
      <4>1. Mailed(evaluation[t].base.sent)'
        BY <1>6, <1>7, <1>10, <3>1, <3>3 DEF Mailed
      <4>2. \A p \in Packages : sent[p] # {} =>
               \E b \in alerts' : b.package = p /\ b.diff = sent[p]
        BY <1>4, <1>10, <3>1, <3>3 DEF Mailed
      <4> QED
        BY <1>6, <1>7, <3>3, <4>1, <4>2 DEF Mailed
    <3> QED
      BY <3>2, <3>3
  <2> QED
    BY <2>2, <2>3 DEF AllMailed
<1>12. ASSUME ~misled'
       PROVE  Orderly'
  <2>1. Orderly
    BY <1>3, <1>12 DEF AlertInv
  <2>2. \A p : DiffIn(ScopeOf(p))' = DiffIn(ScopeOf(p))
    BY <1>3 DEF DiffIn, ScopeOf, WaitingIn
  <2>3. /\ a.diff # {} /\ a.diff = DiffIn(ScopeOf(a.package))
        /\ lastAlert[a.package] # a.diff
    BY <1>3, <2>1 DEF Orderly, DueIsNew
  <2>4. LastIsCurrent'
    BY <1>8, <2>1, <2>2, <2>3 DEF Orderly, LastIsCurrent
  <2>5. \A u \in Actors : /\ evaluation'[u].pc = evaluation[u].pc
                          /\ evaluation'[u].keep = evaluation[u].keep
                          /\ evaluation'[u].base = evaluation[u].base
                          /\ evaluation'[u].read = evaluation[u].read
    BY <1>3, <1>6, <1>7 DEF OnlyActor, InEvaluation
  <2>6. Evaluations \subseteq Actors
    BY DEF Actors
  <2>7. \A u \in Evaluations : (Busy(u)' <=> Busy(u)) /\ (Telling(u)' <=> Telling(u))
    BY <2>5, <2>6 DEF Busy, Telling
  <2>8. Alone'
    BY <2>1, <2>7 DEF Orderly, Alone
  <2>9. Telling(t) /\ Busy(t)
    BY <1>3 DEF Telling, Busy, InEvaluation
  <2>10. FileKnows'
    BY <2>7, <2>9 DEF FileKnows
  <2>11. \A u \in Actors : Gone(u)'
    BY <1>3, <2>1, <2>5 DEF Orderly, Gone, InEvaluation
  <2>12. ASSUME NEW u \in Evaluations
         PROVE  Exact(u)' /\ Knows(u)' /\ DueIsNew(u)'
    <3>1. Exact(u) /\ Knows(u) /\ DueIsNew(u)
      BY <2>1 DEF Orderly
    <3>2. Exact(u)'
      BY <1>3, <2>5, <2>6, <3>1 DEF Exact, WaitingIn, TargetsOf
    <3>3. CASE u # t
      <4>1. ~Busy(u)
        BY <2>1, <2>9, <3>3 DEF Orderly, Alone
      <4>2. Knows(u)'
        BY <2>5, <2>6, <3>1, <4>1 DEF Knows, InEvaluation, Telling, Busy
      <4>3. DueIsNew(u)'
        BY <2>5, <2>6, <4>1 DEF DueIsNew, InEvaluation, Busy
      <4> QED
        BY <3>2, <4>2, <4>3
    <3>4. CASE u = t
      <4>1. Told(evaluation[t].sent)
        BY <2>9, <3>1, <3>4 DEF Knows
      <4>2. Told(evaluation[t].sent)'
        BY <1>4, <1>6, <1>7, <1>8, <4>1 DEF Told
      <4>3. Knows(t)'
        BY <1>3, <2>5, <2>6, <3>1, <3>4, <4>2 DEF Knows, InEvaluation
      <4>4. \A b \in due : /\ b.diff # {} /\ b.diff = DiffIn(ScopeOf(b.package))
                           /\ lastAlert'[b.package] # b.diff
        <5> SUFFICES ASSUME NEW b \in due
                     PROVE  /\ b.diff # {} /\ b.diff = DiffIn(ScopeOf(b.package))
                            /\ lastAlert'[b.package] # b.diff
          OBVIOUS
        <5>1. b \in evaluation[t].due /\ b # a /\ b \in ADue /\ b.package \in Packages
          BY <1>1, EvaluationHas DEF ADue
        <5>2. /\ b.diff # {} /\ b.diff = DiffIn(ScopeOf(b.package))
              /\ lastAlert[b.package] # b.diff
          BY <1>3, <3>1, <3>4, <5>1 DEF DueIsNew
        <5>3. b.package # a.package
          BY <1>2, <2>3, <5>1, <5>2 DEF ADue
        <5> QED
          BY <1>8, <5>1, <5>2, <5>3
      <4>5. DueIsNew(t)'
        BY <1>6, <1>7, <2>2, <4>4 DEF DueIsNew
      <4> QED
        BY <3>2, <3>4, <4>3, <4>5
    <3> QED
      BY <3>3, <3>4
  <2> QED
    BY <2>4, <2>8, <2>10, <2>11, <2>12 DEF Orderly
<1> QED
  BY <1>9, <1>11, <1>12 DEF AlertInv

(* Emails that are given up.                                                 *)
LEMMA FewerDue ==
  ASSUME AlertInv, NEW t \in Evaluations, NEW due \in SUBSET evaluation[t].due,
         InEvaluation(t, "mail"), evaluation' = [evaluation EXCEPT ![t].due = due],
         UNCHANGED <<pending, rule, alerts, lastAlert>>, misled => misled'
  PROVE  AlertInv'
<1>1. AlertTypes /\ t \in Actors /\ AllMailed
  BY DEF AlertInv, Actors
<1>2. due \in SUBSET ADue
  BY <1>1, EvaluationHas
<1>3. /\ evaluation' \in [Actors -> AnEvaluation] /\ OnlyActor(t)
      /\ evaluation'[t].pc = "mail" /\ evaluation'[t].due = due
      /\ evaluation'[t].base = evaluation[t].base /\ evaluation'[t].keep = evaluation[t].keep
      /\ evaluation'[t].sent = evaluation[t].sent /\ evaluation'[t].read = evaluation[t].read
  BY <1>1, <1>2 DEF AlertTypes, AnEvaluation, OnlyActor, InEvaluation
<1>4. Mailed(evaluation'[t].sent) /\ Mailed(evaluation'[t].base.sent)
  BY <1>1, <1>3 DEF AllMailed
<1>5. Telling(t)' /\ Gone(t)'
  BY <1>3 DEF Telling, Gone, InEvaluation
<1>6. ASSUME ~misled'
      PROVE  Exact(t)' /\ Knows(t)' /\ DueIsNew(t)' /\ \A u \in Evaluations : Busy(u) => u = t
  <2>1. Alone /\ Exact(t) /\ Knows(t) /\ DueIsNew(t)
    BY <1>6 DEF AlertInv, Orderly
  <2>2. \A u \in Evaluations : Busy(u) => u = t
    BY <2>1 DEF Alone, Busy, InEvaluation
  <2>3. Exact(t)'
    BY <1>3, <2>1 DEF Exact, WaitingIn, TargetsOf
  <2>4. Knows(t)'
    BY <1>3, <2>1 DEF Knows, Told, Telling, InEvaluation
  <2>5. DueIsNew(t)'
    BY <1>3, <2>1 DEF DueIsNew, InEvaluation, DiffIn, ScopeOf, WaitingIn
  <2> QED
    BY <2>2, <2>3, <2>4, <2>5
<1> QED
  BY <1>1, <1>3, <1>4, <1>5, <1>6, QuietStep

(* A refused email is not marked.                                            *)
LEMMA MailFailsKeeps ==
  ASSUME AlertInv, NEW t \in Evaluations, NEW a \in evaluation[t].due, MailFails(t, a)
  PROVE  AlertInv'
<1> DEFINE due == evaluation[t].due \ {a}
<1>1. /\ InEvaluation(t, "mail") /\ UNCHANGED <<pending, rule, alerts, lastAlert>>
      /\ misled => misled'
  BY DEF MailFails, Handled, pendingVars
<1>2. evaluation' = [evaluation EXCEPT ![t].due = due]
  BY DEF MailFails
<1>3. due \in SUBSET evaluation[t].due
  OBVIOUS
<1> HIDE DEF due
<1> QED
  BY <1>1, <1>2, <1>3, FewerDue

(* Without the reports there are no emails.                                  *)
LEMMA ReportsFailKeeps ==
  ASSUME AlertInv, NEW t \in Evaluations, ReportsFail(t)
  PROVE  AlertInv'
<1>1. /\ InEvaluation(t, "mail") /\ UNCHANGED <<pending, rule, alerts, lastAlert>>
      /\ (misled => misled') /\ evaluation' = [evaluation EXCEPT ![t].due = {}]
  BY DEF ReportsFail, Handled, pendingVars
<1>2. {} \in SUBSET evaluation[t].due
  OBVIOUS
<1> QED
  BY <1>1, <1>2, FewerDue

(* The rule is loaded as it is.                                              *)
LEMMA LoadRuleKeeps ==
  ASSUME AlertInv, NEW t \in Actors, LoadRule(t)
  PROVE  AlertInv'
<1>1. AlertTypes /\ AllMailed
  BY DEF AlertInv
<1>2. /\ UNCHANGED <<pending, rule, alerts, lastAlert>> /\ (misled => misled')
      /\ evaluation' = [evaluation EXCEPT ![t].pc = "save", ![t].base = rule]
      /\ t \in Evaluations => InEvaluation(t, "record") \/ InEvaluation(t, "mail")
  BY AlertsAssumption DEF LoadRule, NoMishap, pendingVars
<1>3. "save" \in AlertPlaces /\ rule \in ARule
  BY <1>1 DEF AlertPlaces, AlertTypes
<1>4. /\ evaluation' \in [Actors -> AnEvaluation] /\ OnlyActor(t)
      /\ evaluation'[t].pc = "save" /\ evaluation'[t].base = rule
      /\ evaluation'[t].keep = evaluation[t].keep
      /\ evaluation'[t].sent = evaluation[t].sent /\ evaluation'[t].read = evaluation[t].read
  BY <1>1, <1>2, <1>3 DEF AlertTypes, AnEvaluation, OnlyActor
<1>5. Mailed(evaluation'[t].sent) /\ Mailed(evaluation'[t].base.sent)
  BY <1>1, <1>4 DEF AllMailed
<1>6. Gone(t)' /\ DueIsNew(t)'
  BY <1>2, <1>4 DEF Gone, DueIsNew, InEvaluation
<1>7. ASSUME ~misled', t \in Evaluations
      PROVE  /\ Exact(t)' /\ Knows(t)' /\ (Telling(t) => Telling(t)')
             /\ \A u \in Evaluations : Busy(u) => u = t
  <2>1. Alone /\ Exact(t) /\ Knows(t)
    BY <1>2, <1>7 DEF AlertInv, Orderly
  <2>2. Busy(t)
    BY <1>2, <1>7 DEF Busy, InEvaluation
  <2>3. \A u \in Evaluations : Busy(u) => u = t
    BY <1>7, <2>1, <2>2 DEF Alone
  <2>4. Exact(t)'
    BY <1>2, <1>4, <2>1 DEF Exact, WaitingIn, TargetsOf
  <2>5. CASE InEvaluation(t, "record")
    <3>1. evaluation[t].keep
      BY <2>1, <2>5 DEF Knows
    <3>2. Knows(t)' /\ ~Telling(t)
      BY <1>4, <2>5, <3>1 DEF Knows, Telling, InEvaluation
    <3> QED
      BY <2>3, <2>4, <3>2
  <2>6. CASE InEvaluation(t, "mail")
    <3>1. ~evaluation[t].keep /\ Told(evaluation[t].sent)
      BY <2>1, <2>6 DEF Knows, Telling, InEvaluation
    <3>2. Told(evaluation[t].sent)'
      BY <1>2, <1>4, <3>1 DEF Told
    <3>3. Knows(t)' /\ Telling(t)'
      BY <1>4, <3>1, <3>2 DEF Knows, Telling, InEvaluation
    <3> QED
      BY <2>3, <2>4, <3>3
  <2> QED
    BY <1>2, <1>7, <2>5, <2>6
<1> QED
  BY <1>1, <1>2, <1>4, <1>5, <1>6, <1>7, QuietStep

(* A rule that is written over the one that was read, by an evaluation that  *)
(* knows what was sent, or by another that leaves that or deletes the rule.  *)
LEMMA WriteRuleKeeps ==
  ASSUME AlertInv, NEW t \in Actors, NEW new \in ARule, WriteRule(t, new),
         evaluation[t].base.exists, Mailed(new.sent),
         new.exists => \/ new.sent = evaluation[t].base.sent /\ (t \notin Evaluations \/ ~Telling(t))
                       \/ new.sent = evaluation[t].sent /\ t \in Evaluations /\ Telling(t)
  PROVE  AlertInv'
<1>1. AlertTypes /\ AllMailed
  BY DEF AlertInv
<1>2. /\ InEvaluation(t, "save") /\ rule' = new /\ End(t)
      /\ pending' = pending /\ alerts' = alerts /\ lastAlert' = lastAlert
      /\ misled => misled'
      /\ ~misled' => evaluation[t].base = rule
  BY DEF WriteRule, pendingVars
<1>3. /\ evaluation' \in [Actors -> AnEvaluation] /\ OnlyActor(t)
      /\ evaluation'[t].pc = "ended" /\ evaluation'[t].read = {}
      /\ evaluation'[t].base.sent = Unsent /\ ~evaluation'[t].keep
      /\ evaluation'[t].sent = Unsent
  BY <1>1, <1>2, EndIs
<1>4. AlertTypes'
  BY <1>1, <1>2, <1>3 DEF AlertTypes
<1>5. AllMailed'
  <2>1. Mailed(rule.sent)'
    BY <1>2 DEF Mailed
  <2>2. ASSUME NEW u \in Actors
        PROVE  Mailed(evaluation[u].sent)' /\ Mailed(evaluation[u].base.sent)'
    <3>1. CASE u = t
      <4>1. Mailed(Unsent)'
        BY <1>2, NothingSent DEF Mailed, Unsent
      <4> QED
        BY <1>2, <1>3, <3>1, <4>1, NothingSent DEF Mailed
    <3>2. CASE u # t
      BY <1>1, <1>2, <1>3, <3>2 DEF AllMailed, Mailed, OnlyActor
    <3> QED
      BY <3>1, <3>2
  <2> QED
    BY <2>1, <2>2 DEF AllMailed
<1>6. ASSUME ~misled'
      PROVE  Orderly'
  <2>1. Orderly /\ evaluation[t].base = rule
    BY <1>2, <1>6 DEF AlertInv
  <2>2. Evaluations \subseteq Actors
    BY DEF Actors
  <2>3. LastIsCurrent'
    BY <1>2, <2>1 DEF Orderly, LastIsCurrent, DiffIn, ScopeOf, WaitingIn
  <2>4. /\ ~Busy(t)' /\ ~Telling(t)'
        /\ \A u \in Actors : u # t => (Busy(u)' <=> Busy(u)) /\ (Telling(u)' <=> Telling(u))
    BY <1>3 DEF Busy, Telling, OnlyActor
  <2>5. Alone'
    BY <2>1, <2>2, <2>4 DEF Orderly, Alone
  <2>6. FileKnows'
    <3> SUFFICES ASSUME new.exists, \A u \in Evaluations : ~Telling(u)'
                 PROVE  Told(new.sent)
      BY <1>2 DEF FileKnows, Told
    <3>1. CASE new.sent = evaluation[t].base.sent /\ (t \notin Evaluations \/ ~Telling(t))
      <4>1. \A u \in Evaluations : ~Telling(u)
        BY <2>2, <2>4, <3>1
      <4>2. Told(rule.sent)
        BY <2>1, <4>1 DEF Orderly, FileKnows
      <4> QED
        BY <2>1, <3>1, <4>2
    <3>2. CASE new.sent = evaluation[t].sent /\ t \in Evaluations /\ Telling(t)
      BY <2>1, <3>2 DEF Orderly, Knows
    <3> QED
      BY <3>1, <3>2
  <2>7. ASSUME NEW u \in Evaluations
        PROVE  Exact(u)' /\ Knows(u)' /\ DueIsNew(u)'
    <3>1. CASE u = t
      BY <1>3, <3>1 DEF Exact, Knows, DueIsNew, Telling, InEvaluation
    <3>2. CASE u # t
      <4>1. Exact(u) /\ Knows(u) /\ DueIsNew(u) /\ evaluation'[u] = evaluation[u]
        BY <1>3, <2>1, <2>2, <3>2 DEF Orderly, OnlyActor
      <4>2. Exact(u)'
        BY <1>2, <4>1 DEF Exact, WaitingIn, TargetsOf
      <4>3. Knows(u)'
        BY <1>2, <4>1 DEF Knows, InEvaluation, Told, Telling
      <4>4. DueIsNew(u)'
        BY <1>2, <4>1 DEF DueIsNew, InEvaluation, DiffIn, ScopeOf, WaitingIn
      <4> QED
        BY <4>2, <4>3, <4>4
    <3> QED
      BY <3>1, <3>2
  <2>8. ASSUME NEW u \in Actors
        PROVE  Gone(u)'
    <3>1. CASE u = t
      BY <1>3, <3>1 DEF Gone, InEvaluation
    <3>2. CASE u # t
      BY <1>2, <1>3, <2>1, <3>2 DEF Orderly, Gone, InEvaluation, OnlyActor
    <3> QED
      BY <3>1, <3>2
  <2> QED
    BY <2>3, <2>5, <2>6, <2>7, <2>8 DEF Orderly
<1> QED
  BY <1>4, <1>5, <1>6 DEF AlertInv

(* An evaluation saves what it was told, or leaves it as it was.             *)
LEMMA SaveStateKeeps ==
  ASSUME AlertInv, NEW t \in Evaluations, SaveState(t)
  PROVE  AlertInv'
<1>1. AlertTypes /\ t \in Actors /\ AllMailed
  BY DEF AlertInv, Actors
<1>2. CASE evaluation[t].base.exists
  <2> DEFINE new == IF evaluation[t].keep THEN evaluation[t].base
                    ELSE [evaluation[t].base EXCEPT !.sent = evaluation[t].sent]
  <2>1. WriteRule(t, new) /\ InEvaluation(t, "save")
    BY <1>2 DEF SaveState, WriteRule
  <2>2. CASE evaluation[t].keep
    <3>1. WriteRule(t, evaluation[t].base) /\ evaluation[t].base \in ARule
      BY <1>1, <2>1, <2>2, EvaluationHas
    <3>2. Mailed(evaluation[t].base.sent) /\ ~Telling(t)
      BY <1>1, <2>1, <2>2 DEF AllMailed, Telling, InEvaluation
    <3> QED
      BY <1>1, <1>2, <3>1, <3>2, WriteRuleKeeps
  <2>3. CASE ~evaluation[t].keep
    <3> DEFINE saved == [evaluation[t].base EXCEPT !.sent = evaluation[t].sent]
    <3>1. WriteRule(t, saved)
      BY <2>1, <2>3
    <3>2. saved \in ARule /\ saved.sent = evaluation[t].sent
      BY <1>1, EvaluationHas DEF ARule
    <3>3. Telling(t) /\ Mailed(evaluation[t].sent)
      BY <1>1, <2>1, <2>3 DEF AllMailed, Telling, InEvaluation
    <3> HIDE DEF saved
    <3> QED
      BY <1>1, <1>2, <3>1, <3>2, <3>3, WriteRuleKeeps
  <2> QED
    BY <2>2, <2>3
<1>3. CASE ~evaluation[t].base.exists
  <2>1. /\ InEvaluation(t, "save") /\ End(t) /\ (misled => misled')
        /\ UNCHANGED <<pending, rule, alerts, lastAlert>>
    BY <1>3 DEF SaveState, NoMishap, pendingVars
  <2>2. /\ evaluation' \in [Actors -> AnEvaluation] /\ OnlyActor(t)
        /\ evaluation'[t].pc = "ended" /\ evaluation'[t].read = {}
        /\ evaluation'[t].base.sent = Unsent /\ ~evaluation'[t].keep
        /\ evaluation'[t].sent = Unsent
    BY <1>1, <2>1, EndIs
  <2>3. AlertTypes'
    BY <1>1, <2>1, <2>2 DEF AlertTypes
  <2>4. AllMailed'
    <3>1. Mailed(rule.sent)'
      BY <1>1, <2>1 DEF AllMailed, Mailed
    <3>2. ASSUME NEW u \in Actors
          PROVE  Mailed(evaluation[u].sent)' /\ Mailed(evaluation[u].base.sent)'
      <4>1. CASE u = t
        <5>1. Mailed(evaluation'[t].sent) /\ Mailed(evaluation'[t].base.sent)
          BY <2>2, NothingSent
        <5> QED
          BY <2>1, <4>1, <5>1 DEF Mailed
      <4>2. CASE u # t
        BY <1>1, <2>1, <2>2, <4>2, OthersAre DEF AllMailed
      <4> QED
        BY <4>1, <4>2
    <3> QED
      BY <3>1, <3>2 DEF AllMailed
  <2>5. ASSUME ~misled'
        PROVE  Orderly'
    <3>1. Orderly /\ ~rule.exists
      BY <1>1, <1>3, <2>1, <2>5 DEF AlertInv, Orderly, Gone
    <3>2. Evaluations \subseteq Actors
      BY DEF Actors
    <3>3. LastIsCurrent'
      BY <2>1, <3>1 DEF Orderly, LastIsCurrent, DiffIn, ScopeOf, WaitingIn
    <3>4. ~Busy(t)' /\ \A u \in Actors : u # t => (Busy(u)' <=> Busy(u))
      BY <2>2 DEF Busy, OnlyActor
    <3>5. Alone'
      BY <3>1, <3>2, <3>4 DEF Orderly, Alone
    <3>6. FileKnows'
      BY <2>1, <3>1 DEF FileKnows
    <3>7. ASSUME NEW u \in Evaluations
          PROVE  Exact(u)' /\ Knows(u)' /\ DueIsNew(u)'
      <4>1. CASE u = t
        BY <2>2, <4>1 DEF Exact, Knows, DueIsNew, Telling, InEvaluation
      <4>2. CASE u # t
        BY <1>1, <2>1, <2>2, <3>1, <3>2, <4>2, OthersAre DEF Orderly
      <4> QED
        BY <4>1, <4>2
    <3>8. \A u \in Actors : Gone(u)'
      BY <2>1, <3>1 DEF Gone
    <3> QED
      BY <3>3, <3>5, <3>6, <3>7, <3>8 DEF Orderly
  <2> QED
    BY <2>3, <2>4, <2>5 DEF AlertInv
<1> QED
  BY <1>2, <1>3

(* A rule that cannot be saved misleads the next evaluation.                 *)
LEMMA SaveStateFailsKeeps ==
  ASSUME AlertInv, NEW t \in Evaluations, SaveStateFails(t)
  PROVE  AlertInv'
<1>1. AlertTypes /\ t \in Actors
  BY DEF AlertInv, Actors
<1>2. /\ UNCHANGED <<pending, rule, alerts, lastAlert>> /\ misled'
  BY DEF SaveStateFails, Misleading, pendingVars
<1>3. CASE evaluation[t].keep
  <2>1. End(t)
    BY <1>3 DEF SaveStateFails
  <2> QED
    BY <1>1, <1>2, <2>1, EndKeepsAlerts
<1>4. CASE ~evaluation[t].keep
  <2>1. /\ evaluation' \in [Actors -> AnEvaluation] /\ OnlyActor(t)
        /\ evaluation'[t].base.sent = Unsent /\ evaluation'[t].sent = Unsent
    BY <1>1, <1>4, RecordIs DEF SaveStateFails
  <2>2. Mailed(evaluation'[t].sent) /\ Mailed(evaluation'[t].base.sent)
    BY <2>1, NothingSent
  <2> QED
    BY <1>1, <1>2, <2>1, <2>2, QuietStep
<1> QED
  BY <1>3, <1>4

(* An editor leaves what was sent, or deletes it with the rule.              *)
LEMMA SaveRuleKeeps ==
  ASSUME AlertInv, NEW t \in RuleEditors, SaveRule(t)
  PROVE  AlertInv'
<1>1. AlertTypes /\ t \in Actors /\ t \notin Evaluations /\ AllMailed
  BY AlertsAssumption DEF AlertInv, Actors
<1>2. evaluation[t].base.exists /\ evaluation[t].base \in ARule /\ Mailed(evaluation[t].base.sent)
  BY <1>1, EvaluationHas DEF SaveRule, AllMailed
<1>3. ASSUME NEW new \in ARule, WriteRule(t, new), new.sent = evaluation[t].base.sent
      PROVE  AlertInv'
  BY <1>1, <1>2, <1>3, WriteRuleKeeps
<1>4. CASE WriteRule(t, [evaluation[t].base EXCEPT !.enabled = FALSE])
  <2> DEFINE new == [evaluation[t].base EXCEPT !.enabled = FALSE]
  <2>1. new \in ARule /\ new.sent = evaluation[t].base.sent
    BY <1>2 DEF ARule
  <2>2. WriteRule(t, new)
    BY <1>4
  <2> HIDE DEF new
  <2> QED
    BY <1>3, <2>1, <2>2
<1>5. ASSUME NEW p \in Packages, WriteRule(t, [evaluation[t].base EXCEPT !.watched = {p}])
      PROVE  AlertInv'
  <2> DEFINE new == [evaluation[t].base EXCEPT !.watched = {p}]
  <2>1. new \in ARule /\ new.sent = evaluation[t].base.sent
    BY <1>2 DEF ARule
  <2>2. WriteRule(t, new)
    BY <1>5
  <2> HIDE DEF new
  <2> QED
    BY <1>3, <2>1, <2>2
<1>6. CASE WriteRule(t, [evaluation[t].base EXCEPT !.exists = FALSE, !.sent = Unsent])
  <2> DEFINE new == [evaluation[t].base EXCEPT !.exists = FALSE, !.sent = Unsent]
  <2>1. new \in ARule /\ new.sent = Unsent /\ ~new.exists
    BY <1>2, NothingSent DEF ARule
  <2>2. WriteRule(t, new)
    BY <1>6
  <2> HIDE DEF new
  <2> QED
    BY <1>1, <1>2, <2>1, <2>2, NothingSent, WriteRuleKeeps
<1> QED
  BY <1>4, <1>5, <1>6 DEF SaveRule

(* A thread that dies misleads the next evaluation.                          *)
LEMMA EvaluationDiesKeeps ==
  ASSUME AlertInv, NEW t \in Evaluations, EvaluationDies(t)
  PROVE  AlertInv'
<1>1. /\ End(t) /\ UNCHANGED <<pending, rule, alerts, lastAlert>> /\ misled' /\ t \in Actors
  BY DEF EvaluationDies, Misleading, pendingVars, Actors
<1> QED
  BY <1>1, EndKeepsAlerts

(* A pending change changes, of which nothing was mailed, then.              *)
LEMMA ChangeEditedKeeps ==
  ASSUME AlertInv, NEW r \in Targets, ChangeEdited(r)
  PROVE  AlertInv'
<1>1. AlertTypes /\ AllMailed
  BY DEF AlertInv
<1>2. /\ rule' = rule /\ evaluation' = evaluation /\ alerts' = alerts
      /\ lastAlert' = [lastAlert EXCEPT ![AssignedTo[r]] = {}]
      /\ misled => misled'
      /\ ~misled' => \A t \in Evaluations : evaluation[t] \in {Holding("idle"), Holding("ended")}
  BY DEF ChangeEdited
<1>3. PICK c \in Changes \cup {NoChange} : pending' = [pending EXCEPT ![r] = c]
  BY DEF ChangeEdited, EditPending
<1>4. /\ AssignedTo[r] \in Packages
      /\ lastAlert' \in SentOf /\ lastAlert'[AssignedTo[r]] = {}
      /\ \A p \in Packages : p # AssignedTo[r] => lastAlert'[p] = lastAlert[p]
  BY <1>1, <1>2 DEF AlertTypes, SentOf, Packages
<1>5. AlertTypes'
  BY <1>1, <1>2, <1>3, <1>4 DEF AlertTypes
<1>6. AllMailed'
  BY <1>1, <1>2 DEF AllMailed, Mailed
<1>7. ASSUME ~misled'
      PROVE  Orderly'
  <2>1. Orderly
    BY <1>2, <1>7 DEF AlertInv
  <2>2. \A p \in Packages : p # AssignedTo[r] => DiffIn(ScopeOf(p))' = DiffIn(ScopeOf(p))
    <3> SUFFICES ASSUME NEW p \in Packages, p # AssignedTo[r]
                 PROVE  DiffIn(ScopeOf(p))' = DiffIn(ScopeOf(p))
      OBVIOUS
    <3>1. \A q \in ScopeOf(p) : pending'[q] = pending[q]
      BY <1>1, <1>3 DEF ScopeOf, AlertTypes
    <3>2. WaitingIn(ScopeOf(p))' = WaitingIn(ScopeOf(p))
      BY <3>1 DEF WaitingIn, ScopeOf
    <3> QED
      BY <3>2 DEF DiffIn
  <2>3. LastIsCurrent'
    BY <1>4, <2>1, <2>2 DEF Orderly, LastIsCurrent
  <2>4. \A s : Told(s) => Told(s)'
    BY <1>4 DEF Told
  <2>5. \A t \in Evaluations : /\ evaluation[t].read = {} /\ ~evaluation[t].keep
                               /\ evaluation[t].pc \in {"idle", "ended"}
    <3>1. "idle" \in AlertPlaces /\ "ended" \in AlertPlaces
      BY DEF AlertPlaces
    <3> QED
      BY <1>2, <1>7, <3>1, HoldingIs
  <2>6. \A t \in Evaluations : Exact(t)' /\ Knows(t)' /\ DueIsNew(t)' /\ ~Telling(t)
    BY <1>2, <2>5 DEF Exact, Knows, DueIsNew, Telling, InEvaluation
  <2>7. FileKnows'
    <3>1. rule.exists => Told(rule.sent)
      BY <2>1, <2>6 DEF Orderly, FileKnows
    <3> QED
      BY <1>2, <1>4, <3>1 DEF FileKnows, Told
  <2>8. Alone' /\ \A t \in Actors : Gone(t)'
    BY <1>2, <2>1 DEF Orderly, Alone, Busy, Gone, InEvaluation
  <2> QED
    BY <2>3, <2>6, <2>7, <2>8 DEF Orderly
<1> QED
  BY <1>5, <1>6, <1>7 DEF AlertInv

-----------------------------------------------------------------------------
(* At first, the rule knows what was mailed.                                 *)
LEMMA AlertsStart == AlertsInit => AlertInv
<1> SUFFICES ASSUME AlertsInit
             PROVE  AlertInv
  OBVIOUS
<1>1. "idle" \in AlertPlaces
  BY DEF AlertPlaces
<1>2. \A p \in Packages : DiffIn(ScopeOf(p)) \in SUBSET Pairs
  BY DEF AlertsInit, PendingInit, DiffIn, ScopeOf, WaitingIn, Pairs
<1>3. /\ lastAlert \in SentOf
      /\ \A p \in Packages : lastAlert[p] = {} \/ lastAlert[p] = DiffIn(ScopeOf(p))
  <2>1. CASE lastAlert = Unsent
    BY <2>1, NothingSent DEF Unsent
  <2>2. CASE lastAlert = [p \in Packages |-> DiffIn(ScopeOf(p))]
    BY <1>2, <2>2 DEF SentOf
  <2> QED
    BY <2>1, <2>2 DEF AlertsInit
<1>4. rule \in ARule /\ rule.sent = lastAlert
  BY <1>3 DEF AlertsInit, ARule
<1>5. evaluation = [t \in Actors |-> Holding("idle")]
  BY DEF AlertsInit, Actors
<1>6. /\ evaluation \in [Actors -> AnEvaluation]
      /\ \A t \in Actors : /\ evaluation[t].pc = "idle" /\ evaluation[t].read = {}
                           /\ evaluation[t].base.sent = Unsent /\ ~evaluation[t].keep
                           /\ evaluation[t].sent = Unsent
  BY <1>1, <1>5, HoldingIs, NothingSent
<1>7. AlertTypes
  BY <1>3, <1>4, <1>6 DEF AlertsInit, PendingInit, AlertTypes
<1>8. AllMailed
  <2>1. Mailed(rule.sent)
    <3> SUFFICES ASSUME NEW p \in Packages, lastAlert[p] # {}
                 PROVE  \E a \in alerts : a.package = p /\ a.diff = lastAlert[p]
      BY <1>4 DEF Mailed
    <3>1. [by |-> "earlier", package |-> p, diff |-> lastAlert[p]] \in alerts
      BY DEF AlertsInit
    <3> QED
      BY <3>1
  <2> QED
    BY <1>6, <2>1, NothingSent DEF AllMailed
<1>9. Orderly
  <2>1. LastIsCurrent
    BY <1>3 DEF LastIsCurrent
  <2>2. FileKnows
    BY <1>4 DEF FileKnows, Told
  <2>3. Alone /\ \A t \in Actors : Exact(t) /\ Knows(t) /\ DueIsNew(t) /\ Gone(t)
    BY <1>6 DEF Actors, Alone, Busy, Exact, Knows, DueIsNew, Gone, Telling, InEvaluation
  <2> QED
    BY <2>1, <2>2, <2>3 DEF Orderly, Actors
<1> QED
  BY <1>7, <1>8, <1>9 DEF AlertInv

(* Every step leaves the alerts right.                                       *)
LEMMA AlertsStep == AlertInv /\ [AlertsNext]_alertVars => AlertInv'
<1> SUFFICES ASSUME AlertInv, [AlertsNext]_alertVars
             PROVE  AlertInv'
  OBVIOUS
<1>1. ASSUME NEW t \in Evaluations,
             \/ PreviewDevice(t) \/ ReadRules(t) \/ LookupFails(t) \/ Lookup(t)
             \/ \E a \in evaluation[t].due : Mail(t, a) \/ MailFails(t, a)
             \/ ReportsFail(t) \/ SaveState(t) \/ SaveStateFails(t) \/ EvaluationDies(t)
      PROVE  AlertInv'
  BY <1>1, PreviewDeviceKeeps, ReadRulesKeeps, LookupFailsKeeps, LookupKeeps, MailKeeps,
     MailFailsKeeps, ReportsFailKeeps, SaveStateKeeps, SaveStateFailsKeeps,
     EvaluationDiesKeeps
<1>2. ASSUME NEW t \in Evaluations \cup RuleEditors, LoadRule(t)
      PROVE  AlertInv'
  BY <1>2, LoadRuleKeeps DEF Actors
<1>3. ASSUME NEW t \in RuleEditors, SaveRule(t)
      PROVE  AlertInv'
  BY <1>3, SaveRuleKeeps
<1>4. ASSUME NEW r \in Targets, ChangeEdited(r)
      PROVE  AlertInv'
  BY <1>4, ChangeEditedKeeps
<1>5. CASE UNCHANGED alertVars
  <2>1. AlertTypes' /\ AllMailed'
    BY <1>5 DEF alertVars, pendingVars, AlertInv, AlertTypes, AllMailed, Mailed
  <2>2. ~misled' => Orderly'
    <3> SUFFICES ASSUME ~misled'
                 PROVE  Orderly'
      OBVIOUS
    <3>1. Orderly
      BY <1>5 DEF alertVars, AlertInv
    <3> QED
      BY <1>5, <3>1 DEF alertVars, pendingVars, Orderly, LastIsCurrent, Alone, FileKnows,
         Exact, Knows, DueIsNew, Gone, Busy, Telling, Told, InEvaluation, DiffIn, ScopeOf,
         WaitingIn, TargetsOf
  <2> QED
    BY <2>1, <2>2 DEF AlertInv
<1> QED
  BY <1>1, <1>2, <1>3, <1>4, <1>5 DEF AlertsNext

(* The alerts, their inductive invariant.                                    *)
THEOREM AlertsInvariance == AlertsSpec => []AlertInv
<1> QED
  BY AlertsStart, AlertsStep, PTL DEF AlertsSpec

(* What a rule remembers as sent was mailed, whatever failed and whoever     *)
(* else wrote the rule (_evaluate_rule).                                     *)
THEOREM SentCorrect == AlertsSpec => []SentMeansMailed
<1>1. AlertInv => SentMeansMailed
  BY DEF AlertInv, AllMailed, Mailed, SentMeansMailed
<1> QED
  BY <1>1, AlertsInvariance, PTL

(* No pending change is mailed twice, unless an answer was short without an  *)
(* error, evaluations overlapped, a record was lost or the change changed    *)
(* (has_unreadable_targets, _evaluate_rule, _save_rule_state).               *)
THEOREM OnceCorrect == AlertsSpec => AlertedOnce
<1> DEFINE Once == \A a \in alerts' \ alerts : lastAlert[a.package] = a.diff => misled
<1>1. AlertInv /\ [AlertsNext]_alertVars => [Once]_alertVars
  <2> SUFFICES ASSUME AlertInv, AlertsNext, NEW a \in alerts' \ alerts,
                      lastAlert[a.package] = a.diff, ~misled
               PROVE  FALSE
    BY DEF alertVars
  <2>1. PICK t \in Evaluations : \E b \in evaluation[t].due : Mail(t, b)
    <3>1. alerts' # alerts
      OBVIOUS
    <3> QED
      BY <3>1 DEF AlertsNext, PreviewDevice, ReadRules, LookupFails, Lookup, MailFails,
         ReportsFail, LoadRule, SaveState, WriteRule, SaveStateFails, SaveRule,
         EvaluationDies, ChangeEdited
  <2>2. PICK b \in evaluation[t].due : Mail(t, b)
    BY <2>1
  <2>3. a = [by |-> t, package |-> b.package, diff |-> b.diff]
    BY <2>2 DEF Mail
  <2>4. lastAlert[b.package] # b.diff
    BY <2>2 DEF AlertInv, Orderly, DueIsNew, Mail
  <2> QED
    BY <2>3, <2>4
<1> QED
  BY <1>1, AlertsInvariance, PTL DEF AlertsSpec, AlertedOnce

-----------------------------------------------------------------------------
(* The settings of the backups and their jobs                               *)

BackupPlaces == {"idle", "create", "edit", "save", "begin", "write", "send", "succeeded",
                 "failed", "success", "failure", "recorded", "prune", "finally", "done"}
Remotes == {"none", "off", "failed", "whole", "partial"}
ARun == [by : Backupers, name : Nat, status : {"success", "failed"}, remote : Remotes]
JobSets == SUBSET (Creators \cup {First})
AConfig == [there : BOOLEAN, password : BOOLEAN, jobs : JobSets, runs : SUBSET ARun]
ABase == [there : BOOLEAN, password : BOOLEAN, jobs : JobSets, runs : SUBSET ARun,
          loaded : BOOLEAN, stale : BOOLEAN]
ADoing == [pc : BackupPlaces, base : ABase, name : Nat, remote : Remotes,
           after : SUBSET Backupers]
AnArchive == [name : Nat, writers : SUBSET Backupers, whole : BOOLEAN]

BackupTypes ==
    /\ config \in AConfig
    /\ defaults \in [Processes -> SUBSET Creators]
    /\ doing \in [Threads -> ADoing]
    /\ directory \in Seq(AnArchive)
    /\ minute \in Nat \ {0}
    /\ outcomes \in [done : SUBSET Threads, failed : SUBSET Creators]
    /\ closed \in SUBSET Backupers
    /\ crossed \in BOOLEAN

(* Nothing else of the threads changes.                                      *)
OnlyThread(t) == \A u \in Threads : u # t => doing'[u] = doing[u]

(* What is done is kept in these.                                            *)
LEMMA BaseType ==
  ASSUME BackupTypes, NEW t \in Threads
  PROVE  /\ Base(t) \in AConfig /\ Base(t).there
         /\ Base(t).password = doing[t].base.password /\ Base(t).runs = doing[t].base.runs
         /\ Base(t).jobs = IF doing[t].base.there THEN doing[t].base.jobs
                           ELSE defaults[HomeOf[t]]
<1>1. doing[t].base \in ABase
  BY DEF BackupTypes, ADoing
<1>2. HomeOf[t] \in Processes
  BY BackupsAssumption
<1>3. defaults[HomeOf[t]] \in JobSets
  BY <1>2 DEF BackupTypes, JobSets
<1> QED BY <1>1, <1>3 DEF Base, AConfig, ABase

LEMMA LoadedType ==
  ASSUME BackupTypes, NEW t \in Threads
  PROVE  /\ Loaded(HomeOf[t]) \in ABase /\ Loaded(HomeOf[t]).loaded
         /\ Loaded(HomeOf[t]).there = config.there
         /\ Loaded(HomeOf[t]).password = config.password
         /\ Loaded(HomeOf[t]).runs = config.runs
         /\ Loaded(HomeOf[t]).jobs = IF config.there THEN config.jobs ELSE defaults[HomeOf[t]]
<1>1. HomeOf[t] \in Processes
  BY BackupsAssumption
<1>2. defaults[HomeOf[t]] \in JobSets
  BY <1>1 DEF BackupTypes, JobSets
<1> QED BY <1>2 DEF Loaded, AConfig, ABase, BackupTypes

LEMMA NoBaseType == NoBase \in ABase /\ NoBase.runs = {} /\ NoBase.jobs = {} /\ ~NoBase.loaded
                    /\ ~NoBase.stale /\ ~NoBase.there
BY DEF NoBase, ABase, JobSets

(* What Go, Read and Write make of the threads.                              *)
LEMMA GoBackup ==
  ASSUME BackupTypes, NEW t \in Threads, NEW pc \in BackupPlaces, Go(t, pc)
  PROVE  /\ doing' \in [Threads -> ADoing] /\ OnlyThread(t)
         /\ doing'[t] = [doing[t] EXCEPT !.pc = pc, !.base = NoBase]
         /\ doing'[t].pc = pc /\ doing'[t].base = NoBase
         /\ doing'[t].name = doing[t].name /\ doing'[t].after = doing[t].after
<1>1. doing' = [doing EXCEPT ![t] = [doing[t] EXCEPT !.pc = pc, !.base = NoBase]]
  BY DEF Go, BackupTypes
<1>2. doing[t] \in ADoing
  BY DEF BackupTypes
<1> DEFINE d == [doing[t] EXCEPT !.pc = pc, !.base = NoBase]
<1>3. d \in ADoing /\ d.pc = pc /\ d.base = NoBase /\ d.name = doing[t].name
      /\ d.after = doing[t].after
  BY <1>2, NoBaseType DEF ADoing
<1> HIDE DEF d
<1> QED BY <1>1, <1>3 DEF BackupTypes, OnlyThread, d

LEMMA ReadBackup ==
  ASSUME BackupTypes, NEW t \in Threads, NEW from, NEW to \in BackupPlaces, Read(t, from, to)
  PROVE  /\ doing' \in [Threads -> ADoing] /\ OnlyThread(t) /\ doing[t].pc = from
         /\ doing'[t].pc = to /\ doing'[t].base = Loaded(HomeOf[t])
         /\ doing'[t].name = doing[t].name /\ doing'[t].after = doing[t].after
<1> DEFINE b == Loaded(HomeOf[t])
           d == [doing[t] EXCEPT !.pc = to, !.base = b]
<1>0. b \in ABase
  BY LoadedType
<1> HIDE DEF b
<1>1. doing' = [doing EXCEPT ![t] = d] /\ doing[t].pc = from
  BY DEF Read, BackupTypes, BackupAt, b
<1>2. doing[t] \in ADoing
  BY DEF BackupTypes
<1>3. d \in ADoing /\ d.pc = to /\ d.base = b /\ d.name = doing[t].name
      /\ d.after = doing[t].after
  BY <1>0, <1>2 DEF ADoing
<1> HIDE DEF d
<1> QED BY <1>1, <1>3 DEF BackupTypes, OnlyThread, b

LEMMA WriteBackup ==
  ASSUME BackupTypes, NEW t \in Threads, NEW cfg \in AConfig, NEW pc \in BackupPlaces,
         Write(t, cfg, pc)
  PROVE  /\ config' = cfg /\ doing' \in [Threads -> ADoing]
         /\ crossed' = (crossed \/ doing[t].base.stale)
         /\ doing'[t].pc = pc /\ doing'[t].base = NoBase
         /\ doing'[t].name = doing[t].name /\ doing'[t].after = doing[t].after
         /\ \A u \in Threads : u # t =>
               /\ doing'[u].pc = doing[u].pc
               /\ doing'[u].name = doing[u].name /\ doing'[u].after = doing[u].after
               /\ doing'[u].base.there = doing[u].base.there
               /\ doing'[u].base.jobs = doing[u].base.jobs
               /\ doing'[u].base.runs = doing[u].base.runs
               /\ doing'[u].base.loaded = doing[u].base.loaded
               /\ doing'[u].base.stale = doing[u].base.loaded
<1>1. \A u \in Threads : doing[u] \in ADoing /\ doing[u].base \in ABase
  BY DEF BackupTypes, ADoing
<1>2. [doing[t] EXCEPT !.pc = pc, !.base = NoBase] \in ADoing
  BY <1>1, NoBaseType DEF ADoing
<1>3. \A u \in Threads : [doing[u].base EXCEPT !.stale = doing[u].base.loaded] \in ABase
  BY <1>1 DEF ABase
<1>4. \A u \in Threads :
        [doing[u] EXCEPT !.base.stale = doing[u].base.loaded]
          = [doing[u] EXCEPT !.base = [doing[u].base EXCEPT !.stale = doing[u].base.loaded]]
  BY <1>1 DEF ADoing, ABase
<1>5. \A u \in Threads :
        [doing[u] EXCEPT !.base = [doing[u].base EXCEPT !.stale = doing[u].base.loaded]]
          \in ADoing
  BY <1>1, <1>3 DEF ADoing
<1>6. doing' = [u \in Threads |-> IF u = t THEN [doing[t] EXCEPT !.pc = pc, !.base = NoBase]
                 ELSE [doing[u] EXCEPT
                         !.base = [doing[u].base EXCEPT !.stale = doing[u].base.loaded]]]
  BY <1>4 DEF Write
<1>7. doing' \in [Threads -> ADoing]
  BY <1>2, <1>5, <1>6
<1>8. doing'[t] = [doing[t] EXCEPT !.pc = pc, !.base = NoBase]
  BY <1>6
<1>9. ASSUME NEW u \in Threads, u # t
      PROVE  /\ doing'[u].pc = doing[u].pc
             /\ doing'[u].name = doing[u].name /\ doing'[u].after = doing[u].after
             /\ doing'[u].base.there = doing[u].base.there
             /\ doing'[u].base.jobs = doing[u].base.jobs
             /\ doing'[u].base.runs = doing[u].base.runs
             /\ doing'[u].base.loaded = doing[u].base.loaded
             /\ doing'[u].base.stale = doing[u].base.loaded
  <2> DEFINE b == [doing[u].base EXCEPT !.stale = doing[u].base.loaded]
  <2>1. doing'[u] = [doing[u] EXCEPT !.base = b]
    BY <1>6, <1>9
  <2>2. b.there = doing[u].base.there /\ b.jobs = doing[u].base.jobs
        /\ b.runs = doing[u].base.runs /\ b.loaded = doing[u].base.loaded
        /\ b.stale = doing[u].base.loaded
    BY <1>1 DEF ABase
  <2>3. doing[u] \in ADoing
    BY <1>1
  <2> HIDE DEF b
  <2>4. doing'[u].base = b /\ doing'[u].pc = doing[u].pc
        /\ doing'[u].name = doing[u].name /\ doing'[u].after = doing[u].after
    BY <2>1, <2>3 DEF ADoing
  <2> QED BY <2>2, <2>4
<1>10. doing'[t].pc = pc /\ doing'[t].base = NoBase
       /\ doing'[t].name = doing[t].name /\ doing'[t].after = doing[t].after
  BY <1>1, <1>8 DEF ADoing
<1> QED BY <1>7, <1>9, <1>10 DEF Write

(* Every action but those on the directory keeps the types.                  *)
LEMMA GoTypes ==
  ASSUME BackupTypes, NEW t \in Threads, NEW pc \in BackupPlaces, Go(t, pc),
         UNCHANGED <<config, defaults, directory, minute, closed, crossed>>,
         outcomes' \in [done : SUBSET Threads, failed : SUBSET Creators]
  PROVE  BackupTypes'
BY GoBackup DEF BackupTypes

LEMMA ReadTypes ==
  ASSUME BackupTypes, NEW t \in Threads, NEW from, NEW to \in BackupPlaces, Read(t, from, to),
         UNCHANGED <<config, directory, minute, closed, crossed, outcomes>>,
         defaults' \in [Processes -> SUBSET Creators]
  PROVE  BackupTypes'
BY ReadBackup DEF BackupTypes

LEMMA WriteTypes ==
  ASSUME BackupTypes, NEW t \in Threads, NEW cfg \in AConfig, NEW pc \in BackupPlaces,
         Write(t, cfg, pc), UNCHANGED <<defaults, directory, minute, closed>>,
         outcomes' \in [done : SUBSET Threads, failed : SUBSET Creators]
  PROVE  BackupTypes'
<1>1. config' \in AConfig /\ doing' \in [Threads -> ADoing]
  BY WriteBackup
<1>2. doing[t].base.stale \in BOOLEAN
  BY DEF BackupTypes, ADoing, ABase
<1>3. crossed' \in BOOLEAN
  BY <1>2, WriteBackup DEF BackupTypes
<1> QED BY <1>1, <1>3 DEF BackupTypes

(* What the writers write.                                                   *)
LEMMA WrittenTypes ==
  ASSUME BackupTypes, NEW t \in Threads
  PROVE  /\ t \in Creators => [Base(t) EXCEPT !.jobs = @ \cup {t}] \in AConfig
         /\ [Base(t) EXCEPT !.jobs = @ \ {First}, !.runs = {}] \in AConfig
         /\ WithSettings(t) \in AConfig
         /\ t \in Backupers => Recorded(t) \in AConfig
<1>1. Base(t) \in AConfig
  BY BaseType
<1>2. t \in Creators => [Base(t) EXCEPT !.jobs = @ \cup {t}] \in AConfig
  BY <1>1 DEF AConfig, JobSets
<1>3. [Base(t) EXCEPT !.jobs = @ \ {First}, !.runs = {}] \in AConfig
  BY <1>1 DEF AConfig, JobSets
<1>4. WithSettings(t) \in AConfig
  BY <1>1 DEF AConfig, WithSettings
<1>5. ASSUME t \in Backupers PROVE Recorded(t) \in AConfig
  <2> DEFINE r == [by |-> t, name |-> doing[t].name,
                   status |-> IF BackupAt(t, "success") THEN "success" ELSE "failed",
                   remote |-> doing[t].remote]
  <2>1. r \in ARun
    BY <1>5 DEF ARun, BackupTypes, ADoing
  <2> HIDE DEF r
  <2>2. [Base(t) EXCEPT !.runs = IF First \notin Base(t).jobs THEN @ ELSE @ \cup {r}] \in AConfig
    BY <1>1, <2>1 DEF AConfig
  <2> QED BY <2>2 DEF Recorded, r
<1> QED BY <1>2, <1>3, <1>4, <1>5

(* A sequence without its i-th element.                                      *)
LEMMA RemovedAt ==
  ASSUME NEW S, NEW s \in Seq(S), NEW i \in 1..Len(s)
  PROVE  /\ RemoveAt(s, i) \in Seq(S)
         /\ Len(RemoveAt(s, i)) = Len(s) - 1
         /\ \A k \in 1..(Len(s) - 1) :
               RemoveAt(s, i)[k] = IF k < i THEN s[k] ELSE s[k + 1]
<1> DEFINE a == SubSeq(s, 1, i - 1)
           b == SubSeq(s, i + 1, Len(s))
<1>1. a \in Seq(S) /\ Len(a) = i - 1 /\ \A k \in 1..(i - 1) : a[k] = s[k]
  OBVIOUS
<1>2. b \in Seq(S) /\ Len(b) = Len(s) - i /\ \A k \in 1..(Len(s) - i) : b[k] = s[i + k]
  OBVIOUS
<1>3. RemoveAt(s, i) = a \o b
  BY DEF RemoveAt
<1> HIDE DEF a, b
<1>4. a \o b \in Seq(S) /\ Len(a \o b) = Len(s) - 1
  <2>1. a \in Seq(S) /\ b \in Seq(S)
    BY <1>1, <1>2
  <2>2. a \o b \in Seq(S)
    BY <2>1
  <2>3. Len(a \o b) = Len(a) + Len(b)
    BY <2>1
  <2> QED BY <1>1, <1>2, <2>2, <2>3
<1>5. ASSUME NEW k \in 1..(Len(s) - 1)
      PROVE (a \o b)[k] = IF k < i THEN s[k] ELSE s[k + 1]
  <2>1. (a \o b)[k] = IF k <= Len(a) THEN a[k] ELSE b[k - Len(a)]
    BY <1>1, <1>2
  <2>2. CASE k < i
    BY <1>1, <2>1, <2>2
  <2>3. CASE k >= i
    <3>1. k - (i - 1) \in 1..(Len(s) - i) /\ i + (k - (i - 1)) = k + 1
      BY <2>3
    <3> QED BY <1>1, <1>2, <2>1, <2>3, <3>1
  <2> HIDE DEF a, b
  <2>4. k < i \/ k >= i
    OBVIOUS
  <2> QED BY <2>2, <2>3, <2>4
<1> QED BY <1>3, <1>4, <1>5

(* How many archives are pruned, and which remain.                           *)
Dropped(n, max) == IF n > max THEN n - max ELSE 0

LEMMA PrunedFacts ==
  ASSUME NEW s \in Seq(AnArchive), NEW max \in Nat
  PROVE  /\ Dropped(Len(s), max) \in 0..Len(s)
         /\ Pruned(s, max) \in Seq(AnArchive)
         /\ Len(Pruned(s, max)) = Len(s) - Dropped(Len(s), max)
         /\ \A k \in 1..(Len(s) - Dropped(Len(s), max)) :
               Pruned(s, max)[k] = s[Dropped(Len(s), max) + k]
<1> DEFINE m == Dropped(Len(s), max)
<1>1. m \in 0..Len(s)
  BY DEF Dropped
<1>2. Pruned(s, max) = SubSeq(s, m + 1, Len(s))
  BY DEF Pruned, Dropped
<1> HIDE DEF m
<1>3. /\ SubSeq(s, m + 1, Len(s)) \in Seq(AnArchive)
      /\ Len(SubSeq(s, m + 1, Len(s))) = Len(s) - m
      /\ \A k \in 1..(Len(s) - m) : SubSeq(s, m + 1, Len(s))[k] = s[m + k]
  BY <1>1
<1> QED BY <1>1, <1>2, <1>3 DEF m

(* The archives but the one of a name.                                       *)
LEMMA PositionFacts ==
  ASSUME directory \in Seq(AnArchive), NEW name, Named(name) # {}
  PROVE  Position(name) \in 1..Len(directory) /\ directory[Position(name)].name = name
<1>1. \E i \in DOMAIN directory : directory[i].name = name
  BY DEF Named, ToSet
<1> QED BY <1>1 DEF Position

LEMMA OthersType ==
  ASSUME directory \in Seq(AnArchive), NEW name
  PROVE  Others(name) \in Seq(AnArchive)
<1>1. CASE Named(name) = {}
  BY <1>1 DEF Others
<1>2. CASE Named(name) # {}
  BY <1>2, PositionFacts, RemovedAt DEF Others
<1> QED BY <1>1, <1>2

Opened(b) ==
    [name |-> minute, whole |-> FALSE, writers |-> {b} \cup
        UNION {IF a.whole THEN {} ELSE {x \in a.writers : BackupAt(x, "write")} :
                  a \in Named(minute)}]

LEMMA OpenedArchive ==
  ASSUME BackupTypes, NEW b \in Backupers, OpenArchive(b)
  PROVE  /\ Opened(b) \in AnArchive
         /\ directory' = Append(Others(minute), Opened(b))
         /\ doing' \in [Threads -> ADoing] /\ OnlyThread(b) /\ doing[b].pc = "begin"
         /\ doing'[b].pc = "write" /\ doing'[b].name = minute /\ doing'[b].after = closed
         /\ doing'[b].base = doing[b].base
<1> DEFINE W == UNION {IF a.whole THEN {} ELSE {x \in a.writers : BackupAt(x, "write")} :
                          a \in Named(minute)}
<1>1. Named(minute) \subseteq AnArchive
  BY DEF Named, ToSet, BackupTypes
<1>2. W \subseteq Backupers
  BY <1>1 DEF AnArchive
<1>3. Opened(b) = [name |-> minute, whole |-> FALSE, writers |-> {b} \cup W]
  BY DEF Opened
<1>4. directory' = Append(Others(minute),
                        [name |-> minute, writers |-> W \cup {b}, whole |-> FALSE])
  BY DEF OpenArchive
<1> HIDE DEF W
<1>5. Opened(b) \in AnArchive
  BY <1>2, <1>3 DEF AnArchive, BackupTypes
<1>6. [name |-> minute, writers |-> W \cup {b}, whole |-> FALSE] = Opened(b)
  BY <1>3
<1>7. /\ doing' = [doing EXCEPT ![b] = [doing[b] EXCEPT !.pc = "write", !.name = minute,
                                                       !.after = closed]]
      /\ b \in Threads /\ doing[b].pc = "begin"
  BY DEF OpenArchive, BackupTypes, Threads, BackupAt
<1> DEFINE d == [doing[b] EXCEPT !.pc = "write", !.name = minute, !.after = closed]
<1>8. /\ d \in ADoing /\ d.pc = "write" /\ d.name = minute /\ d.after = closed
      /\ d.base = doing[b].base
  BY <1>7 DEF BackupTypes, ADoing, BackupPlaces
<1> HIDE DEF d
<1> QED BY <1>4, <1>5, <1>6, <1>7, <1>8 DEF d, OnlyThread, BackupTypes

(* What CloseArchive has written, when the archive is still its own.         *)
Mine(b) == {a \in Named(doing[b].name) : b \in a.writers}
Finished(b, a) == [a EXCEPT !.whole = (a.writers = {b})]

LEMMA ClosedArchive ==
  ASSUME BackupTypes, NEW b \in Backupers, CloseArchive(b)
  PROVE  /\ doing[b].pc = "write"
         /\ Mine(b) = {} => directory' = Pruned(directory, MaxFiles)
         /\ Mine(b) # {} => \E a \in Mine(b) :
               directory' = Pruned(Append(Others(doing[b].name), Finished(b, a)), MaxFiles)
         /\ \A a \in Mine(b) : /\ a \in AnArchive /\ Finished(b, a) \in AnArchive
                               /\ Finished(b, a).name = a.name
                               /\ Finished(b, a).writers = a.writers
                               /\ Finished(b, a).whole = (a.writers = {b})
<1> DEFINE mine == {Finished(b, a) : a \in Mine(b)}
<1>1. /\ doing[b].pc = "write"
      /\ directory' = Pruned(IF mine = {} THEN directory
                             ELSE Append(Others(doing[b].name), CHOOSE a \in mine : TRUE), MaxFiles)
  BY DEF CloseArchive, BackupAt, Mine, Finished
<1>2. mine = {} <=> Mine(b) = {}
  OBVIOUS
<1>3. mine # {} => (CHOOSE a \in mine : TRUE) \in mine
  OBVIOUS
<1>4. ASSUME Mine(b) # {}
      PROVE  \E a \in Mine(b) :
                directory' = Pruned(Append(Others(doing[b].name), Finished(b, a)), MaxFiles)
  <2>1. PICK a \in Mine(b) : (CHOOSE c \in mine : TRUE) = Finished(b, a)
    BY <1>2, <1>3, <1>4
  <2> HIDE DEF mine
  <2> QED BY <1>1, <1>2, <1>4, <2>1
<1>5. Mine(b) \subseteq AnArchive
  BY DEF Mine, Named, ToSet, BackupTypes
<1>6. ASSUME NEW a \in Mine(b)
      PROVE  /\ a \in AnArchive /\ Finished(b, a) \in AnArchive
             /\ Finished(b, a).name = a.name
             /\ Finished(b, a).writers = a.writers
             /\ Finished(b, a).whole = (a.writers = {b})
  BY <1>5 DEF AnArchive, Finished
<1>7. ASSUME Mine(b) = {} PROVE directory' = Pruned(directory, MaxFiles)
  <2>1. mine = {}
    BY <1>2, <1>7
  <2>2. (IF mine = {} THEN directory
         ELSE Append(Others(doing[b].name), CHOOSE a \in mine : TRUE)) = directory
    BY <2>1
  <2> QED BY <1>1, <2>2
<1> HIDE DEF mine
<1> QED BY <1>1, <1>4, <1>6, <1>7

LEMMA BackupsTypesInit == BackupsInit => BackupTypes
<1> SUFFICES ASSUME BackupsInit PROVE BackupTypes
  OBVIOUS
<1>1. config \in AConfig
  <2>1. /\ {} \in SUBSET ARun /\ {} \in JobSets /\ {First} \in JobSets
    BY DEF JobSets
  <2>2. /\ [there |-> FALSE, password |-> FALSE, jobs |-> {}, runs |-> {}] \in AConfig
        /\ [there |-> TRUE, password |-> TRUE, jobs |-> {First}, runs |-> {}] \in AConfig
    BY <2>1 DEF AConfig
  <2> QED BY <2>2 DEF BackupsInit
<1>2. doing \in [Threads -> ADoing]
  <2> DEFINE d == [pc |-> "idle", base |-> NoBase, name |-> 0, remote |-> "none", after |-> {}]
  <2>1. d \in ADoing
    BY NoBaseType DEF ADoing, BackupPlaces, Remotes
  <2>2. doing = [t \in Threads |-> d]
    BY DEF BackupsInit
  <2> HIDE DEF d
  <2> QED BY <2>1, <2>2
<1>3. directory \in Seq(AnArchive) /\ minute \in Nat \ {0} /\ crossed \in BOOLEAN
      /\ closed \in SUBSET Backupers
  <2>1. << >> \in Seq(AnArchive)
    OBVIOUS
  <2>2. directory = << >> /\ minute = 1 /\ crossed = FALSE /\ closed = {}
    BY DEF BackupsInit
  <2> HIDE DEF BackupsInit
  <2>3. directory \in Seq(AnArchive)
    BY <2>1, <2>2
  <2>4. minute \in Nat \ {0} /\ closed \in SUBSET Backupers
    BY <2>2
  <2>5. crossed \in BOOLEAN
    BY <2>2, Zenon
  <2> QED BY <2>3, <2>4, <2>5
<1>4. outcomes \in [done : SUBSET Threads, failed : SUBSET Creators]
  BY DEF BackupsInit
<1>5. defaults \in [Processes -> SUBSET Creators]
  BY DEF BackupsInit
<1> QED BY <1>1, <1>2, <1>3, <1>4, <1>5 DEF BackupTypes

(* Every step keeps the types.                                               *)
LEMMA CreatorTypes ==
  ASSUME BackupTypes, NEW c \in Creators,
         LoadForCreate(c) \/ SaveCreated(c) \/ SaveCreatedFails(c)
  PROVE  BackupTypes'
<1>0. c \in Threads /\ HomeOf[c] \in Processes
  BY BackupsAssumption DEF Threads
<1>1. CASE LoadForCreate(c)
  <2>1. defaults' \in [Processes -> SUBSET Creators]
    BY <1>0, <1>1 DEF LoadForCreate, BackupTypes
  <2> QED BY <1>0, <1>1, <2>1, ReadTypes DEF LoadForCreate, BackupPlaces
<1>2. CASE SaveCreated(c)
  <2>1. outcomes' \in [done : SUBSET Threads, failed : SUBSET Creators]
    BY <1>0, <1>2 DEF SaveCreated, BackupTypes
  <2> QED BY <1>0, <1>2, <2>1, WrittenTypes, WriteTypes DEF SaveCreated, BackupPlaces
<1>3. CASE SaveCreatedFails(c)
  <2>1. outcomes' \in [done : SUBSET Threads, failed : SUBSET Creators]
    BY <1>0, <1>3 DEF SaveCreatedFails, BackupTypes
  <2> QED BY <1>0, <1>3, <2>1, GoTypes DEF SaveCreatedFails, BackupPlaces, atRest
<1> QED BY <1>1, <1>2, <1>3

LEMMA EditorTypes ==
  ASSUME BackupTypes, NEW c \in Editors,
         LoadForEdit(c) \/ SaveEdited(c) \/ RefuseEdit(c)
  PROVE  BackupTypes'
<1>0. c \in Threads
  BY DEF Threads
<1>1. CASE LoadForEdit(c)
  <2>1. defaults' \in [Processes -> SUBSET Creators]
    BY <1>1 DEF LoadForEdit, BackupTypes, atRest
  <2> QED BY <1>0, <1>1, <2>1, ReadTypes DEF LoadForEdit, BackupPlaces, atRest
<1>2. CASE SaveEdited(c)
  <2>1. outcomes' \in [done : SUBSET Threads, failed : SUBSET Creators]
    BY <1>2 DEF SaveEdited, BackupTypes
  <2>2. Base(c) \in AConfig
    BY <1>0, BaseType
  <2>3. "done" \in BackupPlaces
    BY DEF BackupPlaces
  <2>4. PICK cfg \in AConfig : Write(c, cfg, "done")
    BY <1>0, <1>2, <2>2, WrittenTypes DEF SaveEdited
  <2> QED BY <1>0, <1>2, <2>1, <2>3, <2>4, WriteTypes DEF SaveEdited
<1>3. CASE RefuseEdit(c)
  <2>1. outcomes' \in [done : SUBSET Threads, failed : SUBSET Creators]
    BY <1>3 DEF RefuseEdit, BackupTypes
  <2> QED BY <1>0, <1>3, <2>1, GoTypes DEF RefuseEdit, BackupPlaces, atRest
<1> QED BY <1>1, <1>2, <1>3

LEMMA SaverTypes ==
  ASSUME BackupTypes, NEW s \in Savers,
         LoadSettings(s) \/ SaveSettings(s) \/ RefuseSettings(s)
  PROVE  BackupTypes'
<1>0. s \in Threads
  BY DEF Threads
<1>1. CASE LoadSettings(s)
  <2>1. defaults' \in [Processes -> SUBSET Creators]
    BY <1>1 DEF LoadSettings, BackupTypes, atRest
  <2> QED BY <1>0, <1>1, <2>1, ReadTypes DEF LoadSettings, BackupPlaces, atRest
<1>2. CASE SaveSettings(s)
  <2>1. outcomes' \in [done : SUBSET Threads, failed : SUBSET Creators]
    BY <1>0, <1>2 DEF SaveSettings, BackupTypes
  <2> QED BY <1>0, <1>2, <2>1, WrittenTypes, WriteTypes DEF SaveSettings, BackupPlaces
<1>3. CASE RefuseSettings(s)
  <2>1. outcomes' \in [done : SUBSET Threads, failed : SUBSET Creators]
    BY <1>3 DEF RefuseSettings, BackupTypes
  <2> QED BY <1>0, <1>3, <2>1, GoTypes DEF RefuseSettings, BackupPlaces, atRest
<1> QED BY <1>1, <1>2, <1>3

(* A backup begins, or finds that there is no job, or no password.           *)
LEMMA BackupStarted ==
  ASSUME BackupTypes, NEW b \in Backupers, StartBackup(b)
  PROVE  /\ doing' \in [Threads -> ADoing] /\ OnlyThread(b) /\ doing[b].pc = "idle"
         /\ doing'[b].pc \in {"begin", "done"} /\ doing'[b].base = Loaded(HomeOf[b])
         /\ doing'[b].name = doing[b].name /\ doing'[b].after = doing[b].after
<1>0. b \in Threads
  BY DEF Threads
<1> DEFINE p == CASE b \in BackupRuns -> IF First \in Loaded(HomeOf[b]).jobs
                                         THEN "begin" ELSE "done"
                  [] b \in Manuals -> IF Loaded(HomeOf[b]).password THEN "begin" ELSE "done"
           d == [doing[b] EXCEPT !.base = Loaded(HomeOf[b]), !.pc = p]
<1>1. p \in {"begin", "done"}
  BY BackupsAssumption DEF Backupers
<1>2. doing' = [doing EXCEPT ![b].base = Loaded(HomeOf[b]), ![b].pc = p] /\ doing[b].pc = "idle"
  BY DEF StartBackup, BackupAt
<1> HIDE DEF p
<1>3. doing' = [doing EXCEPT ![b] = d]
  BY <1>0, <1>2 DEF BackupTypes
<1>4. /\ d \in ADoing /\ d.pc = p /\ d.base = Loaded(HomeOf[b]) /\ d.name = doing[b].name
      /\ d.after = doing[b].after
  <2>1. doing[b] \in ADoing /\ Loaded(HomeOf[b]) \in ABase /\ p \in BackupPlaces
    BY <1>0, <1>1, LoadedType DEF BackupTypes, BackupPlaces
  <2> QED BY <2>1 DEF ADoing
<1> HIDE DEF d
<1> QED BY <1>0, <1>1, <1>2, <1>3, <1>4 DEF OnlyThread, BackupTypes

(* A transfer that ends, and a record that cannot be written.                *)
LEMMA RemoteSet ==
  ASSUME BackupTypes, NEW b \in Threads, NEW d \in ADoing,
         doing' = [doing EXCEPT ![b] = d], d.name = doing[b].name, d.after = doing[b].after
  PROVE  /\ doing' \in [Threads -> ADoing] /\ OnlyThread(b) /\ doing'[b] = d
         /\ doing'[b].name = doing[b].name /\ doing'[b].after = doing[b].after
BY DEF BackupTypes, OnlyThread

LEMMA Transferred ==
  ASSUME BackupTypes, NEW b \in Backupers, Transfer(b)
  PROVE  /\ doing' \in [Threads -> ADoing] /\ OnlyThread(b) /\ doing[b].pc = "send"
         /\ doing'[b].pc = "succeeded" /\ doing'[b].base = doing[b].base
         /\ doing'[b].name = doing[b].name /\ doing'[b].after = doing[b].after
<1>0. b \in Threads /\ doing[b] \in ADoing
  BY DEF Threads, BackupTypes
<1>1. PICK result \in Remotes :
         doing' = [doing EXCEPT ![b].pc = "succeeded", ![b].remote = result]
  BY DEF Transfer, Remotes
<1> DEFINE d == [doing[b] EXCEPT !.pc = "succeeded", !.remote = result]
<1>2. doing' = [doing EXCEPT ![b] = d]
  BY <1>0, <1>1 DEF BackupTypes
<1>3. /\ d \in ADoing /\ d.pc = "succeeded" /\ d.base = doing[b].base /\ d.name = doing[b].name
      /\ d.after = doing[b].after
  BY <1>0 DEF ADoing, BackupPlaces
<1> HIDE DEF d
<1> QED BY <1>0, <1>2, <1>3, RemoteSet DEF Transfer, BackupAt

LEMMA RecordFailed ==
  ASSUME BackupTypes, NEW b \in Backupers, SaveRecordFails(b)
  PROVE  /\ doing' \in [Threads -> ADoing] /\ OnlyThread(b)
         /\ doing[b].pc \in {"success", "prune", "failure"}
         /\ doing'[b].pc \in {"finally", "failed"} /\ doing'[b].base = NoBase
         /\ doing'[b].name = doing[b].name /\ doing'[b].after = doing[b].after
<1>0. b \in Threads /\ doing[b] \in ADoing
  BY DEF Threads, BackupTypes
<1> DEFINE p == IF BackupAt(b, "failure") THEN "finally" ELSE "failed"
           d == [doing[b] EXCEPT !.pc = p, !.base = NoBase, !.remote = "none"]
<1>1. p \in {"finally", "failed"}
  OBVIOUS
<1>2. doing' = [doing EXCEPT ![b].pc = p, ![b].base = NoBase, ![b].remote = "none"]
  BY DEF SaveRecordFails
<1> HIDE DEF p
<1>3. doing' = [doing EXCEPT ![b] = d]
  BY <1>0, <1>2 DEF BackupTypes
<1>4. /\ d \in ADoing /\ d.pc = p /\ d.base = NoBase /\ d.name = doing[b].name
      /\ d.after = doing[b].after
  BY <1>0, <1>1, NoBaseType DEF ADoing, BackupPlaces, Remotes
<1> HIDE DEF d
<1> QED BY <1>0, <1>1, <1>3, <1>4, RemoteSet DEF SaveRecordFails, BackupAt

LEMMA BackupStepTypes ==
  ASSUME BackupTypes, NEW b \in Backupers, BackupStep(b)
  PROVE  BackupTypes'
<1>0. b \in Threads
  BY DEF Threads
<1>1. CASE StartBackup(b)
  BY <1>1, BackupStarted DEF StartBackup, BackupTypes, atRest
<1>2. CASE OpenArchive(b)
  <2>1. Others(minute) \in Seq(AnArchive) /\ Opened(b) \in AnArchive
    BY <1>2, OpenedArchive, OthersType DEF BackupTypes
  <2>2. directory' \in Seq(AnArchive) /\ doing' \in [Threads -> ADoing]
    BY <1>2, <2>1, OpenedArchive
  <2> QED BY <1>2, <2>2 DEF OpenArchive, BackupTypes
<1>3. CASE CloseArchive(b)
  <2>1. MaxFiles \in Nat /\ directory \in Seq(AnArchive)
    BY BackupsAssumption DEF BackupTypes
  <2>2. ASSUME NEW s \in Seq(AnArchive), directory' = Pruned(s, MaxFiles)
        PROVE  directory' \in Seq(AnArchive)
    BY <2>1, <2>2, PrunedFacts
  <2>3. directory' \in Seq(AnArchive)
    <3>1. CASE Mine(b) = {}
      BY <1>3, <2>1, <2>2, <3>1, ClosedArchive
    <3>2. CASE Mine(b) # {}
      <4>1. PICK a \in Mine(b) :
               directory' = Pruned(Append(Others(doing[b].name), Finished(b, a)), MaxFiles)
        BY <1>3, <3>2, ClosedArchive
      <4>2. Append(Others(doing[b].name), Finished(b, a)) \in Seq(AnArchive)
        BY <1>3, <2>1, OthersType, ClosedArchive
      <4> QED BY <2>2, <4>1, <4>2
    <3> QED BY <3>1, <3>2
  <2>4. doing' \in [Threads -> ADoing]
    BY <1>0, <1>3, GoBackup DEF CloseArchive, BackupPlaces
  <2> QED BY <1>3, <2>3, <2>4 DEF CloseArchive, BackupTypes
<1>4. CASE WriteFails(b)
  <2>1. Go(b, IF b \in BackupRuns THEN "failed" ELSE "done")
    BY <1>4 DEF WriteFails
  <2>2. outcomes' \in [done : SUBSET Threads, failed : SUBSET Creators]
    BY <1>4 DEF WriteFails, BackupTypes
  <2> QED BY <1>0, <1>4, <2>1, <2>2, GoTypes DEF WriteFails, atRest, BackupPlaces
<1>5. CASE Transfer(b)
  BY <1>5, Transferred DEF Transfer, BackupTypes, atRest
<1>6. CASE LoadForRecord(b)
  <2>1. PICK from \in BackupPlaces, to \in BackupPlaces : Read(b, from, to)
    <3>1. {"succeeded", "success", "failed", "failure", "recorded", "prune"} \subseteq BackupPlaces
      BY DEF BackupPlaces
    <3> QED BY <1>6, <3>1 DEF LoadForRecord
  <2>2. defaults' \in [Processes -> SUBSET Creators]
    BY <1>6 DEF LoadForRecord, BackupTypes, atRest
  <2> QED BY <1>0, <1>6, <2>1, <2>2, ReadTypes DEF LoadForRecord, atRest
<1>7. CASE SaveRecord(b)
  <2>1. outcomes' \in [done : SUBSET Threads, failed : SUBSET Creators]
    BY <1>0, <1>7 DEF SaveRecord, BackupTypes
  <2> QED BY <1>0, <1>7, <2>1, WrittenTypes, WriteTypes DEF SaveRecord, BackupPlaces
<1>8. CASE SavePrunedRuns(b)
  <2>2. outcomes' \in [done : SUBSET Threads, failed : SUBSET Creators]
    BY <1>8 DEF SavePrunedRuns, BackupTypes
  <2>3. Base(b) \in AConfig
    BY <1>0, BaseType
  <2> QED BY <1>0, <1>8, <2>2, <2>3, WriteTypes DEF SavePrunedRuns, BackupPlaces
<1>9. CASE SaveRecordFails(b)
  BY <1>9, RecordFailed DEF SaveRecordFails, BackupTypes, atRest
<1>10. CASE EndBackup(b)
  <2>2. outcomes' \in [done : SUBSET Threads, failed : SUBSET Creators]
    BY <1>10 DEF EndBackup, BackupTypes
  <2> QED BY <1>0, <1>10, <2>2, GoTypes DEF EndBackup, atRest, BackupPlaces
<1> QED
  BY <1>1, <1>2, <1>3, <1>4, <1>5, <1>6, <1>7, <1>8, <1>9, <1>10 DEF BackupStep

(* A process that dies.                                                      *)
LEMMA WorkerDead ==
  ASSUME BackupTypes, NEW w \in Processes, BackupWorkerDies(w)
  PROVE  /\ doing' \in [Threads -> ADoing]
         /\ \A t \in Threads :
               /\ doing'[t].name = doing[t].name /\ doing'[t].after = doing[t].after
               /\ \/ doing'[t].pc = doing[t].pc /\ doing'[t].base = doing[t].base
                  \/ /\ doing'[t].pc = "done" /\ doing'[t].base = NoBase
                     /\ doing[t].pc # "idle"
         /\ defaults' \in [Processes -> SUBSET Creators]
         /\ \A v \in Processes : defaults'[v] \subseteq defaults[v]
<1> DEFINE its == {t \in Threads : HomeOf[t] = w /\ ~BackupAt(t, "idle")}
           new(t) == [doing[t] EXCEPT !.pc = "done", !.base = NoBase]
<1>1. doing' = [t \in Threads |-> IF t \in its THEN new(t) ELSE doing[t]]
  BY DEF BackupWorkerDies
<1>2. ASSUME NEW t \in Threads
      PROVE  /\ doing[t] \in ADoing /\ new(t) \in ADoing
             /\ new(t).name = doing[t].name /\ new(t).after = doing[t].after
             /\ new(t).pc = "done" /\ new(t).base = NoBase
             /\ t \in its => doing[t].pc # "idle"
  BY NoBaseType DEF BackupTypes, ADoing, BackupPlaces, BackupAt
<1>3. defaults' = [defaults EXCEPT ![w] = {}]
  BY DEF BackupWorkerDies
<1>4. /\ defaults' \in [Processes -> SUBSET Creators]
      /\ \A v \in Processes : defaults'[v] \subseteq defaults[v]
  BY <1>3 DEF BackupTypes
<1> HIDE DEF new, its
<1>5. doing' \in [Threads -> ADoing]
  BY <1>1, <1>2
<1>6. ASSUME NEW t \in Threads
      PROVE  /\ doing'[t].name = doing[t].name /\ doing'[t].after = doing[t].after
             /\ \/ doing'[t].pc = doing[t].pc /\ doing'[t].base = doing[t].base
                \/ /\ doing'[t].pc = "done" /\ doing'[t].base = NoBase
                   /\ doing[t].pc # "idle"
  <2>1. doing'[t] = IF t \in its THEN new(t) ELSE doing[t]
    BY <1>1
  <2> QED BY <1>2, <2>1
<1> QED BY <1>4, <1>5, <1>6

LEMMA BackupsTypesNext == BackupTypes /\ [BackupsNext]_backupVars => BackupTypes'
<1> SUFFICES ASSUME BackupTypes, [BackupsNext]_backupVars PROVE BackupTypes'
  OBVIOUS
<1>1. CASE MinutePasses
  BY <1>1 DEF MinutePasses, BackupTypes
<1>2. ASSUME NEW w \in Processes, BackupWorkerDies(w) PROVE BackupTypes'
  BY <1>2, WorkerDead DEF BackupWorkerDies, BackupTypes
<1>3. CASE UNCHANGED backupVars
  BY <1>3 DEF backupVars, BackupTypes
<1> QED
  BY <1>1, <1>2, <1>3, CreatorTypes, EditorTypes, SaverTypes, BackupStepTypes DEF BackupsNext

-----------------------------------------------------------------------------
(* The settings and the jobs                                                *)

Writing == {"create", "edit", "save", "success", "failure", "prune"}

(* What was loaded and is not stale is what the file has, or was the default *)
(* when there was none.                                                      *)
Current(t) ==
    doing[t].base.loaded /\ ~doing[t].base.stale =>
        /\ doing[t].base.there = config.there
        /\ doing[t].base.password = config.password
        /\ doing[t].base.runs = config.runs
        /\ config.there => doing[t].base.jobs = config.jobs

(* A job that has not been created, or was refused while there was a file,   *)
(* is nowhere.                                                               *)
Spared(c) ==
    \/ doing[c].pc = "idle"
    \/ doing[c].pc = "create" /\ doing[c].base.there
    \/ c \in outcomes.failed

Nowhere(c) ==
    /\ c \notin config.jobs
    /\ \A w \in Processes : c \notin defaults[w]
    /\ \A t \in Threads : c \notin doing[t].base.jobs

Saved ==
    /\ \A c \in Creators \cap outcomes.done : c \in config.jobs
    /\ \A b \in BackupRuns \cap outcomes.done :
          First \in config.jobs => \E r \in config.runs : r.by = b
    /\ Savers \cap outcomes.done # {} => config.password

ConfigInv ==
    /\ BackupTypes
    /\ \A t \in Threads : Current(t)
    /\ \A t \in Threads : doing[t].pc \in Writing => doing[t].base.loaded
    /\ ~config.there => outcomes.done = {}
    /\ \A c \in Creators : Spared(c) => Nowhere(c)
    /\ \A c \in outcomes.failed : doing[c].pc = "done"
    /\ ~crossed => Saved

LEMMA ConfigInit == BackupsInit => ConfigInv
<1> SUFFICES ASSUME BackupsInit PROVE ConfigInv
  OBVIOUS
<1>1. BackupTypes
  BY BackupsTypesInit
<1>2. \A t \in Threads : doing[t].pc = "idle" /\ doing[t].base = NoBase
  BY DEF BackupsInit
<1>3. outcomes.done = {} /\ outcomes.failed = {}
  BY DEF BackupsInit
<1>4. /\ \A w \in Processes : defaults[w] = {}
      /\ config.jobs \in {{}, {First}}
  BY DEF BackupsInit
<1>5. \A c \in Creators : Nowhere(c)
  BY <1>2, <1>4, NoBaseType, BackupsAssumption DEF Nowhere
<1>6. \A t \in Threads : Current(t)
  BY <1>2, NoBaseType DEF Current
<1>7. \A t \in Threads : doing[t].pc \notin Writing
  BY <1>2 DEF Writing
<1> QED BY <1>1, <1>3, <1>5, <1>6, <1>7 DEF ConfigInv, Saved

(* A step that does not touch the file.                                      *)
LEMMA QuietConfig ==
  ASSUME ConfigInv, BackupTypes', UNCHANGED <<config, crossed>>,
         outcomes'.done = outcomes.done,
         \A w \in Processes : defaults'[w] \subseteq defaults[w],
         \A t \in Threads : doing'[t].base \in {doing[t].base, NoBase, Loaded(HomeOf[t])},
         \A t \in Threads : doing'[t].pc \in Writing => doing'[t].base.loaded,
         \A c \in Creators : Spared(c)' => Spared(c),
         \A c \in outcomes'.failed : doing'[c].pc = "done"
  PROVE  ConfigInv'
<1>1. BackupTypes
  BY DEF ConfigInv
<1>2. ASSUME NEW t \in Threads PROVE Current(t)'
  <2>1. CASE doing'[t].base = doing[t].base
    BY <2>1 DEF Current, ConfigInv
  <2>2. CASE doing'[t].base = NoBase
    BY <2>2, NoBaseType DEF Current
  <2>3. CASE doing'[t].base = Loaded(HomeOf[t])
    BY <1>1, <2>3, LoadedType DEF Current
  <2> QED BY <2>1, <2>2, <2>3
<1>3. ASSUME NEW c \in Creators, Spared(c)' PROVE Nowhere(c)'
  <2>1. Nowhere(c)
    BY <1>3 DEF ConfigInv
  <2>2. ASSUME NEW t \in Threads PROVE c \notin doing'[t].base.jobs
    <3>1. HomeOf[t] \in Processes
      BY BackupsAssumption
    <3>2. c \notin Loaded(HomeOf[t]).jobs
      BY <1>1, <2>1, <3>1, LoadedType DEF Nowhere
    <3> QED BY <2>1, <3>2, NoBaseType DEF Nowhere
  <2> QED BY <2>1, <2>2 DEF Nowhere
<1>4. ~crossed' => Saved'
  BY DEF Saved, ConfigInv
<1> QED BY <1>2, <1>3, <1>4 DEF ConfigInv

(* What a writer starts from, when nothing crossed it.                       *)
LEMMA FreshBase ==
  ASSUME ConfigInv, NEW t \in Threads, doing[t].pc \in Writing, ~doing[t].base.stale
  PROVE  /\ Base(t).password = config.password /\ Base(t).runs = config.runs
         /\ config.there => Base(t).jobs = config.jobs
         /\ ~config.there => First \notin Base(t).jobs
<1>1. BackupTypes /\ Current(t) /\ doing[t].base.loaded
  BY DEF ConfigInv
<1>2. HomeOf[t] \in Processes /\ First \notin Creators
  BY BackupsAssumption
<1>3. First \notin defaults[HomeOf[t]]
  BY <1>1, <1>2 DEF BackupTypes
<1> QED BY <1>1, <1>3, BaseType DEF Current

(* A step that writes the file.                                              *)
LEMMA WriteConfig ==
  ASSUME ConfigInv, BackupTypes', NEW t \in Threads, NEW cfg \in AConfig,
         NEW pc \in BackupPlaces \ (Writing \cup {"idle"}), Write(t, cfg, pc),
         doing[t].pc \in Writing, cfg.there, UNCHANGED defaults,
         outcomes'.failed = outcomes.failed,
         \A c \in Creators : c \in cfg.jobs => c \in Base(t).jobs \/ c = t,
         ~doing[t].base.stale /\ Saved => Saved'
  PROVE  ConfigInv'
<1>1. BackupTypes
  BY DEF ConfigInv
<1>2. /\ config' = cfg /\ crossed' = (crossed \/ doing[t].base.stale)
      /\ doing'[t].pc = pc /\ doing'[t].base = NoBase
      /\ \A u \in Threads : u # t =>
               /\ doing'[u].pc = doing[u].pc
               /\ doing'[u].base.there = doing[u].base.there
               /\ doing'[u].base.jobs = doing[u].base.jobs
               /\ doing'[u].base.loaded = doing[u].base.loaded
               /\ doing'[u].base.stale = doing[u].base.loaded
  BY <1>1, WriteBackup
<1>3. \A u \in Threads : Current(u)'
  BY <1>2, NoBaseType DEF Current
<1>4. \A u \in Threads : doing'[u].pc \in Writing => doing'[u].base.loaded
  BY <1>2 DEF ConfigInv
<1>5. \A c \in outcomes.failed : c # t
  BY DEF ConfigInv, Writing
<1>6. \A c \in outcomes'.failed : doing'[c].pc = "done"
  BY <1>1, <1>2, <1>5 DEF ConfigInv, BackupTypes, Threads
<1>7. ASSUME NEW c \in Creators, Spared(c)' PROVE Nowhere(c)'
  <2>1. c # t
    BY <1>2, <1>5, <1>7 DEF Spared, Writing
  <2>2. c \in Threads /\ HomeOf[t] \in Processes
    BY BackupsAssumption DEF Threads
  <2>3. Spared(c)
    BY <1>2, <1>7, <2>1, <2>2 DEF Spared
  <2>4. Nowhere(c)
    BY <2>3 DEF ConfigInv
  <2>5. c \notin Base(t).jobs
    BY <1>1, <2>2, <2>4, BaseType DEF Nowhere
  <2>6. c \notin config'.jobs
    BY <1>2, <2>1, <2>5
  <2> QED BY <1>2, <2>4, <2>6, NoBaseType DEF Nowhere
<1>8. ~crossed' => Saved'
  BY <1>2 DEF ConfigInv
<1> QED BY <1>2, <1>3, <1>4, <1>6, <1>7, <1>8 DEF ConfigInv

(* A thread that goes elsewhere without having read.                         *)
LEMMA QuietThread ==
  ASSUME ConfigInv, BackupTypes', NEW t \in Threads, OnlyThread(t),
         UNCHANGED <<config, defaults, crossed>>, outcomes'.done = outcomes.done,
         doing'[t].base \in {doing[t].base, NoBase, Loaded(HomeOf[t])},
         doing'[t].pc # "idle", doing'[t].pc # "create",
         doing'[t].pc \in Writing => doing'[t].base.loaded,
         \A c \in outcomes'.failed :
            \/ c \in outcomes.failed /\ c # t
            \/ c = t /\ doing'[t].pc = "done" /\ doing[t].pc = "create" /\ doing[t].base.there
  PROVE  ConfigInv'
<1>1. \A u \in Threads : doing'[u].base \in {doing[u].base, NoBase, Loaded(HomeOf[u])}
  BY DEF OnlyThread
<1>2. \A u \in Threads : doing'[u].pc \in Writing => doing'[u].base.loaded
  BY DEF OnlyThread, ConfigInv
<1>3. ASSUME NEW c \in Creators, Spared(c)' PROVE Spared(c)
  <2>1. c \in Threads
    BY DEF Threads
  <2>2. CASE c = t
    BY <1>3, <2>2 DEF Spared
  <2>3. CASE c # t
    BY <1>3, <2>1, <2>3 DEF Spared, OnlyThread
  <2> QED BY <2>2, <2>3
<1>4. ASSUME NEW c \in outcomes'.failed PROVE doing'[c].pc = "done"
  <2>1. c \in Threads
    BY DEF BackupTypes, Threads
  <2> QED BY <2>1 DEF OnlyThread, ConfigInv
<1>5. \A w \in Processes : defaults'[w] \subseteq defaults[w]
  OBVIOUS
<1> QED BY <1>1, <1>2, <1>3, <1>4, <1>5, QuietConfig

(* Where a failure is not counted.                                           *)
LEMMA NotFailed ==
  ASSUME ConfigInv, NEW t \in Threads, doing[t].pc # "done"
  PROVE  t \notin outcomes.failed
BY DEF ConfigInv

LEMMA CreatorConfig ==
  ASSUME ConfigInv, BackupTypes', NEW c \in Creators,
         LoadForCreate(c) \/ SaveCreated(c) \/ SaveCreatedFails(c)
  PROVE  ConfigInv'
<1>0. c \in Threads /\ HomeOf[c] \in Processes /\ BackupTypes /\ c # First
  BY BackupsAssumption DEF Threads, ConfigInv
<1>1. CASE LoadForCreate(c)
  <2>1. /\ OnlyThread(c) /\ doing[c].pc = "idle" /\ doing'[c].pc = "create"
        /\ doing'[c].base = Loaded(HomeOf[c]) /\ UNCHANGED <<config, crossed, outcomes>>
        /\ Read(c, "idle", "create")
    BY <1>0, <1>1, ReadBackup DEF LoadForCreate, BackupPlaces
  <2>2. \A w \in Processes : defaults'[w] \subseteq defaults[w] \cup {c}
    BY <1>0, <1>1 DEF LoadForCreate, BackupTypes
  <2>3. config.there => defaults' = defaults
    BY <1>1 DEF LoadForCreate
  <2>4. /\ Loaded(HomeOf[c]).loaded /\ Loaded(HomeOf[c]).there = config.there
        /\ Loaded(HomeOf[c]).password = config.password /\ Loaded(HomeOf[c]).runs = config.runs
        /\ Loaded(HomeOf[c]).jobs = IF config.there THEN config.jobs ELSE defaults[HomeOf[c]]
    BY <1>0, LoadedType
  <2>5. ASSUME NEW t \in Threads PROVE Current(t)'
    <3>1. CASE t = c
      BY <2>1, <2>4, <3>1 DEF Current
    <3>2. CASE t # c
      BY <2>1, <3>2 DEF Current, OnlyThread, ConfigInv
    <3> QED BY <3>1, <3>2
  <2>6. \A t \in Threads : doing'[t].pc \in Writing => doing'[t].base.loaded
    BY <2>1, <2>4 DEF OnlyThread, ConfigInv
  <2>7. c \notin outcomes.failed
    BY <1>0, <2>1, NotFailed
  <2>8. ASSUME NEW d \in Creators, Spared(d)' PROVE Nowhere(d)'
    <3>0. d \in Threads
      BY DEF Threads
    <3>1. Nowhere(d)
      BY <2>1, <2>8, <3>0 DEF Spared, OnlyThread, ConfigInv
    <3>2. CASE d = c
      <4>1. config.there
        BY <2>1, <2>4, <2>7, <2>8, <3>2 DEF Spared
      <4> QED BY <2>1, <2>3, <2>4, <3>1, <4>1 DEF Nowhere, OnlyThread
    <3>3. CASE d # c
      <4>1. d \notin Loaded(HomeOf[c]).jobs
        BY <1>0, <2>4, <3>1 DEF Nowhere
      <4> QED BY <2>1, <2>2, <3>1, <3>3, <4>1 DEF Nowhere, OnlyThread
    <3> QED BY <3>2, <3>3
  <2>9. \A d \in outcomes'.failed : doing'[d].pc = "done"
    BY <1>0, <2>1, <2>7 DEF OnlyThread, ConfigInv, BackupTypes, Threads
  <2>10. /\ ~config'.there => outcomes'.done = {}
         /\ ~crossed' => Saved'
    BY <2>1 DEF ConfigInv, Saved
  <2> QED BY <2>5, <2>6, <2>8, <2>9, <2>10 DEF ConfigInv
<1>2. CASE SaveCreated(c)
  <2> DEFINE cfg == [Base(c) EXCEPT !.jobs = @ \cup {c}]
  <2>1. /\ Write(c, cfg, "done") /\ doing[c].pc = "create" /\ UNCHANGED defaults
        /\ outcomes' = [outcomes EXCEPT !.done = @ \cup {c}]
    BY <1>2 DEF SaveCreated, BackupAt
  <2>2. /\ cfg \in AConfig /\ Base(c) \in AConfig /\ Base(c).there
    BY <1>0, WrittenTypes, BaseType
  <2>3. cfg.there /\ cfg.jobs = Base(c).jobs \cup {c} /\ cfg.runs = Base(c).runs
        /\ cfg.password = Base(c).password
    BY <2>2 DEF AConfig
  <2>4. outcomes'.done = outcomes.done \cup {c} /\ outcomes'.failed = outcomes.failed
    BY <1>0, <2>1 DEF BackupTypes
  <2> HIDE DEF cfg
  <2>5. config' = cfg
    BY <2>1 DEF Write
  <2>6. ASSUME ~doing[c].base.stale, Saved PROVE Saved'
    <3>1. /\ Base(c).password = config.password /\ Base(c).runs = config.runs
          /\ config.there => Base(c).jobs = config.jobs
          /\ ~config.there => First \notin Base(c).jobs
      BY <1>0, <2>1, <2>6, FreshBase DEF Writing
    <3>2. ~config.there => outcomes.done = {}
      BY DEF ConfigInv
    <3>3. c \notin BackupRuns \cup Savers
      BY BackupsAssumption DEF Backupers
    <3> QED BY <1>0, <2>3, <2>4, <2>5, <2>6, <3>1, <3>2, <3>3 DEF Saved
  <2>7. "done" \in BackupPlaces \ (Writing \cup {"idle"})
    BY DEF BackupPlaces, Writing
  <2>8. doing[c].pc \in Writing
    BY <2>1 DEF Writing
  <2>9. \A d \in Creators : d \in cfg.jobs => d \in Base(c).jobs \/ d = c
    BY <2>3
  <2> QED BY <1>0, <2>1, <2>2, <2>3, <2>4, <2>6, <2>7, <2>8, <2>9, WriteConfig
<1>3. CASE SaveCreatedFails(c)
  <2>1. /\ OnlyThread(c) /\ doing[c].pc = "create" /\ doing'[c].pc = "done"
        /\ doing'[c].base = NoBase /\ UNCHANGED <<config, defaults, crossed>>
    BY <1>0, <1>3, GoBackup DEF SaveCreatedFails, BackupPlaces, BackupAt, atRest
  <2>2. /\ outcomes'.done = outcomes.done
        /\ outcomes'.failed = IF doing[c].base.there THEN outcomes.failed \cup {c}
                              ELSE outcomes.failed
    BY <1>0, <1>3 DEF SaveCreatedFails, BackupTypes
  <2>3. c \notin outcomes.failed
    BY <1>0, <2>1, NotFailed
  <2>4. \A d \in outcomes'.failed :
            \/ d \in outcomes.failed /\ d # c
            \/ d = c /\ doing'[c].pc = "done" /\ doing[c].pc = "create" /\ doing[c].base.there
    BY <2>1, <2>2, <2>3
  <2>5. doing'[c].pc \notin Writing
    BY <2>1 DEF Writing
  <2> QED BY <1>0, <2>1, <2>2, <2>4, <2>5, QuietThread
<1> QED BY <1>1, <1>2, <1>3

LEMMA EditorConfig ==
  ASSUME ConfigInv, BackupTypes', NEW c \in Editors,
         LoadForEdit(c) \/ SaveEdited(c) \/ RefuseEdit(c)
  PROVE  ConfigInv'
<1>0. c \in Threads /\ BackupTypes
  BY DEF Threads, ConfigInv
<1>1. CASE LoadForEdit(c)
  <2>1. /\ OnlyThread(c) /\ doing[c].pc = "idle" /\ doing'[c].pc = "edit"
        /\ doing'[c].base = Loaded(HomeOf[c])
        /\ UNCHANGED <<config, defaults, crossed, outcomes>>
    BY <1>0, <1>1, ReadBackup DEF LoadForEdit, BackupPlaces, atRest
  <2>2. c \notin outcomes.failed /\ Loaded(HomeOf[c]).loaded
    BY <1>0, <2>1, NotFailed, LoadedType
  <2> QED BY <1>0, <2>1, <2>2, QuietThread
<1>2. CASE SaveEdited(c)
  <2>1. /\ doing[c].pc = "edit" /\ UNCHANGED <<defaults, outcomes>>
        /\ \/ First \in Base(c).jobs /\ Write(c, Base(c), "done")
           \/ Write(c, [Base(c) EXCEPT !.jobs = @ \ {First}, !.runs = {}], "done")
    BY <1>2 DEF SaveEdited, BackupAt
  <2>2. "done" \in BackupPlaces \ (Writing \cup {"idle"}) /\ doing[c].pc \in Writing
    BY <2>1 DEF BackupPlaces, Writing
  <2>3. Base(c) \in AConfig /\ Base(c).there
    BY <1>0, BaseType
  <2>4. ASSUME ~doing[c].base.stale
        PROVE  /\ Base(c).password = config.password /\ Base(c).runs = config.runs
               /\ config.there => Base(c).jobs = config.jobs
               /\ ~config.there => First \notin Base(c).jobs /\ outcomes.done = {}
    BY <1>0, <2>2, <2>4, FreshBase DEF ConfigInv
  <2>5. CASE First \in Base(c).jobs /\ Write(c, Base(c), "done")
    <3>1. config' = Base(c)
      BY <2>5 DEF Write
    <3>2. ~doing[c].base.stale /\ Saved => Saved'
      BY <2>1, <2>4, <3>1 DEF Saved
    <3> QED BY <1>0, <2>1, <2>2, <2>3, <2>5, <3>2, WriteConfig
  <2>6. CASE Write(c, [Base(c) EXCEPT !.jobs = @ \ {First}, !.runs = {}], "done")
    <3> DEFINE cfg == [Base(c) EXCEPT !.jobs = @ \ {First}, !.runs = {}]
    <3>1. cfg \in AConfig
      BY <1>0, WrittenTypes
    <3>2. cfg.there /\ cfg.jobs = Base(c).jobs \ {First} /\ cfg.password = Base(c).password
      BY <2>3 DEF AConfig
    <3>3. Write(c, cfg, "done")
      BY <2>6
    <3> HIDE DEF cfg
    <3>4. config' = cfg
      BY <3>3 DEF Write
    <3>5. First \notin Creators
      BY BackupsAssumption
    <3>6. ~doing[c].base.stale /\ Saved => Saved'
      BY <2>1, <2>4, <3>2, <3>4, <3>5 DEF Saved
    <3> QED BY <1>0, <2>1, <2>2, <3>1, <3>2, <3>3, <3>6, WriteConfig
  <2> QED BY <2>1, <2>5, <2>6
<1>3. CASE RefuseEdit(c)
  <2>1. /\ OnlyThread(c) /\ doing[c].pc = "edit" /\ doing'[c].pc = "done"
        /\ doing'[c].base = NoBase /\ UNCHANGED <<config, defaults, crossed, outcomes>>
    BY <1>0, <1>3, GoBackup DEF RefuseEdit, BackupPlaces, BackupAt, atRest
  <2>2. c \notin outcomes.failed /\ doing'[c].pc \notin Writing
    BY <1>0, <2>1, NotFailed DEF Writing
  <2> QED BY <1>0, <2>1, <2>2, QuietThread
<1> QED BY <1>1, <1>2, <1>3

LEMMA SaverConfig ==
  ASSUME ConfigInv, BackupTypes', NEW s \in Savers,
         LoadSettings(s) \/ SaveSettings(s) \/ RefuseSettings(s)
  PROVE  ConfigInv'
<1>0. s \in Threads /\ BackupTypes
  BY DEF Threads, ConfigInv
<1>1. CASE LoadSettings(s)
  <2>1. /\ OnlyThread(s) /\ doing[s].pc = "idle" /\ doing'[s].pc = "save"
        /\ doing'[s].base = Loaded(HomeOf[s])
        /\ UNCHANGED <<config, defaults, crossed, outcomes>>
    BY <1>0, <1>1, ReadBackup DEF LoadSettings, BackupPlaces, atRest
  <2>2. s \notin outcomes.failed /\ Loaded(HomeOf[s]).loaded
    BY <1>0, <2>1, NotFailed, LoadedType
  <2> QED BY <1>0, <2>1, <2>2, QuietThread
<1>2. CASE SaveSettings(s)
  <2> DEFINE cfg == WithSettings(s)
  <2>1. /\ Write(s, cfg, "done") /\ doing[s].pc = "save" /\ UNCHANGED defaults
        /\ outcomes' = [outcomes EXCEPT !.done = @ \cup {s}]
    BY <1>2 DEF SaveSettings, BackupAt
  <2>2. /\ cfg \in AConfig /\ Base(s) \in AConfig /\ Base(s).there
    BY <1>0, WrittenTypes, BaseType
  <2>3. cfg.there /\ cfg.jobs = Base(s).jobs /\ cfg.runs = Base(s).runs /\ cfg.password
    BY <2>2 DEF AConfig, WithSettings
  <2>4. outcomes'.done = outcomes.done \cup {s} /\ outcomes'.failed = outcomes.failed
    BY <1>0, <2>1 DEF BackupTypes
  <2> HIDE DEF cfg
  <2>5. config' = cfg
    BY <2>1 DEF Write
  <2>6. ASSUME ~doing[s].base.stale, Saved PROVE Saved'
    <3>1. /\ Base(s).runs = config.runs
          /\ config.there => Base(s).jobs = config.jobs
      BY <1>0, <2>1, <2>6, FreshBase DEF Writing
    <3>2. ~config.there => outcomes.done = {}
      BY DEF ConfigInv
    <3>3. s \notin BackupRuns \cup Creators
      BY BackupsAssumption DEF Backupers
    <3> QED BY <1>0, <2>3, <2>4, <2>5, <2>6, <3>1, <3>2, <3>3 DEF Saved
  <2>7. "done" \in BackupPlaces \ (Writing \cup {"idle"}) /\ doing[s].pc \in Writing
    BY <2>1 DEF BackupPlaces, Writing
  <2>9. \A d \in Creators : d \in cfg.jobs => d \in Base(s).jobs \/ d = s
    BY <2>3
  <2> QED BY <1>0, <2>1, <2>2, <2>3, <2>4, <2>6, <2>7, <2>9, WriteConfig
<1>3. CASE RefuseSettings(s)
  <2>1. /\ OnlyThread(s) /\ doing[s].pc = "save" /\ doing'[s].pc = "done"
        /\ doing'[s].base = NoBase /\ UNCHANGED <<config, defaults, crossed, outcomes>>
    BY <1>0, <1>3, GoBackup DEF RefuseSettings, BackupPlaces, BackupAt, atRest
  <2>2. s \notin outcomes.failed /\ doing'[s].pc \notin Writing
    BY <1>0, <2>1, NotFailed DEF Writing
  <2> QED BY <1>0, <2>1, <2>2, QuietThread
<1> QED BY <1>1, <1>2, <1>3

LEMMA BackupConfig ==
  ASSUME ConfigInv, BackupTypes', NEW b \in Backupers, BackupStep(b)
  PROVE  ConfigInv'
<1>0. b \in Threads /\ BackupTypes /\ b \notin Creators
  BY BackupsAssumption DEF Threads, ConfigInv
<1>1. b \notin outcomes.failed
  BY <1>0 DEF BackupTypes
<1>2. ASSUME OnlyThread(b), UNCHANGED <<config, defaults, crossed, outcomes>>,
             doing'[b].base \in {doing[b].base, NoBase, Loaded(HomeOf[b])},
             doing'[b].pc \notin {"idle", "create"},
             doing'[b].pc \in Writing => doing'[b].base.loaded
      PROVE  ConfigInv'
  BY <1>0, <1>1, <1>2, QuietThread
<1>3. CASE StartBackup(b)
  <2>1. /\ OnlyThread(b) /\ doing'[b].pc \in {"begin", "done"}
        /\ doing'[b].base = Loaded(HomeOf[b])
    BY <1>0, <1>3, BackupStarted
  <2> QED BY <1>2, <1>3, <2>1 DEF StartBackup, atRest, Writing
<1>4. CASE OpenArchive(b)
  <2>1. /\ OnlyThread(b) /\ doing'[b].pc = "write" /\ doing'[b].base = doing[b].base
    BY <1>0, <1>4, OpenedArchive
  <2> QED BY <1>2, <1>4, <2>1 DEF OpenArchive, Writing
<1>5. ASSUME NEW pc \in BackupPlaces \ (Writing \cup {"idle"}), Go(b, pc),
             UNCHANGED <<config, defaults, crossed, outcomes>>
      PROVE  ConfigInv'
  <2>1. /\ OnlyThread(b) /\ doing'[b].pc = pc /\ doing'[b].base = NoBase
    BY <1>0, <1>5, GoBackup
  <2> QED BY <1>2, <1>5, <2>1 DEF Writing
<1>6. {"send", "done", "failed"} \subseteq BackupPlaces \ (Writing \cup {"idle"})
  BY DEF BackupPlaces, Writing
<1>7. CASE CloseArchive(b)
  BY <1>5, <1>6, <1>7 DEF CloseArchive
<1>8. CASE WriteFails(b)
  BY <1>5, <1>6, <1>8 DEF WriteFails, atRest
<1>9. CASE Transfer(b)
  <2>1. /\ OnlyThread(b) /\ doing'[b].pc = "succeeded" /\ doing'[b].base = doing[b].base
    BY <1>0, <1>9, Transferred
  <2> QED BY <1>2, <1>9, <2>1 DEF Transfer, atRest, Writing
<1>10. CASE LoadForRecord(b)
  <2>1. PICK from \in BackupPlaces, to \in {"success", "failure", "prune"} : Read(b, from, to)
    <3>1. {"succeeded", "failed", "recorded"} \subseteq BackupPlaces
      BY DEF BackupPlaces
    <3> QED BY <1>10, <3>1 DEF LoadForRecord
  <2>2. to \in BackupPlaces
    BY DEF BackupPlaces
  <2>3. /\ OnlyThread(b) /\ doing'[b].pc = to /\ doing'[b].base = Loaded(HomeOf[b])
        /\ Loaded(HomeOf[b]).loaded
    BY <1>0, <2>1, <2>2, ReadBackup, LoadedType
  <2> QED BY <1>2, <1>10, <2>3 DEF LoadForRecord, atRest
<1>11. CASE SaveRecord(b)
  <2> DEFINE cfg == Recorded(b)
             pc == IF BackupAt(b, "success") THEN "recorded" ELSE "finally"
  <2>1. /\ Write(b, cfg, pc) /\ doing[b].pc \in {"success", "failure"} /\ UNCHANGED defaults
        /\ outcomes' = [outcomes EXCEPT
                      !.done = IF First \in Base(b).jobs THEN @ \cup {b} ELSE @]
    BY <1>11 DEF SaveRecord, BackupAt
  <2>2. /\ cfg \in AConfig /\ Base(b) \in AConfig /\ Base(b).there
    BY <1>0, WrittenTypes, BaseType
  <2>3. /\ cfg.there /\ cfg.jobs = Base(b).jobs /\ cfg.password = Base(b).password
        /\ Base(b).runs \subseteq cfg.runs
        /\ First \in Base(b).jobs => \E r \in cfg.runs : r.by = b
    <3> DEFINE r == [by |-> b, name |-> doing[b].name,
                      status |-> IF BackupAt(b, "success") THEN "success" ELSE "failed",
                      remote |-> doing[b].remote]
    <3>1. r.by = b
      OBVIOUS
    <3>2. cfg = [Base(b) EXCEPT !.runs = IF First \notin Base(b).jobs THEN @ ELSE @ \cup {r}]
      BY DEF Recorded
    <3> HIDE DEF r, cfg
    <3>3. /\ cfg.there = Base(b).there /\ cfg.jobs = Base(b).jobs
          /\ cfg.password = Base(b).password
          /\ cfg.runs = IF First \notin Base(b).jobs THEN Base(b).runs ELSE Base(b).runs \cup {r}
      BY <2>2, <3>2 DEF AConfig
    <3> QED BY <2>2, <3>1, <3>3
  <2>4. /\ outcomes'.done = IF First \in Base(b).jobs THEN outcomes.done \cup {b}
                            ELSE outcomes.done
        /\ outcomes'.failed = outcomes.failed
    BY <1>0, <2>1 DEF BackupTypes
  <2>5. pc \in BackupPlaces \ (Writing \cup {"idle"}) /\ doing[b].pc \in Writing
    BY <2>1 DEF BackupPlaces, Writing
  <2> HIDE DEF cfg, pc
  <2>6. config' = cfg
    BY <2>1 DEF Write
  <2>7. ASSUME ~doing[b].base.stale, Saved PROVE Saved'
    <3>1. /\ Base(b).password = config.password /\ Base(b).runs = config.runs
          /\ config.there => Base(b).jobs = config.jobs
      BY <1>0, <2>5, <2>7, FreshBase
    <3>2. ~config.there => outcomes.done = {}
      BY DEF ConfigInv
    <3>3. b \notin Creators \cup Savers
      BY BackupsAssumption
    <3>4. \A c \in Creators \cap outcomes'.done : c \in config'.jobs
      BY <2>3, <2>4, <2>6, <2>7, <3>1, <3>2, <3>3 DEF Saved
    <3>5. Savers \cap outcomes'.done # {} => config'.password
      BY <2>3, <2>4, <2>6, <2>7, <3>1, <3>2, <3>3 DEF Saved
    <3>6. ASSUME NEW c \in BackupRuns \cap outcomes'.done, First \in config'.jobs
          PROVE  \E r \in config'.runs : r.by = c
      <4>1. CASE c = b
        BY <2>3, <2>6, <3>6, <4>1
      <4>2. CASE c # b
        BY <2>3, <2>4, <2>6, <2>7, <3>1, <3>2, <3>6, <4>2 DEF Saved
      <4> QED BY <4>1, <4>2
    <3> QED BY <3>4, <3>5, <3>6 DEF Saved
  <2>8. \A d \in Creators : d \in cfg.jobs => d \in Base(b).jobs \/ d = b
    BY <2>3
  <2> QED BY <1>0, <2>1, <2>2, <2>3, <2>4, <2>5, <2>7, <2>8, WriteConfig
<1>12. CASE SavePrunedRuns(b)
  <2>1. /\ Write(b, Base(b), "finally") /\ doing[b].pc = "prune" /\ UNCHANGED <<defaults, outcomes>>
    BY <1>12 DEF SavePrunedRuns, BackupAt
  <2>2. "finally" \in BackupPlaces \ (Writing \cup {"idle"}) /\ doing[b].pc \in Writing
    BY <2>1 DEF BackupPlaces, Writing
  <2>3. Base(b) \in AConfig /\ Base(b).there
    BY <1>0, BaseType
  <2>4. config' = Base(b)
    BY <2>1 DEF Write
  <2>5. ASSUME ~doing[b].base.stale, Saved PROVE Saved'
    <3>1. /\ Base(b).password = config.password /\ Base(b).runs = config.runs
          /\ config.there => Base(b).jobs = config.jobs
          /\ ~config.there => outcomes.done = {}
      BY <1>0, <2>2, <2>5, FreshBase DEF ConfigInv
    <3> QED BY <2>1, <2>4, <2>5, <3>1 DEF Saved
  <2> QED BY <1>0, <2>1, <2>2, <2>3, <2>5, WriteConfig
<1>13. CASE SaveRecordFails(b)
  <2>1. /\ OnlyThread(b) /\ doing'[b].pc \in {"finally", "failed"} /\ doing'[b].base = NoBase
    BY <1>0, <1>13, RecordFailed
  <2> QED BY <1>2, <1>13, <2>1 DEF SaveRecordFails, atRest, Writing
<1>14. CASE EndBackup(b)
  BY <1>5, <1>6, <1>14 DEF EndBackup, atRest
<1> QED
  BY <1>3, <1>4, <1>7, <1>8, <1>9, <1>10, <1>11, <1>12, <1>13, <1>14 DEF BackupStep

LEMMA ConfigNext == ConfigInv /\ [BackupsNext]_backupVars => ConfigInv'
<1> SUFFICES ASSUME ConfigInv, [BackupsNext]_backupVars PROVE ConfigInv'
  OBVIOUS
<1>0. BackupTypes /\ BackupTypes'
  BY BackupsTypesNext DEF ConfigInv
<1>1. ASSUME UNCHANGED <<config, defaults, doing, outcomes, crossed>> PROVE ConfigInv'
  <2>1. \A t \in Threads : Current(t)'
    BY <1>1 DEF Current, ConfigInv
  <2>2. \A c \in Creators : Spared(c)' => Nowhere(c)'
    BY <1>1 DEF Spared, Nowhere, ConfigInv
  <2>3. ~crossed' => Saved'
    BY <1>1 DEF Saved, ConfigInv
  <2> QED BY <1>0, <1>1, <2>1, <2>2, <2>3 DEF ConfigInv
<1>2. CASE MinutePasses
  BY <1>1, <1>2 DEF MinutePasses
<1>3. CASE UNCHANGED backupVars
  BY <1>1, <1>3 DEF backupVars
<1>4. ASSUME NEW w \in Processes, BackupWorkerDies(w) PROVE ConfigInv'
  <2>1. /\ \A t \in Threads :
               \/ doing'[t].pc = doing[t].pc /\ doing'[t].base = doing[t].base
               \/ doing'[t].pc = "done" /\ doing'[t].base = NoBase
        /\ \A v \in Processes : defaults'[v] \subseteq defaults[v]
        /\ UNCHANGED <<config, crossed, outcomes>>
    BY <1>0, <1>4, WorkerDead DEF BackupWorkerDies
  <2>2. \A c \in Creators : Spared(c)' => Spared(c)
    BY <2>1 DEF Spared, Threads
  <2>3. \A c \in outcomes'.failed : doing'[c].pc = "done"
    BY <1>0, <2>1 DEF ConfigInv, BackupTypes, Threads
  <2>4. \A t \in Threads : doing'[t].pc \in Writing => doing'[t].base.loaded
    BY <2>1 DEF ConfigInv, Writing
  <2> QED BY <1>0, <2>1, <2>2, <2>3, <2>4, QuietConfig
<1> QED
  BY <1>0, <1>2, <1>3, <1>4, CreatorConfig, EditorConfig, SaverConfig, BackupConfig
     DEF BackupsNext

(* The writers of backup_config.json do not undo each other unless a write    *)
(* crossed another, and a job that was refused while there was a file stays   *)
(* out of it: SavedIsKept.                                                    *)
THEOREM SavedCorrect == BackupsSpec => []SavedIsKept
<1>1. ConfigInv => SavedIsKept
  <2> SUFFICES ASSUME ConfigInv PROVE SavedIsKept
    OBVIOUS
  <2>1. \A c \in outcomes.failed : c \in Creators /\ Spared(c)
    BY DEF ConfigInv, BackupTypes, Spared
  <2>2. \A c \in outcomes.failed : c \notin config.jobs
    BY <2>1 DEF ConfigInv, Nowhere
  <2> QED BY <2>2 DEF ConfigInv, Saved, SavedIsKept
<1> QED BY <1>1, ConfigInit, ConfigNext, PTL DEF BackupsSpec

-----------------------------------------------------------------------------
(* The archives                                                             *)

Begun(d) == {b \in Backupers : d[b].name # 0}

(* Those that count against b: begun, and not yet closed when b was.         *)
Later(d, b) == {o \in Backupers \ {b} : d[o].name # 0 /\ o \notin d[b].after}

(* The archive of b is in the directory dir, whole if b has closed it, and   *)
(* each that was modified after it is of a backup that counts against b.     *)
Stands(dir, d, done, b) ==
    \E i \in DOMAIN dir :
        /\ dir[i].name = d[b].name /\ b \in dir[i].writers
        /\ b \in done => dir[i].whole
        /\ \A k \in DOMAIN dir : k > i => \E o \in Later(d, b) : d[o].name = dir[k].name

Rival(d, b) == \E o \in Backupers \ {b} : d[o].name = d[b].name
Crowded(d, b) == Cardinality(Later(d, b)) >= MaxFiles

Kept(b) == Stands(directory, doing, closed, b) \/ Rival(doing, b) \/ Crowded(doing, b)

DistinctNames(dir) == \A i, j \in DOMAIN dir : dir[i].name = dir[j].name => i = j

(* Those who write an archive have begun it.                                 *)
WritersBegan(dir, d) ==
    \A i \in DOMAIN dir : dir[i].name # 0 /\ \A x \in dir[i].writers : d[x].name = dir[i].name

TrueRuns(runs, d, done) ==
    \A r \in runs : r.status = "success" => r.by \in done /\ r.name = d[r.by].name

BackupPlace(b) ==
    /\ doing[b].pc \in {"idle", "begin"} => doing[b].name = 0
    /\ b \in closed => doing[b].pc \notin {"idle", "begin", "write"}
    /\ b \in closed \/ doing[b].pc = "write" => doing[b].name # 0 /\ Kept(b)
    /\ doing[b].pc \in {"send", "succeeded", "success"} => b \in closed
    /\ doing[b].after \subseteq closed

ArchiveInv ==
    /\ BackupTypes
    /\ DistinctNames(directory) /\ WritersBegan(directory, doing)
    /\ IsFiniteSet(Begun(doing))
    /\ \A b \in Backupers : BackupPlace(b)
    /\ TrueRuns(config.runs, doing, closed)
    /\ \A t \in Threads : TrueRuns(doing[t].base.runs, doing, closed)

LEMMA ArchiveInit == BackupsInit => ArchiveInv
<1> SUFFICES ASSUME BackupsInit PROVE ArchiveInv
  OBVIOUS
<1>1. BackupTypes
  BY BackupsTypesInit
<1>2. \A t \in Threads : /\ doing[t].pc = "idle" /\ doing[t].base = NoBase
                         /\ doing[t].name = 0 /\ doing[t].after = {}
  BY DEF BackupsInit
<1>3. directory = << >> /\ closed = {} /\ config.runs = {}
  BY DEF BackupsInit
<1>4. Begun(doing) = {}
  BY <1>2 DEF Begun, Threads
<1>5. IsFiniteSet(Begun(doing))
  BY <1>4, FS_EmptySet
<1>6. DistinctNames(directory) /\ WritersBegan(directory, doing)
  BY <1>3 DEF DistinctNames, WritersBegan
<1>7. \A b \in Backupers : BackupPlace(b)
  BY <1>2, <1>3 DEF BackupPlace, Threads
<1>8. \A t \in Threads : TrueRuns(doing[t].base.runs, doing, closed)
  BY <1>2, NoBaseType DEF TrueRuns
<1> QED BY <1>1, <1>3, <1>5, <1>6, <1>7, <1>8 DEF ArchiveInv, TrueRuns

(* Names are given once: what counts against b goes on counting.             *)
LEMMA LaterGrows ==
  ASSUME NEW d, NEW e, NEW b \in Backupers, IsFiniteSet(Begun(e)), d[b].name # 0,
         e[b].name = d[b].name, e[b].after = d[b].after, MaxFiles \in Nat,
         \A o \in Backupers : d[o].name # 0 => e[o].name = d[o].name
  PROVE  /\ Later(d, b) \subseteq Later(e, b) /\ IsFiniteSet(Later(e, b))
         /\ Rival(d, b) => Rival(e, b)
         /\ Crowded(d, b) => Crowded(e, b)
<1>1. Later(d, b) \subseteq Later(e, b) /\ Later(e, b) \subseteq Begun(e)
  BY DEF Later, Begun
<1>2. /\ IsFiniteSet(Later(e, b)) /\ IsFiniteSet(Later(d, b))
      /\ Cardinality(Later(d, b)) <= Cardinality(Later(e, b))
  BY <1>1, FS_Subset
<1>3. Cardinality(Later(d, b)) \in Nat /\ Cardinality(Later(e, b)) \in Nat
  BY <1>2, FS_CardinalityType
<1>4. Crowded(d, b) => Crowded(e, b)
  BY <1>2, <1>3 DEF Crowded
<1>5. Rival(d, b) => Rival(e, b)
  BY DEF Rival
<1> QED BY <1>1, <1>2, <1>4, <1>5

(* Without the archive of a name: the others, in their order.                *)
LEMMA OthersFacts ==
  ASSUME directory \in Seq(AnArchive), DistinctNames(directory), NEW name
  PROVE  /\ Others(name) \in Seq(AnArchive)
         /\ \A k \in DOMAIN Others(name) :
               /\ Others(name)[k].name # name
               /\ \E l \in DOMAIN directory : Others(name)[k] = directory[l]
         /\ DistinctNames(Others(name))
         /\ \A i \in DOMAIN directory : directory[i].name # name =>
               \E j \in DOMAIN Others(name) :
                  /\ Others(name)[j] = directory[i]
                  /\ \A k \in DOMAIN Others(name) : k > j =>
                        \E l \in DOMAIN directory : l > i /\ Others(name)[k] = directory[l]
<1> DEFINE s == Others(name)
<1>0. DOMAIN directory = 1..Len(directory) /\ Len(directory) \in Nat
  OBVIOUS
<1>1. CASE Named(name) = {}
  <2>1. s = directory
    BY <1>1 DEF Others
  <2>2. \A k \in DOMAIN directory : directory[k].name # name
    BY <1>1 DEF Named, ToSet
  <2> HIDE DEF s
  <2> QED BY <2>1, <2>2 DEF s
<1>2. CASE Named(name) # {}
  <2> DEFINE p == Position(name)
  <2>1. p \in 1..Len(directory) /\ directory[p].name = name
    BY <1>2, PositionFacts
  <2>2. s = RemoveAt(directory, p)
    BY <1>2 DEF Others
  <2> HIDE DEF p, s
  <2>3. /\ s \in Seq(AnArchive) /\ Len(s) = Len(directory) - 1
        /\ \A k \in 1..(Len(directory) - 1) :
              s[k] = IF k < p THEN directory[k] ELSE directory[k + 1]
    BY <2>1, <2>2, RemovedAt
  <2>4. DOMAIN s = 1..(Len(directory) - 1)
    BY <2>3
  <2> DEFINE at(k) == IF k < p THEN k ELSE k + 1
  <2>5. \A k \in DOMAIN s : /\ at(k) \in DOMAIN directory /\ at(k) # p
                            /\ s[k] = directory[at(k)]
    BY <1>0, <2>1, <2>3, <2>4
  <2>6. \A k, j \in DOMAIN s : (at(k) = at(j) => k = j) /\ (k > j => at(k) > at(j))
    BY <1>0, <2>1, <2>4
  <2>7. \A i \in DOMAIN directory : i # p => \E j \in DOMAIN s : at(j) = i
    <3> SUFFICES ASSUME NEW i \in DOMAIN directory, i # p PROVE \E j \in DOMAIN s : at(j) = i
      OBVIOUS
    <3>1. CASE i < p
      BY <1>0, <2>1, <2>4, <3>1
    <3>2. CASE i > p
      <4>1. i - 1 \in DOMAIN s /\ at(i - 1) = i
        BY <1>0, <2>1, <2>4, <3>2
      <4> QED BY <4>1
    <3> QED BY <1>0, <2>1, <3>1, <3>2
  <2> HIDE DEF at
  <2>8. \A k \in DOMAIN s : /\ s[k].name # name
                            /\ \E l \in DOMAIN directory : s[k] = directory[l]
    BY <1>0, <2>1, <2>5 DEF DistinctNames
  <2>9. DistinctNames(s)
    BY <2>5, <2>6 DEF DistinctNames
  <2>10. ASSUME NEW i \in DOMAIN directory, directory[i].name # name
         PROVE  \E j \in DOMAIN s :
                  /\ s[j] = directory[i]
                  /\ \A k \in DOMAIN s : k > j =>
                        \E l \in DOMAIN directory : l > i /\ s[k] = directory[l]
    <3>1. i # p
      BY <2>1, <2>10
    <3>2. PICK j \in DOMAIN s : at(j) = i
      BY <2>7, <3>1
    <3> QED BY <2>5, <2>6, <3>2
  <2> QED BY <2>3, <2>8, <2>9, <2>10 DEF s
<1> QED BY <1>1, <1>2

(* An archive that stands still stands when another goes to the end.         *)
LEMMA StandsBehind ==
  ASSUME directory \in Seq(AnArchive), DistinctNames(directory),
         NEW d, NEW e, NEW done, NEW after, NEW b \in Backupers, NEW a \in AnArchive,
         Stands(directory, d, done, b), a.name # d[b].name, b \in after => b \in done,
         e[b].name = d[b].name, Later(d, b) \subseteq Later(e, b),
         \A o \in Later(d, b) : e[o].name = d[o].name,
         \E o \in Later(e, b) : e[o].name = a.name
  PROVE  Stands(Append(Others(a.name), a), e, after, b)
<1> DEFINE s == Others(a.name)
           t == Append(s, a)
<1>1. PICK i \in DOMAIN directory :
        /\ directory[i].name = d[b].name /\ b \in directory[i].writers
        /\ b \in done => directory[i].whole
        /\ \A k \in DOMAIN directory : k > i =>
              \E o \in Later(d, b) : d[o].name = directory[k].name
  BY DEF Stands
<1>2. /\ s \in Seq(AnArchive)
      /\ \A l \in DOMAIN directory : directory[l].name # a.name =>
               \E j \in DOMAIN s :
                  /\ s[j] = directory[l]
                  /\ \A k \in DOMAIN s : k > j =>
                        \E h \in DOMAIN directory : h > l /\ s[k] = directory[h]
  BY OthersFacts
<1> HIDE DEF s
<1>3. PICK j \in DOMAIN s :
        /\ s[j] = directory[i]
        /\ \A k \in DOMAIN s : k > j =>
              \E l \in DOMAIN directory : l > i /\ s[k] = directory[l]
  BY <1>1, <1>2
<1>4. /\ DOMAIN t = 1..(Len(s) + 1) /\ DOMAIN s = 1..Len(s) /\ t[Len(s) + 1] = a
      /\ Len(s) \in Nat /\ \A k \in DOMAIN s : t[k] = s[k]
  BY <1>2
<1> HIDE DEF t
<1>5. ASSUME NEW k \in DOMAIN t, k > j PROVE \E o \in Later(e, b) : e[o].name = t[k].name
  <2>1. CASE k \in DOMAIN s
    <3>1. PICK l \in DOMAIN directory : l > i /\ s[k] = directory[l]
      BY <1>3, <1>5, <2>1
    <3>2. PICK o \in Later(d, b) : d[o].name = directory[l].name
      BY <1>1, <3>1
    <3>3. t[k] = directory[l]
      BY <1>4, <2>1, <3>1
    <3> QED BY <3>2, <3>3
  <2>2. CASE k = Len(s) + 1
    BY <1>4, <2>2
  <2> QED BY <1>4, <1>5, <2>1, <2>2
<1>6. j \in DOMAIN t /\ t[j] = directory[i]
  BY <1>3, <1>4
<1>7. Stands(t, e, after, b)
  BY <1>1, <1>5, <1>6 DEF Stands
<1> QED BY <1>7 DEF t, s

(* It is pruned only when as many as are kept count against it.              *)
LEMMA PrunedStands ==
  ASSUME NEW s \in Seq(AnArchive), DistinctNames(s), NEW d, NEW done, NEW b \in Backupers,
         Stands(s, d, done, b), IsFiniteSet(Later(d, b)), MaxFiles \in Nat
  PROVE  Stands(Pruned(s, MaxFiles), d, done, b) \/ Crowded(d, b)
<1> DEFINE t == Pruned(s, MaxFiles)
           m == Dropped(Len(s), MaxFiles)
<1>1. PICK i \in DOMAIN s :
        /\ s[i].name = d[b].name /\ b \in s[i].writers
        /\ b \in done => s[i].whole
        /\ \A k \in DOMAIN s : k > i => \E o \in Later(d, b) : d[o].name = s[k].name
  BY DEF Stands
<1>2. /\ m \in 0..Len(s) /\ t \in Seq(AnArchive) /\ Len(t) = Len(s) - m
      /\ \A k \in 1..(Len(s) - m) : t[k] = s[m + k]
      /\ m > 0 => Len(s) - m = MaxFiles
  BY PrunedFacts DEF Dropped
<1> HIDE DEF t, m
<1>3. DOMAIN s = 1..Len(s) /\ DOMAIN t = 1..(Len(s) - m) /\ Len(s) \in Nat
  BY <1>2
<1>6. i \in 1..Len(s) /\ m \in 0..Len(s)
  BY <1>1, <1>2, <1>3
<1>4. CASE i > m
  <2>0. i - m \in 1..(Len(s) - m) /\ m + (i - m) = i
    BY <1>3, <1>4, <1>6
  <2>1. i - m \in DOMAIN t /\ t[i - m] = s[i]
    BY <1>2, <1>3, <2>0
  <2>2. ASSUME NEW k \in DOMAIN t, k > i - m PROVE \E o \in Later(d, b) : d[o].name = t[k].name
    <3>0. k \in 1..(Len(s) - m)
      BY <1>3, <2>2
    <3>1. m + k \in 1..Len(s) /\ m + k > i
      BY <1>3, <1>6, <2>2, <3>0
    <3>2. t[k] = s[m + k]
      BY <1>2, <3>0
    <3> QED BY <1>1, <1>3, <3>1, <3>2
  <2> DEFINE j == i - m
  <2>3. /\ j \in DOMAIN t /\ t[j] = s[i]
        /\ \A k \in DOMAIN t : k > j => \E o \in Later(d, b) : d[o].name = t[k].name
    BY <2>1, <2>2
  <2> HIDE DEF j
  <2>6. t[j].name = s[i].name /\ t[j].writers = s[i].writers /\ t[j].whole = s[i].whole
    BY <2>3
  <2>4. /\ t[j].name = d[b].name /\ b \in t[j].writers
        /\ b \in done => t[j].whole
    BY <1>1, <2>6
  <2>5. Stands(t, d, done, b)
    BY <2>3, <2>4, Zenon DEF Stands
  <2> QED BY <2>5 DEF t
<1>5. CASE i <= m
  <2>1. Len(s) - i >= MaxFiles /\ Len(s) - i \in Nat /\ i \in Nat
    BY <1>1, <1>2, <1>3, <1>5
  <2> DEFINE g == [k \in (i + 1)..Len(s) |-> CHOOSE o \in Later(d, b) : d[o].name = s[k].name]
  <2>2. \A k \in (i + 1)..Len(s) : g[k] \in Later(d, b) /\ d[g[k]].name = s[k].name
    BY <1>1, <1>3
  <2>3. g \in [(i + 1)..Len(s) -> Later(d, b)]
    BY <2>2
  <2> HIDE DEF g
  <2>4. g \in Injection((i + 1)..Len(s), Later(d, b))
    <3>1. \A k, l \in (i + 1)..Len(s) : g[k] = g[l] => k = l
      BY <1>3, <2>2 DEF DistinctNames
    <3> QED BY <2>3, <3>1 DEF Injection, IsInjective
  <2>5. Cardinality((i + 1)..Len(s)) <= Cardinality(Later(d, b))
    BY <2>4, FS_Injection
  <2>6. Cardinality((i + 1)..Len(s)) = Len(s) - i
    BY <1>3, <2>1, FS_Interval
  <2>7. Cardinality(Later(d, b)) \in Nat
    BY FS_CardinalityType
  <2>8. Crowded(d, b)
    BY <2>1, <2>5, <2>6, <2>7 DEF Crowded
  <2> QED BY <2>8
<1> QED BY <1>1, <1>2, <1>3, <1>4, <1>5

(* The runs that are recorded stay true.                                     *)
LEMMA RunsStayTrue ==
  ASSUME NEW runs, NEW d, NEW done, TrueRuns(runs, d, done), NEW e, NEW after,
         done \subseteq after, \A o \in done : e[o].name = d[o].name
  PROVE  TrueRuns(runs, e, after)
BY DEF TrueRuns

(* A step that begins and ends no archive.                                   *)
LEMMA QuietArchives ==
  ASSUME ArchiveInv, BackupTypes', UNCHANGED <<directory, closed>>,
         \A b \in Backupers :
            /\ doing'[b].name = doing[b].name /\ doing'[b].after = doing[b].after
            /\ doing'[b].pc \in {"idle", "begin"} => doing[b].pc \in {"idle", "begin"}
            /\ doing'[b].pc = "write" => doing[b].pc = "write"
            /\ doing'[b].pc \in {"send", "succeeded", "success"} =>
                  doing[b].pc \in {"send", "succeeded", "success"},
         TrueRuns(config'.runs, doing, closed),
         \A t \in Threads : TrueRuns(doing'[t].base.runs, doing, closed)
  PROVE  ArchiveInv'
<1>1. \A b \in Backupers : Later(doing', b) = Later(doing, b)
  BY DEF Later
<1>2. Begun(doing') = Begun(doing)
  BY DEF Begun
<1>3. closed \subseteq Backupers /\ directory \in Seq(AnArchive)
  BY DEF ArchiveInv, BackupTypes
<1>4. ASSUME NEW b \in Backupers, Kept(b) PROVE Kept(b)'
  <2>1. Stands(directory, doing, closed, b) => Stands(directory, doing', closed, b)
    <3> SUFFICES ASSUME Stands(directory, doing, closed, b)
                 PROVE  Stands(directory, doing', closed, b)
      OBVIOUS
    <3>1. PICK i \in DOMAIN directory :
            /\ directory[i].name = doing[b].name /\ b \in directory[i].writers
            /\ b \in closed => directory[i].whole
            /\ \A k \in DOMAIN directory : k > i =>
                  \E o \in Later(doing, b) : doing[o].name = directory[k].name
      BY DEF Stands
    <3>2. \A o \in Later(doing, b) : o \in Later(doing', b) /\ doing'[o].name = doing[o].name
      BY <1>1 DEF Later
    <3>3. \A k \in DOMAIN directory : k > i =>
                  \E o \in Later(doing', b) : doing'[o].name = directory[k].name
      BY <3>1, <3>2
    <3>4. doing'[b].name = doing[b].name
      OBVIOUS
    <3> QED BY <3>1, <3>3, <3>4, Zenon DEF Stands
  <2>2. Rival(doing, b) => Rival(doing', b)
    BY DEF Rival
  <2>3. Crowded(doing, b) => Crowded(doing', b)
    BY <1>1 DEF Crowded
  <2> QED BY <1>4, <2>1, <2>2, <2>3 DEF Kept
<1>5. \A b \in Backupers : BackupPlace(b)'
  BY <1>4 DEF ArchiveInv, BackupPlace
<1>6. DistinctNames(directory') /\ WritersBegan(directory', doing')
  <2>1. \A i \in DOMAIN directory : directory[i].writers \subseteq Backupers
    <3>1. \A i \in DOMAIN directory : directory[i] \in AnArchive
      BY <1>3
    <3> QED BY <3>1 DEF AnArchive
  <2>2. WritersBegan(directory, doing')
    <3> SUFFICES ASSUME NEW i \in DOMAIN directory
                 PROVE  /\ directory[i].name # 0
                        /\ \A x \in directory[i].writers : doing'[x].name = directory[i].name
      BY DEF WritersBegan
    <3>1. /\ directory[i].name # 0
          /\ \A x \in directory[i].writers : doing[x].name = directory[i].name
      BY DEF ArchiveInv, WritersBegan
    <3> QED BY <2>1, <3>1
  <2> QED BY <2>2 DEF ArchiveInv
<1>7. /\ TrueRuns(config'.runs, doing', closed')
      /\ \A t \in Threads : TrueRuns(doing'[t].base.runs, doing', closed')
  BY <1>3, RunsStayTrue
<1> QED BY <1>2, <1>5, <1>6, <1>7 DEF ArchiveInv

Elsewhere == {"idle", "begin", "write", "send", "succeeded", "success"}

(* A step of one thread, on neither the file nor the directory.              *)
LEMMA QuietRun ==
  ASSUME ArchiveInv, BackupTypes', NEW t \in Threads, OnlyThread(t),
         UNCHANGED <<config, directory, closed>>,
         doing'[t].base.runs \in {doing[t].base.runs, config.runs, {}},
         t \in Backupers =>
            /\ doing'[t].name = doing[t].name /\ doing'[t].after = doing[t].after
            /\ doing'[t].pc \in {"idle", "begin"} => doing[t].pc \in {"idle", "begin"}
            /\ doing'[t].pc = "write" => doing[t].pc = "write"
            /\ doing'[t].pc \in {"send", "succeeded", "success"} =>
                  doing[t].pc \in {"send", "succeeded", "success"}
  PROVE  ArchiveInv'
<1>1. \A u \in Threads : u # t => doing'[u] = doing[u]
  BY DEF OnlyThread
<1>2. \A u \in Threads : TrueRuns(doing'[u].base.runs, doing, closed)
  BY <1>1 DEF ArchiveInv, TrueRuns
<1>3. Backupers \subseteq Threads
  BY DEF Threads
<1>4. \A b \in Backupers :
        /\ doing'[b].name = doing[b].name /\ doing'[b].after = doing[b].after
        /\ doing'[b].pc \in {"idle", "begin"} => doing[b].pc \in {"idle", "begin"}
        /\ doing'[b].pc = "write" => doing[b].pc = "write"
        /\ doing'[b].pc \in {"send", "succeeded", "success"} =>
              doing[b].pc \in {"send", "succeeded", "success"}
  BY <1>1, <1>3
<1>5. TrueRuns(config'.runs, doing, closed)
  BY DEF ArchiveInv
<1> QED BY <1>2, <1>4, <1>5, QuietArchives

(* A step that writes the file.                                              *)
LEMMA WriteRun ==
  ASSUME ArchiveInv, BackupTypes', NEW t \in Threads, NEW cfg \in AConfig,
         NEW pc \in BackupPlaces \ Elsewhere, Write(t, cfg, pc),
         UNCHANGED <<directory, closed>>, TrueRuns(cfg.runs, doing, closed)
  PROVE  ArchiveInv'
<1>1. /\ BackupTypes /\ pc \in BackupPlaces
      /\ pc \notin {"idle", "begin", "write", "send", "succeeded", "success"}
  BY DEF ArchiveInv, Elsewhere
<1>2. /\ config' = cfg /\ doing'[t].pc = pc /\ doing'[t].base = NoBase
      /\ doing'[t].name = doing[t].name /\ doing'[t].after = doing[t].after
      /\ \A u \in Threads : u # t =>
            /\ doing'[u].pc = doing[u].pc
            /\ doing'[u].name = doing[u].name /\ doing'[u].after = doing[u].after
            /\ doing'[u].base.runs = doing[u].base.runs
  BY <1>1, WriteBackup
<1>3. \A u \in Threads : TrueRuns(doing'[u].base.runs, doing, closed)
  BY <1>2, NoBaseType DEF ArchiveInv, TrueRuns
<1>4. Backupers \subseteq Threads
  BY DEF Threads
<1>5. \A b \in Backupers :
        /\ doing'[b].name = doing[b].name /\ doing'[b].after = doing[b].after
        /\ doing'[b].pc \in {"idle", "begin"} => doing[b].pc \in {"idle", "begin"}
        /\ doing'[b].pc = "write" => doing[b].pc = "write"
        /\ doing'[b].pc \in {"send", "succeeded", "success"} =>
              doing[b].pc \in {"send", "succeeded", "success"}
  BY <1>1, <1>2, <1>4
<1> QED BY <1>2, <1>3, <1>5, QuietArchives

(* An archive that is appended to the others of its name.                    *)
LEMMA AppendedArchive ==
  ASSUME directory \in Seq(AnArchive), DistinctNames(directory), NEW d,
         NEW a \in AnArchive, a.name # 0, \A x \in a.writers : d[x].name = a.name,
         WritersBegan(directory, d)
  PROVE  /\ Append(Others(a.name), a) \in Seq(AnArchive)
         /\ DistinctNames(Append(Others(a.name), a))
         /\ WritersBegan(Append(Others(a.name), a), d)
<1> DEFINE s == Others(a.name)
           t == Append(s, a)
<1>1. /\ s \in Seq(AnArchive) /\ DistinctNames(s)
      /\ \A k \in DOMAIN s : /\ s[k].name # a.name
                             /\ \E l \in DOMAIN directory : s[k] = directory[l]
  BY OthersFacts
<1> HIDE DEF s
<1>2. /\ t \in Seq(AnArchive) /\ DOMAIN t = 1..(Len(s) + 1) /\ DOMAIN s = 1..Len(s)
      /\ t[Len(s) + 1] = a /\ Len(s) \in Nat /\ \A k \in DOMAIN s : t[k] = s[k]
  BY <1>1
<1> HIDE DEF t
<1>3. \A k \in DOMAIN t : k \in DOMAIN s \/ k = Len(s) + 1
  BY <1>2
<1>4. DistinctNames(t)
  BY <1>1, <1>2, <1>3 DEF DistinctNames
<1>5. WritersBegan(t, d)
  <2> SUFFICES ASSUME NEW k \in DOMAIN t
               PROVE  t[k].name # 0 /\ \A x \in t[k].writers : d[x].name = t[k].name
    BY DEF WritersBegan
  <2>1. CASE k \in DOMAIN s
    BY <1>1, <1>2, <2>1 DEF WritersBegan
  <2>2. CASE k = Len(s) + 1
    BY <1>2, <2>2
  <2> QED BY <1>3, <2>1, <2>2
<1> QED BY <1>2, <1>4, <1>5 DEF t, s

(* The actions on the file.                                                  *)
LEMMA FileArchives ==
  ASSUME ArchiveInv, BackupTypes', NEW t \in Creators \cup Editors \cup Savers,
         \/ t \in Creators /\ (LoadForCreate(t) \/ SaveCreated(t) \/ SaveCreatedFails(t))
         \/ LoadForEdit(t) \/ SaveEdited(t) \/ RefuseEdit(t)
         \/ LoadSettings(t) \/ SaveSettings(t) \/ RefuseSettings(t)
  PROVE  ArchiveInv'
<1>0. /\ t \in Threads /\ t \notin Backupers /\ BackupTypes
      /\ {"create", "edit", "save", "done"} \subseteq BackupPlaces
      /\ "done" \in BackupPlaces \ Elsewhere
  BY BackupsAssumption DEF Threads, ArchiveInv, BackupPlaces, Elsewhere
<1>1. ASSUME NEW from, NEW to \in BackupPlaces, Read(t, from, to),
             UNCHANGED <<config, directory, closed>>
      PROVE  ArchiveInv'
  <2>1. OnlyThread(t) /\ doing'[t].base.runs = config.runs
    BY <1>0, <1>1, ReadBackup, LoadedType
  <2> QED BY <1>0, <1>1, <2>1, QuietRun
<1>2. ASSUME NEW pc \in BackupPlaces, Go(t, pc), UNCHANGED <<config, directory, closed>>
      PROVE  ArchiveInv'
  <2>1. OnlyThread(t) /\ doing'[t].base.runs = {}
    BY <1>0, <1>2, GoBackup, NoBaseType
  <2> QED BY <1>0, <1>2, <2>1, QuietRun
<1>3. Base(t) \in AConfig /\ TrueRuns(Base(t).runs, doing, closed)
  BY <1>0, BaseType DEF ArchiveInv
<1>4. ASSUME NEW cfg \in AConfig, Write(t, cfg, "done"), cfg.runs \in {Base(t).runs, {}},
             UNCHANGED <<directory, closed>>
      PROVE  ArchiveInv'
  <2>1. TrueRuns(cfg.runs, doing, closed)
    BY <1>3, <1>4 DEF TrueRuns
  <2> QED BY <1>0, <1>4, <2>1, WriteRun
<1>5. CASE LoadForCreate(t)
  BY <1>0, <1>1, <1>5 DEF LoadForCreate
<1>6. CASE t \in Creators /\ SaveCreated(t)
  <2> DEFINE cfg == [Base(t) EXCEPT !.jobs = @ \cup {t}]
  <2>1. /\ Write(t, cfg, "done") /\ UNCHANGED <<directory, closed>> /\ BackupAt(t, "create")
    BY <1>6 DEF SaveCreated
  <2>2. cfg.runs = Base(t).runs
    BY <1>3 DEF AConfig
  <2>3. cfg \in AConfig
    BY <1>0, <1>6, WrittenTypes
  <2> QED BY <1>4, <2>1, <2>2, <2>3
<1>7. CASE SaveCreatedFails(t)
  BY <1>0, <1>2, <1>7 DEF SaveCreatedFails, atRest
<1>8. CASE LoadForEdit(t)
  BY <1>0, <1>1, <1>8 DEF LoadForEdit, atRest
<1>9. CASE SaveEdited(t)
  <2> DEFINE cfg == [Base(t) EXCEPT !.jobs = @ \ {First}, !.runs = {}]
  <2>1. /\ UNCHANGED <<directory, closed>>
        /\ Write(t, Base(t), "done") \/ Write(t, cfg, "done")
    BY <1>9 DEF SaveEdited
  <2>2. cfg \in AConfig
    BY <1>0, WrittenTypes
  <2>3. cfg.runs = {}
    BY <1>3 DEF AConfig
  <2> HIDE DEF cfg
  <2> QED BY <1>3, <1>4, <2>1, <2>2, <2>3
<1>10. CASE RefuseEdit(t)
  BY <1>0, <1>2, <1>10 DEF RefuseEdit, atRest
<1>11. CASE LoadSettings(t)
  BY <1>0, <1>1, <1>11 DEF LoadSettings, atRest
<1>12. CASE SaveSettings(t)
  <2>1. Write(t, WithSettings(t), "done") /\ UNCHANGED <<directory, closed>>
    BY <1>12 DEF SaveSettings
  <2>2. WithSettings(t) \in AConfig
    BY <1>0, WrittenTypes
  <2>3. WithSettings(t).runs = Base(t).runs
    BY <1>3 DEF WithSettings, AConfig
  <2> QED BY <1>4, <2>1, <2>2, <2>3
<1>13. CASE RefuseSettings(t)
  BY <1>0, <1>2, <1>13 DEF RefuseSettings, atRest
<1> QED
  BY <1>5, <1>6, <1>7, <1>8, <1>9, <1>10, <1>11, <1>12, <1>13

(* The archive is opened.                                                    *)
LEMMA OpenedStands ==
  ASSUME ArchiveInv, BackupTypes', NEW o \in Backupers, OpenArchive(o)
  PROVE  ArchiveInv'
<1> DEFINE a == Opened(o)
<1>1. /\ a \in AnArchive /\ directory' = Append(Others(minute), a)
      /\ OnlyThread(o) /\ doing[o].pc = "begin"
      /\ doing'[o].pc = "write" /\ doing'[o].name = minute /\ doing'[o].after = closed
      /\ doing'[o].base = doing[o].base
  BY OpenedArchive DEF ArchiveInv
<1>2. a.name = minute /\ o \in a.writers /\ minute # 0
  BY DEF Opened, ArchiveInv, BackupTypes
<1>3. closed' = closed /\ config' = config
  BY DEF OpenArchive
<1>4. o \in Threads /\ \A b \in Backupers : b # o => doing'[b] = doing[b]
  BY <1>1 DEF OnlyThread, Threads
<1>5. directory \in Seq(AnArchive) /\ DistinctNames(directory) /\ closed \subseteq Backupers
      /\ \A i \in DOMAIN directory : directory[i] \in AnArchive
  BY DEF ArchiveInv, BackupTypes
<1>6. o \notin closed /\ doing[o].name = 0
  BY <1>1 DEF ArchiveInv, BackupPlace
<1>7. \A x \in a.writers : x # o => doing[x].name = minute
  <2> SUFFICES ASSUME NEW x \in a.writers, x # o PROVE doing[x].name = minute
    OBVIOUS
  <2>1. PICK c \in Named(minute) :
           x \in IF c.whole THEN {} ELSE {y \in c.writers : BackupAt(y, "write")}
    BY DEF Opened
  <2>2. x \in c.writers /\ c.name = minute /\ c \in ToSet(directory)
    BY <2>1 DEF Named
  <2>3. PICK i \in DOMAIN directory : directory[i] = c
    BY <2>2 DEF ToSet
  <2> QED BY <2>2, <2>3 DEF ArchiveInv, WritersBegan
<1>8. WritersBegan(directory, doing')
  <2> SUFFICES ASSUME NEW i \in DOMAIN directory
               PROVE  /\ directory[i].name # 0
                      /\ \A x \in directory[i].writers : doing'[x].name = directory[i].name
    BY DEF WritersBegan
  <2>1. /\ directory[i].name # 0
        /\ \A x \in directory[i].writers : doing[x].name = directory[i].name
    BY DEF ArchiveInv, WritersBegan
  <2>2. directory[i].writers \subseteq Backupers
    BY <1>5 DEF AnArchive
  <2> QED BY <1>4, <1>6, <2>1, <2>2
<1>9. \A x \in a.writers : doing'[x].name = a.name
  BY <1>1, <1>2, <1>4, <1>7 DEF AnArchive
<1> HIDE DEF a
<1>10. DistinctNames(directory') /\ WritersBegan(directory', doing')
  BY <1>1, <1>2, <1>5, <1>8, <1>9, AppendedArchive
<1>11. Begun(doing') = Begun(doing) \cup {o} /\ IsFiniteSet(Begun(doing'))
  <2>1. Begun(doing') = Begun(doing) \cup {o}
    BY <1>1, <1>2, <1>4 DEF Begun
  <2> QED BY <2>1, FS_AddElement DEF ArchiveInv
<1>12. ASSUME NEW b \in Backupers, b # o, doing[b].name # 0, Kept(b), o \notin doing[b].after
       PROVE  Kept(b)'
  <2>1. doing'[b] = doing[b] /\ MaxFiles \in Nat
    BY <1>4, <1>12, BackupsAssumption
  <2>2. \A p \in Backupers : doing[p].name # 0 => doing'[p].name = doing[p].name
    BY <1>4, <1>6
  <2>3. /\ Later(doing, b) \subseteq Later(doing', b)
        /\ Rival(doing, b) => Rival(doing', b)
        /\ Crowded(doing, b) => Crowded(doing', b)
    BY <1>11, <1>12, <2>1, <2>2, LaterGrows
  <2>4. CASE doing[b].name = minute
    BY <1>1, <1>12, <2>1, <2>4 DEF Kept, Rival
  <2>5. CASE doing[b].name # minute /\ Stands(directory, doing, closed, b)
    <3>1. \A p \in Later(doing, b) : doing'[p].name = doing[p].name
      BY <2>2 DEF Later
    <3>2. o \in Later(doing', b) /\ doing'[o].name = a.name
      BY <1>1, <1>2, <1>12, <2>1 DEF Later
    <3>3. Stands(Append(Others(a.name), a), doing', closed, b)
      BY <1>1, <1>2, <1>5, <2>1, <2>3, <2>5, <3>1, <3>2, StandsBehind
    <3> QED BY <1>1, <1>2, <1>3, <3>3 DEF Kept
  <2> QED BY <1>12, <2>3, <2>4, <2>5 DEF Kept
<1>13. ASSUME NEW b \in Backupers, b # o PROVE BackupPlace(b)'
  <2>1. o \notin doing[b].after
    BY <1>6 DEF ArchiveInv, BackupPlace
  <2> QED BY <1>3, <1>4, <1>12, <1>13, <2>1 DEF ArchiveInv, BackupPlace
<1>14. BackupPlace(o)'
  <2>1. Stands(directory', doing', closed', o)
    <3> DEFINE n == Len(Others(minute)) + 1
    <3>1. Others(minute) \in Seq(AnArchive)
      BY <1>5, OthersType
    <3>2. /\ n \in DOMAIN directory' /\ directory'[n] = a
          /\ \A k \in DOMAIN directory' : ~(k > n)
      BY <1>1, <3>1
    <3> HIDE DEF n
    <3> QED BY <1>1, <1>2, <1>3, <1>6, <3>2 DEF Stands
  <2> QED BY <1>1, <1>2, <1>3, <1>6, <2>1 DEF BackupPlace, Kept
<1>15. \A c \in closed : doing'[c].name = doing[c].name
  BY <1>4, <1>5, <1>6
<1>16. TrueRuns(config'.runs, doing', closed')
  BY <1>3, <1>15, RunsStayTrue DEF ArchiveInv
<1>17. ASSUME NEW t \in Threads PROVE TrueRuns(doing'[t].base.runs, doing', closed')
  <2>1. doing'[t].base = doing[t].base
    BY <1>1 DEF OnlyThread
  <2> QED BY <1>3, <1>15, <2>1, RunsStayTrue DEF ArchiveInv
<1> QED BY <1>10, <1>11, <1>13, <1>14, <1>16, <1>17 DEF ArchiveInv

(* The archive is closed and the old ones are pruned.                        *)
LEMMA ClosedStands ==
  ASSUME ArchiveInv, BackupTypes', NEW o \in Backupers, CloseArchive(o)
  PROVE  ArchiveInv'
<1> DEFINE done == closed \cup {o}
<1>1. /\ doing[o].pc = "write" /\ closed' = done /\ config' = config
      /\ Go(o, IF o \in BackupRuns THEN "send" ELSE "done")
  BY DEF CloseArchive, BackupAt
<1>2. o \in Threads /\ BackupTypes /\ MaxFiles \in Nat /\ {"send", "done"} \subseteq BackupPlaces
  BY BackupsAssumption DEF Threads, ArchiveInv, BackupPlaces
<1>3. /\ OnlyThread(o) /\ doing'[o].pc \in {"send", "done"} /\ doing'[o].base = NoBase
      /\ doing'[o].name = doing[o].name /\ doing'[o].after = doing[o].after
  BY <1>1, <1>2, GoBackup
<1>4. /\ \A b \in Backupers : /\ doing'[b].name = doing[b].name
                              /\ doing'[b].after = doing[b].after
                              /\ b # o => doing'[b] = doing[b]
  BY <1>3 DEF OnlyThread, Threads
<1>5. directory \in Seq(AnArchive) /\ DistinctNames(directory) /\ closed \subseteq Backupers
      /\ \A i \in DOMAIN directory : directory[i] \in AnArchive
  BY <1>2 DEF ArchiveInv, BackupTypes
<1>6. o \notin closed /\ doing[o].name # 0 /\ Kept(o)
  BY <1>1 DEF ArchiveInv, BackupPlace
<1>7. \A b \in Backupers : Later(doing', b) = Later(doing, b)
  BY <1>4 DEF Later
<1>8. Begun(doing') = Begun(doing) /\ IsFiniteSet(Begun(doing))
  BY <1>4 DEF Begun, ArchiveInv
<1>9. \A b \in Backupers : /\ Rival(doing', b) <=> Rival(doing, b)
                           /\ Crowded(doing', b) <=> Crowded(doing, b)
  BY <1>4, <1>7 DEF Rival, Crowded
<1>10. \A b \in Backupers : IsFiniteSet(Later(doing', b))
  <2>1. \A b \in Backupers : Later(doing', b) \subseteq Begun(doing')
    BY DEF Later, Begun
  <2> QED BY <1>8, <2>1, FS_Subset
<1>11. WritersBegan(directory, doing')
  <2>1. \A i \in DOMAIN directory : directory[i].writers \subseteq Backupers
    BY <1>5 DEF AnArchive
  <2> SUFFICES ASSUME NEW i \in DOMAIN directory
               PROVE  /\ directory[i].name # 0
                      /\ \A x \in directory[i].writers : doing'[x].name = directory[i].name
    BY DEF WritersBegan
  <2>2. /\ directory[i].name # 0
        /\ \A x \in directory[i].writers : doing[x].name = directory[i].name
    BY DEF ArchiveInv, WritersBegan
  <2> QED BY <1>4, <2>1, <2>2
<1> HIDE DEF done
(* The archives before those in excess are removed.                          *)
<1>12. PICK s \in Seq(AnArchive) :
         /\ directory' = Pruned(s, MaxFiles) /\ DistinctNames(s) /\ WritersBegan(s, doing')
         /\ \A b \in Backupers : b \in done \/ doing[b].pc = "write" =>
               Stands(s, doing', done, b) \/ Rival(doing', b) \/ Crowded(doing', b)
  <2>1. CASE Mine(o) = {}
    <3>1. directory' = Pruned(directory, MaxFiles)
      BY <1>2, <2>1, ClosedArchive
    <3>2. ASSUME NEW b \in Backupers, b \in done \/ doing[b].pc = "write",
                 ~Rival(doing', b), ~Crowded(doing', b)
          PROVE  Stands(directory, doing', done, b)
      <4>1. Kept(b)
        BY <1>6, <3>2 DEF done, ArchiveInv, BackupPlace
      <4>2. Stands(directory, doing, closed, b)
        BY <1>9, <3>2, <4>1 DEF Kept
      <4>3. PICK i \in DOMAIN directory :
              /\ directory[i].name = doing[b].name /\ b \in directory[i].writers
              /\ b \in closed => directory[i].whole
              /\ \A k \in DOMAIN directory : k > i =>
                    \E p \in Later(doing, b) : doing[p].name = directory[k].name
        BY <4>2 DEF Stands
      <4>4. directory[i] \in Named(doing[b].name)
        BY <4>3 DEF Named, ToSet
      <4>5. b # o
        BY <2>1, <4>3, <4>4 DEF Mine
      <4>6. b \in done => b \in closed
        BY <4>5 DEF done
      <4>7. \A k \in DOMAIN directory : k > i =>
                    \E p \in Later(doing', b) : doing'[p].name = directory[k].name
        <5>1. \A p \in Later(doing, b) : p \in Later(doing', b) /\ doing'[p].name = doing[p].name
          BY <1>4, <1>7 DEF Later
        <5> QED BY <4>3, <5>1
      <4>8. doing'[b].name = doing[b].name
        BY <1>4
      <4> QED BY <4>3, <4>6, <4>7, <4>8, Zenon DEF Stands
    <3> QED BY <1>5, <1>11, <3>1, <3>2
  <2>2. CASE Mine(o) # {}
    <3>1. PICK c \in Mine(o) :
             directory' = Pruned(Append(Others(doing[o].name), Finished(o, c)), MaxFiles)
      BY <1>2, <2>2, ClosedArchive
    <3> DEFINE a == Finished(o, c)
    <3>2. /\ a \in AnArchive /\ a.name = c.name /\ a.writers = c.writers
          /\ a.whole = (c.writers = {o})
      BY <1>2, <3>1, ClosedArchive
    <3>3. c \in ToSet(directory) /\ c.name = doing[o].name /\ o \in c.writers
      BY DEF Mine, Named
    <3>4. PICK h \in DOMAIN directory : directory[h] = c
      BY <3>3 DEF ToSet
    <3> HIDE DEF a
    <3>5. a.name = doing[o].name /\ a.name # 0 /\ \A x \in a.writers : doing'[x].name = a.name
      BY <1>6, <1>11, <3>2, <3>3, <3>4 DEF WritersBegan
    <3> DEFINE t == Append(Others(a.name), a)
    <3>6. /\ t \in Seq(AnArchive) /\ DistinctNames(t) /\ WritersBegan(t, doing')
      BY <1>5, <1>11, <3>2, <3>5, AppendedArchive
    <3>7. directory' = Pruned(t, MaxFiles)
      BY <3>1, <3>5 DEF a
    <3>8. ASSUME NEW b \in Backupers, b \in done \/ doing[b].pc = "write",
                 ~Rival(doing', b), ~Crowded(doing', b)
          PROVE  Stands(t, doing', done, b)
      <4>1. CASE b = o
        <5>1. \A x \in a.writers : x = o
          BY <1>4, <3>2, <3>5, <3>8, <4>1 DEF Rival, AnArchive
        <5>2. a.writers = {o}
          BY <3>2, <3>3, <5>1
        <5>3. a.whole
          BY <3>2, <5>2
        <5> DEFINE n == Len(Others(a.name)) + 1
        <5>4. Others(a.name) \in Seq(AnArchive)
          BY <1>5, OthersType
        <5>5. /\ n \in DOMAIN t /\ t[n] = a /\ \A k \in DOMAIN t : ~(k > n)
          BY <5>4
        <5> HIDE DEF n, t
        <5>6. t[n].name = doing'[b].name /\ b \in t[n].writers /\ t[n].whole
          BY <1>4, <3>5, <4>1, <5>2, <5>3, <5>5
        <5> QED BY <5>5, <5>6 DEF Stands
      <4>2. CASE b # o
        <5>1. Kept(b) /\ doing[b].name # 0
          BY <3>8, <4>2 DEF done, ArchiveInv, BackupPlace
        <5>2. Stands(directory, doing, closed, b)
          BY <1>9, <3>8, <5>1 DEF Kept
        <5>3. a.name # doing[b].name
          BY <1>4, <3>5, <3>8, <4>2 DEF Rival
        <5>4. \A p \in Later(doing, b) : doing'[p].name = doing[p].name
          BY <1>4 DEF Later
        <5>5. o \notin doing[b].after
          BY <1>6 DEF ArchiveInv, BackupPlace
        <5>6. o \in Later(doing', b) /\ doing'[o].name = a.name
          BY <1>4, <1>6, <3>5, <4>2, <5>5 DEF Later
        <5>7. b \in done => b \in closed
          BY <4>2 DEF done
        <5>8. doing'[b].name = doing[b].name /\ Later(doing, b) \subseteq Later(doing', b)
          BY <1>4, <1>7
        <5> QED BY <1>5, <3>2, <5>2, <5>3, <5>4, <5>6, <5>7, <5>8, StandsBehind
      <4> QED BY <4>1, <4>2
    <3> HIDE DEF t
    <3> QED BY <3>6, <3>7, <3>8
  <2> QED BY <2>1, <2>2
<1>13. DistinctNames(directory') /\ WritersBegan(directory', doing')
  <2> DEFINE m == Dropped(Len(s), MaxFiles)
             t == Pruned(s, MaxFiles)
  <2>1. /\ m \in 0..Len(s) /\ t \in Seq(AnArchive) /\ Len(t) = Len(s) - m
        /\ \A k \in 1..(Len(s) - m) : t[k] = s[m + k]
    BY <1>2, PrunedFacts
  <2> HIDE DEF m, t
  <2>2. DOMAIN s = 1..Len(s) /\ DOMAIN t = 1..(Len(s) - m) /\ Len(s) \in Nat
    BY <2>1
  <2>3. \A k \in DOMAIN t : m + k \in DOMAIN s /\ t[k] = s[m + k]
    BY <2>1, <2>2
  <2>4. \A k, l \in DOMAIN t : m + k = m + l => k = l
    BY <2>1, <2>2
  <2>5. DistinctNames(t)
    BY <1>12, <2>3, <2>4 DEF DistinctNames
  <2>6. WritersBegan(t, doing')
    BY <1>12, <2>3 DEF WritersBegan
  <2> QED BY <1>12, <2>5, <2>6 DEF t
<1>14. ASSUME NEW b \in Backupers, b \in done \/ doing[b].pc = "write" PROVE Kept(b)'
  <2>1. Stands(s, doing', done, b) =>
           Stands(Pruned(s, MaxFiles), doing', done, b) \/ Crowded(doing', b)
    BY <1>2, <1>10, <1>12, PrunedStands
  <2> QED BY <1>1, <1>12, <1>14, <2>1 DEF Kept
<1>15. ASSUME NEW b \in Backupers PROVE BackupPlace(b)'
  <2>1. CASE b = o
    <3>1. Kept(o)' /\ o \in closed'
      BY <1>1, <1>14 DEF done
    <3>2. doing[o].after \subseteq closed'
      BY <1>1 DEF done, ArchiveInv, BackupPlace
    <3> QED BY <1>3, <1>6, <2>1, <3>1, <3>2 DEF BackupPlace
  <2>2. CASE b # o
    <3>1. b \in closed' <=> b \in closed
      BY <1>1, <2>2 DEF done
    <3>2. closed \subseteq closed'
      BY <1>1 DEF done
    <3>3. doing'[b] = doing[b] /\ BackupPlace(b)
      BY <1>4, <2>2 DEF ArchiveInv
    <3>4. b \in closed' \/ doing'[b].pc = "write" => Kept(b)'
      BY <1>1, <1>14, <3>3
    <3> QED BY <3>1, <3>2, <3>3, <3>4 DEF BackupPlace
  <2> QED BY <2>1, <2>2
<1>16. closed \subseteq closed' /\ \A b \in closed : doing'[b].name = doing[b].name
  BY <1>1, <1>4, <1>5 DEF done
<1>17. TrueRuns(config'.runs, doing', closed')
  BY <1>1, <1>16, RunsStayTrue DEF ArchiveInv
<1>18. ASSUME NEW t \in Threads PROVE TrueRuns(doing'[t].base.runs, doing', closed')
  <2>1. CASE t = o
    BY <1>3, <2>1, NoBaseType DEF TrueRuns
  <2>2. CASE t # o
    <3>1. doing'[t].base = doing[t].base
      BY <1>3, <2>2 DEF OnlyThread
    <3> QED BY <1>16, <3>1, RunsStayTrue DEF ArchiveInv
  <2> QED BY <2>1, <2>2
<1> QED BY <1>8, <1>13, <1>15, <1>17, <1>18 DEF ArchiveInv

(* Every other step of a backup.                                             *)
LEMMA BackupArchives ==
  ASSUME ArchiveInv, BackupTypes', NEW b \in Backupers, BackupStep(b)
  PROVE  ArchiveInv'
<1>0. b \in Threads /\ BackupTypes /\ NoBase.runs = {}
  BY NoBaseType DEF Threads, ArchiveInv
<1>1. ASSUME NEW pc \in BackupPlaces \ Elsewhere, Go(b, pc),
             UNCHANGED <<config, directory, closed>>
      PROVE  ArchiveInv'
  <2>1. pc \in BackupPlaces /\ pc \notin {"idle", "begin", "write", "send", "succeeded", "success"}
    BY DEF Elsewhere
  <2>2. /\ OnlyThread(b) /\ doing'[b].pc = pc /\ doing'[b].base = NoBase
        /\ doing'[b].name = doing[b].name /\ doing'[b].after = doing[b].after
    BY <1>0, <1>1, <2>1, GoBackup
  <2> QED BY <1>0, <1>1, <2>1, <2>2, QuietRun
<1>2. {"done", "failed", "recorded", "finally"} \subseteq BackupPlaces \ Elsewhere
  BY DEF BackupPlaces, Elsewhere
<1>3. Base(b) \in AConfig /\ TrueRuns(Base(b).runs, doing, closed)
  BY <1>0, BaseType DEF ArchiveInv
<1>4. CASE StartBackup(b)
  <2>1. /\ OnlyThread(b) /\ doing'[b].pc \in {"begin", "done"} /\ doing[b].pc = "idle"
        /\ doing'[b].base.runs = config.runs
        /\ doing'[b].name = doing[b].name /\ doing'[b].after = doing[b].after
    BY <1>0, <1>4, BackupStarted, LoadedType
  <2> QED BY <1>0, <1>4, <2>1, QuietRun DEF StartBackup, atRest
<1>5. CASE WriteFails(b)
  BY <1>1, <1>2, <1>5 DEF WriteFails, atRest
<1>6. CASE Transfer(b)
  <2>1. /\ OnlyThread(b) /\ doing'[b].pc = "succeeded" /\ doing[b].pc = "send"
        /\ doing'[b].base = doing[b].base
        /\ doing'[b].name = doing[b].name /\ doing'[b].after = doing[b].after
    BY <1>0, <1>6, Transferred
  <2> QED BY <1>0, <1>6, <2>1, QuietRun DEF Transfer, atRest
<1>7. CASE LoadForRecord(b)
  <2>1. PICK from, to : /\ Read(b, from, to) /\ to \in {"success", "failure", "prune"}
                        /\ to = "success" => from = "succeeded"
    BY <1>7 DEF LoadForRecord
  <2>2. to \in BackupPlaces
    BY <2>1 DEF BackupPlaces
  <2>3. /\ OnlyThread(b) /\ doing'[b].pc = to /\ doing[b].pc = from
        /\ doing'[b].base.runs = config.runs
        /\ doing'[b].name = doing[b].name /\ doing'[b].after = doing[b].after
    BY <1>0, <2>1, <2>2, ReadBackup, LoadedType
  <2> QED BY <1>0, <1>7, <2>1, <2>3, QuietRun DEF LoadForRecord, atRest
<1>8. CASE SaveRecord(b)
  <2> DEFINE r == [by |-> b, name |-> doing[b].name,
                   status |-> IF BackupAt(b, "success") THEN "success" ELSE "failed",
                   remote |-> doing[b].remote]
             pc == IF BackupAt(b, "success") THEN "recorded" ELSE "finally"
  <2>1. /\ Write(b, Recorded(b), pc) /\ UNCHANGED <<directory, closed>>
    BY <1>8 DEF SaveRecord
  <2>2. Recorded(b) = [Base(b) EXCEPT !.runs =
                          IF First \notin Base(b).jobs THEN @ ELSE @ \cup {r}]
    BY DEF Recorded
  <2>3. r.status = "success" => r.by \in closed /\ r.name = doing[r.by].name
    BY DEF ArchiveInv, BackupPlace, BackupAt
  <2>4. pc \in BackupPlaces \ Elsewhere
    BY <1>2
  <2> HIDE DEF r, pc
  <2>5. Recorded(b).runs \subseteq Base(b).runs \cup {r}
    BY <1>3, <2>2 DEF AConfig
  <2>6. TrueRuns(Recorded(b).runs, doing, closed)
    BY <1>3, <2>3, <2>5 DEF TrueRuns
  <2>7. Recorded(b) \in AConfig
    BY <1>0, WrittenTypes
  <2> QED BY <1>0, <2>1, <2>4, <2>6, <2>7, WriteRun
<1>9. CASE SavePrunedRuns(b)
  BY <1>0, <1>2, <1>3, <1>9, WriteRun DEF SavePrunedRuns
<1>10. CASE SaveRecordFails(b)
  <2>1. /\ OnlyThread(b) /\ doing'[b].pc \in {"finally", "failed"} /\ doing'[b].base = NoBase
        /\ doing'[b].name = doing[b].name /\ doing'[b].after = doing[b].after
    BY <1>0, <1>10, RecordFailed
  <2> QED BY <1>0, <1>10, <2>1, QuietRun DEF SaveRecordFails, atRest
<1>11. CASE EndBackup(b)
  BY <1>1, <1>2, <1>11 DEF EndBackup, atRest
<1> QED
  BY <1>4, <1>5, <1>6, <1>7, <1>8, <1>9, <1>10, <1>11, OpenedStands, ClosedStands
     DEF BackupStep

LEMMA ArchiveNext == ArchiveInv /\ [BackupsNext]_backupVars => ArchiveInv'
<1> SUFFICES ASSUME ArchiveInv, [BackupsNext]_backupVars PROVE ArchiveInv'
  OBVIOUS
<1>0. BackupTypes /\ BackupTypes'
  BY BackupsTypesNext DEF ArchiveInv
<1>1. ASSUME UNCHANGED <<config, doing, directory, closed>> PROVE ArchiveInv'
  BY <1>0, <1>1, QuietArchives DEF ArchiveInv
<1>2. CASE MinutePasses
  BY <1>1, <1>2 DEF MinutePasses
<1>3. CASE UNCHANGED backupVars
  BY <1>1, <1>3 DEF backupVars
<1>4. ASSUME NEW w \in Processes, BackupWorkerDies(w) PROVE ArchiveInv'
  <2>1. \A t \in Threads :
           /\ doing'[t].name = doing[t].name /\ doing'[t].after = doing[t].after
           /\ \/ doing'[t].pc = doing[t].pc /\ doing'[t].base = doing[t].base
              \/ doing'[t].pc = "done" /\ doing'[t].base = NoBase
    BY <1>0, <1>4, WorkerDead
  <2>2. UNCHANGED <<config, directory, closed>>
    BY <1>4 DEF BackupWorkerDies
  <2>3. \A t \in Threads : TrueRuns(doing'[t].base.runs, doing, closed)
    BY <2>1, NoBaseType DEF ArchiveInv, TrueRuns
  <2>4. TrueRuns(config'.runs, doing, closed)
    BY <2>2 DEF ArchiveInv
  <2>5. Backupers \subseteq Threads
    BY DEF Threads
  <2> QED BY <1>0, <2>1, <2>2, <2>3, <2>4, <2>5, QuietArchives
<1>5. ASSUME NEW c \in Creators, LoadForCreate(c) \/ SaveCreated(c) \/ SaveCreatedFails(c)
      PROVE  ArchiveInv'
  BY <1>0, <1>5, FileArchives
<1>6. ASSUME NEW c \in Editors, LoadForEdit(c) \/ SaveEdited(c) \/ RefuseEdit(c)
      PROVE  ArchiveInv'
  BY <1>0, <1>6, FileArchives
<1>7. ASSUME NEW s \in Savers, LoadSettings(s) \/ SaveSettings(s) \/ RefuseSettings(s)
      PROVE  ArchiveInv'
  BY <1>0, <1>7, FileArchives
<1> QED
  BY <1>0, <1>2, <1>3, <1>4, <1>5, <1>6, <1>7, BackupArchives DEF BackupsNext

(* A run that is recorded as a success has its archive, whole and its own, in *)
(* the directory, unless another was begun in the same minute or as many as   *)
(* are kept count against it (create_backup, _prune_backups): SuccessIsKept.  *)
THEOREM SuccessCorrect == BackupsSpec => []SuccessIsKept
<1>1. ArchiveInv => SuccessIsKept
  <2> SUFFICES ASSUME ArchiveInv, NEW r \in config.runs, r.status = "success"
               PROVE  \/ \E a \in Named(r.name) : a.whole /\ a.writers = {r.by}
                      \/ \E o \in Backupers \ {r.by} : doing[o].name = r.name
                      \/ Cardinality({o \in Backupers \ {r.by} :
                                         Began(o) /\ o \notin doing[r.by].after}) >= MaxFiles
    BY DEF SuccessIsKept
  <2>1. r.by \in closed /\ r.name = doing[r.by].name /\ closed \subseteq Backupers
    BY DEF ArchiveInv, TrueRuns, BackupTypes
  <2>2. Kept(r.by)
    BY <2>1 DEF ArchiveInv, BackupPlace
  <2>3. CASE Rival(doing, r.by)
    BY <2>1, <2>3 DEF Rival
  <2>4. CASE Crowded(doing, r.by)
    BY <2>4 DEF Crowded, Later, Began
  <2>5. CASE Stands(directory, doing, closed, r.by)
    <3>1. PICK i \in DOMAIN directory :
             /\ directory[i].name = doing[r.by].name /\ r.by \in directory[i].writers
             /\ r.by \in closed => directory[i].whole
      BY <2>5 DEF Stands
    <3>2. directory[i] \in Named(r.name) /\ directory[i].whole
      BY <2>1, <3>1 DEF Named, ToSet
    <3>3. directory[i].writers \subseteq Backupers
      <4>1. directory[i] \in AnArchive
        BY <3>1 DEF ArchiveInv, BackupTypes
      <4> QED BY <4>1 DEF AnArchive
    <3>4. \A x \in directory[i].writers : doing[x].name = r.name
      BY <2>1, <3>1 DEF ArchiveInv, WritersBegan
    <3>5. CASE directory[i].writers = {r.by}
      BY <3>2, <3>5
    <3>6. CASE directory[i].writers # {r.by}
      BY <3>1, <3>3, <3>4, <3>6
    <3> QED BY <3>5, <3>6
  <2> QED BY <2>2, <2>3, <2>4, <2>5 DEF Kept
<1> QED BY <1>1, ArchiveInit, ArchiveNext, PTL DEF BackupsSpec
=============================================================================

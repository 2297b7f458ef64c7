------------------------- MODULE PrivacyRouterProofs -------------------------
(***************************************************************************)
(* Theorems about the routing of turns, for every set of providers and any *)
(* number of flipped switches.                                             *)
(***************************************************************************)
EXTENDS PrivacyRouter, SequenceTheorems, TLAPS

Shown == {"wait", "route", "local", "dial", "sent"}
Decided == {"local", "dial", "sent"}

\* The fields of a turn.
Shape == turn = [step |-> turn.step, cloud |-> turn.cloud, config |-> turn.config,
                 redacted |-> turn.redacted, privacy |-> turn.privacy]

\* The settings of the snapshot were in force since the message was shown, and the
\* decision that followed was made from them alone.
Grounded ==
  /\ turn.step \in Shown => settings \in seen
  /\ turn.step \in {"route"} \cup Decided => turn.privacy \in seen
  /\ turn.step \in {"dial", "sent"} =>
       Permits(turn.privacy, turn.config) /\ turn.redacted = turn.privacy["redact"]
  /\ turn.step = "local" /\ turn.cloud =>
       turn.config = None \/ ~Permits(turn.privacy, turn.config)

RouteInv == Shape /\ Grounded

\* A turn that is over is in no step of these.
LEMMA OverIsGrounded ==
  ASSUME turn = NoTurn
  PROVE  Shape /\ Grounded
BY DEF Shape, Grounded, NoTurn, Shown, Decided

\* A new installation.
LEMMA RouteInit == Init => RouteInv
BY OverIsGrounded DEF Init, RouteInv

\* A step that leaves the turn, its settings and the record of settings alone.
LEMMA TurnStays ==
  ASSUME Shape /\ Grounded, UNCHANGED <<turn, seen, settings>>
  PROVE  Shape' /\ Grounded'
BY DEF Shape, Grounded, Permits, NetworkAllowed

\* Flips, acceptance, leaving Settings and the provider do not reach into a turn.
LEMMA OutsideTurn ==
  ASSUME RouteInv,
         \/ acceptTerms \/ acceptLogging \/ leaveSettings
         \/ \E k \in Keys : toggle(k)
         \/ \E c \in Configs : saveRemoteConfig(c)
         \/ clearRemoteConfig \/ \E v \in BOOLEAN : setPreferCloud(v)
  PROVE  RouteInv'
<1>1. UNCHANGED <<turn, seen, settings>>
  BY DEF acceptTerms, acceptLogging, leaveSettings, toggle, saveRemoteConfig,
         clearRemoteConfig, setPreferCloud, turnVars, cloudVars, settingVars
<1> QED  BY <1>1, TurnStays DEF RouteInv

\* An edit that is made is recorded once the message is shown.
LEMMA EditRecorded == RouteInv /\ applyEdit => RouteInv'
<1> SUFFICES ASSUME RouteInv, applyEdit PROVE RouteInv'
  OBVIOUS
<1>1. UNCHANGED turn
  BY DEF applyEdit
<1>2. CASE turn.step \in {"idle", "prepare"}
  BY <1>1, <1>2 DEF RouteInv, Shape, Grounded, Shown, Decided
<1>3. CASE turn.step \notin {"idle", "prepare"}
  <2>1. seen' = seen \cup {settings'}
    BY <1>3 DEF applyEdit
  <2> QED  BY <1>1, <2>1 DEF RouteInv, Shape, Grounded, Permits, NetworkAllowed
<1> QED  BY <1>2, <1>3

\* The steps of a turn.
LEMMA TurnGoesOn ==
  ASSUME RouteInv, onSend \/ prepared \/ snapshot \/ answer \/ generate \/ requestFails
  PROVE  Shape' /\ Grounded'
<1> USE DEF RouteInv, Shape, Grounded, Shown, Decided
<1>1. CASE onSend
  BY <1>1 DEF onSend
<1>2. CASE prepared
  BY <1>2 DEF prepared, settingVars
<1>3. CASE snapshot
  BY <1>3 DEF snapshot, settingVars
<1>4. CASE answer
  <2> DEFINE allowed == provider # None /\ Permits(turn.privacy, provider)
  <2>1. /\ turn.step = "route" /\ Routed(allowed)
        /\ UNCHANGED <<seen, settings>>
    BY <1>4 DEF answer, settingVars
  <2>2. /\ turn'.cloud = turn.cloud /\ turn'.privacy = turn.privacy
        /\ turn'.redacted = turn.privacy["redact"]
        /\ turn'.step = IF turn.cloud /\ allowed THEN "dial" ELSE "local"
        /\ turn'.config = IF turn.cloud THEN provider ELSE None
        /\ Shape'
    BY <2>1 DEF Routed
  <2> HIDE DEF Shape
  <2>3. CASE turn.cloud /\ allowed
    BY <2>1, <2>2, <2>3 DEF Permits, NetworkAllowed
  <2>4. CASE ~(turn.cloud /\ allowed)
    BY <2>1, <2>2, <2>4 DEF Permits, NetworkAllowed
  <2> QED  BY <2>3, <2>4
<1>5. CASE generate
  BY <1>5 DEF generate, settingVars, Permits, NetworkAllowed
<1>6. CASE requestFails
  BY <1>6 DEF requestFails, settingVars
<1> QED  BY <1>1, <1>2, <1>3, <1>4, <1>5, <1>6

\* Every step keeps the invariant.
LEMMA RouteStep == RouteInv /\ [Next]_vars => RouteInv'
<1> SUFFICES ASSUME RouteInv, [Next]_vars PROVE RouteInv'
  OBVIOUS
<1>1. CASE onSend \/ prepared \/ snapshot \/ answer \/ generate \/ requestFails
  BY <1>1, TurnGoesOn DEF RouteInv
<1>2. CASE turnEnds \/ Restarted
  BY <1>2 DEF turnEnds, Restarted, RouteInv, Shape, Grounded, NoTurn, Shown, Decided
<1>3. CASE UNCHANGED vars
  BY <1>3, TurnStays DEF vars, turnVars, settingVars, RouteInv
<1>4. CASE applyEdit
  BY <1>4, EditRecorded
<1>5. CASE \/ acceptTerms \/ acceptLogging \/ leaveSettings
           \/ \E k \in Keys : toggle(k)
           \/ \E c \in Configs : saveRemoteConfig(c)
           \/ clearRemoteConfig \/ \E v \in BOOLEAN : setPreferCloud(v)
  BY <1>5, OutsideTurn
<1> QED  BY <1>1, <1>2, <1>3, <1>4, <1>5 DEF Next

\* What a turn sends was allowed by the settings of one moment.
THEOREM RoutedAsPermitted == Spec => []SentAsPermitted
<1>1. RouteInv => SentAsPermitted
  BY DEF RouteInv, Grounded, SentAsPermitted, Decided
<1> QED  BY <1>1, RouteInit, RouteStep, PTL DEF Spec

\* A turn for the cloud is answered on the device only for a reason: whatever is flipped,
\* stored or picked meanwhile, and however its request ends.
THEOREM FallsBackForReason == Spec => []FallbackJustified
<1>1. RouteInv => FallbackJustified
  BY DEF RouteInv, Grounded, FallbackJustified, Decided
<1> QED  BY <1>1, RouteInit, RouteStep, PTL DEF Spec

(***************************************************************************)
(* The edits of the switches.                                              *)
(***************************************************************************)
\* One edit of acceptTerms() waits at a time.
Waiting == accept \in {"consent", "logging"}

Switching ==
  /\ settings \in Settings /\ wish \in Settings /\ edits \in Seq(Edits)
  /\ accept \in {"no", "consent", "between", "logging", "done"} /\ toggles \in 0..MaxToggles
  /\ lost \in SUBSET Keys /\ provider \in Configs \cup {None} /\ prefer \in BOOLEAN
  /\ Len(edits) <= toggles + IF Waiting THEN 1 ELSE 0

\* A turn, and the settings it has seen.
Turning ==
  /\ turn \in [step : {"idle", "prepare", "wait", "route", "local", "dial", "sent", "noted"},
               cloud : BOOLEAN, config : Configs \cup {None}, redacted : BOOLEAN,
               privacy : Settings]
  /\ seen \in SUBSET Settings

Typed == Switching /\ Turning

OneApp ==
  /\ ~Waiting => \A i \in DOMAIN edits : edits[i].by # "app"
  /\ \A i, j \in DOMAIN edits : edits[i].by = "app" /\ edits[j].by = "app" => i = j

\* The last edit of a switch that will be made, if there is one, decides where it stands.
Counts(i, k) == edits[i].key = k /\ edits[i].by # "nobody"
Nothing(k) == \A i \in DOMAIN edits : ~Counts(i, k)
LastSays(k, v) ==
  \A i \in DOMAIN edits :
    Counts(i, k) /\ (\A j \in DOMAIN edits : j > i => ~Counts(j, k)) => edits[i].value = v

Stands(k) == (Nothing(k) => settings[k] = wish[k]) /\ LastSays(k, wish[k])
Settled == \A k \in Keys \ lost : IF Overtaken(k) THEN wish[k] = TRUE ELSE Stands(k)

\* An edit that is asked for is the last one.
LEMMA Asked ==
  ASSUME edits \in Seq(Edits), NEW k \in Keys, NEW v \in BOOLEAN, NEW by \in {"app", "screen"},
         Ask(k, v, by)
  PROVE  /\ edits' \in Seq(Edits) /\ Len(edits') = Len(edits) + 1 /\ Len(edits) \in Nat
         /\ DOMAIN edits = 1..Len(edits) /\ DOMAIN edits' = 1..Len(edits')
         /\ \A i \in DOMAIN edits : edits'[i] = edits[i]
         /\ LET e == edits'[Len(edits')] IN e.key = k /\ e.value = v /\ e.by = by
<1> DEFINE e == [key |-> k, value |-> v, by |-> by]
<1>1. e \in Edits /\ e.key = k /\ e.value = v /\ e.by = by
  BY DEF Edits
<1>2. edits' = Append(edits, e)
  BY DEF Ask
<1> HIDE DEF e
<1>3. /\ edits' \in Seq(Edits) /\ Len(edits') = Len(edits) + 1
      /\ \A i \in 1..Len(edits) : edits'[i] = edits[i]
      /\ edits'[Len(edits) + 1] = e
  BY <1>1, <1>2, AppendProperties
<1> QED  BY <1>1, <1>3, LenProperties

\* What it decides, and what it leaves to the edits before it.
LEMMA AskedLast ==
  ASSUME edits \in Seq(Edits), NEW k \in Keys, NEW v \in BOOLEAN, NEW by \in {"app", "screen"},
         Ask(k, v, by)
  PROVE  /\ ~Nothing(k)' /\ LastSays(k, v)'
         /\ \A d \in Keys \ {k}, w \in BOOLEAN :
              (Nothing(d)' => Nothing(d)) /\ (LastSays(d, w) => LastSays(d, w)')
<1>1. /\ Len(edits') = Len(edits) + 1 /\ Len(edits) \in Nat
      /\ DOMAIN edits = 1..Len(edits) /\ DOMAIN edits' = 1..Len(edits')
      /\ \A i \in DOMAIN edits : edits'[i] = edits[i]
      /\ edits'[Len(edits')].key = k /\ edits'[Len(edits')].value = v /\ edits'[Len(edits')].by = by
  BY Asked
<1>m. PICK m \in Nat : m = Len(edits')
  BY <1>1
<1>2. Counts(m, k)' /\ m \in DOMAIN edits'
  BY <1>1, <1>m DEF Counts
<1>3. \A i \in DOMAIN edits' : i # m => i \in DOMAIN edits /\ m > i
  BY <1>1, <1>m
<1>4. LastSays(k, v)'
  BY <1>1, <1>m, <1>2, <1>3 DEF LastSays
<1>5. ASSUME NEW d \in Keys \ {k}, NEW w \in BOOLEAN
      PROVE  (Nothing(d)' => Nothing(d)) /\ (LastSays(d, w) => LastSays(d, w)')
  <2>1. \A i \in DOMAIN edits : i \in DOMAIN edits' /\ (Counts(i, d)' <=> Counts(i, d))
    BY <1>1 DEF Counts
  <2>2. ~Counts(m, d)'
    BY <1>1, <1>m DEF Counts
  <2>3. Nothing(d)' => Nothing(d)
    BY <2>1 DEF Nothing
  <2>4. ASSUME LastSays(d, w), NEW i \in DOMAIN edits', Counts(i, d)',
               \A j \in DOMAIN edits' : j > i => ~Counts(j, d)'
        PROVE  edits'[i].value = w
    <3>1. i \in DOMAIN edits /\ Counts(i, d) /\ edits'[i] = edits[i]
      BY <1>1, <1>3, <2>1, <2>2, <2>4
    <3>2. \A j \in DOMAIN edits : j > i => ~Counts(j, d)
      BY <2>1, <2>4
    <3> QED  BY <2>4, <3>1, <3>2 DEF LastSays
  <2> QED  BY <2>3, <2>4 DEF LastSays
<1> QED  BY <1>2, <1>4, <1>5 DEF Nothing

\* An edit that is taken was the first one.
LEMMA Taken ==
  ASSUME edits \in Seq(Edits), edits # <<>>, edits' = Tail(edits)
  PROVE  /\ edits' \in Seq(Edits) /\ Len(edits') = Len(edits) - 1 /\ Len(edits) \in Nat \ {0}
         /\ DOMAIN edits = 1..Len(edits) /\ DOMAIN edits' = 1..Len(edits')
         /\ \A i \in DOMAIN edits' : i + 1 \in DOMAIN edits /\ edits'[i] = edits[i + 1]
         /\ Head(edits) = edits[1] /\ 1 \in DOMAIN edits /\ edits[1] \in Edits
<1>1. /\ edits' \in Seq(Edits) /\ Len(edits') = Len(edits) - 1 /\ Len(edits) \in Nat \ {0}
      /\ \A i \in 1..Len(edits') : edits'[i] = edits[i + 1]
  BY HeadTailProperties, EmptySeq, LenProperties
<1>2. DOMAIN edits = 1..Len(edits) /\ DOMAIN edits' = 1..Len(edits')
  BY <1>1, LenProperties
<1>3. Head(edits) = edits[1] /\ edits[1] \in Edits
  BY <1>1, <1>2, ElementOfSeq
<1> QED  BY <1>1, <1>2, <1>3

\* What it decides goes into the settings when no later one follows.
LEMMA TakenFirst ==
  ASSUME edits \in Seq(Edits), edits # <<>>, edits' = Tail(edits), NEW k \in Keys, NEW w \in BOOLEAN,
         LastSays(k, w)
  PROVE  /\ LastSays(k, w)'
         /\ Nothing(k)' => \/ Counts(1, k) /\ edits[1].value = w
                           \/ ~Counts(1, k) /\ Nothing(k)
<1>1. /\ Len(edits') = Len(edits) - 1 /\ Len(edits) \in Nat \ {0}
      /\ DOMAIN edits = 1..Len(edits) /\ DOMAIN edits' = 1..Len(edits')
      /\ \A i \in DOMAIN edits' : i + 1 \in DOMAIN edits /\ edits'[i] = edits[i + 1]
      /\ 1 \in DOMAIN edits
  BY Taken
<1>2. \A i \in DOMAIN edits' : Counts(i, k)' <=> Counts(i + 1, k)
  BY <1>1 DEF Counts
<1>3. \A j \in DOMAIN edits : j > 1 => j - 1 \in DOMAIN edits' /\ (Counts(j - 1, k)' <=> Counts(j, k))
                                       /\ edits'[j - 1] = edits[j]
  <2>1. ASSUME NEW j \in DOMAIN edits, j > 1
        PROVE  j - 1 \in DOMAIN edits' /\ (Counts(j - 1, k)' <=> Counts(j, k)) /\ edits'[j - 1] = edits[j]
    <3>1. j - 1 \in DOMAIN edits' /\ (j - 1) + 1 = j
      BY <1>1, <2>1
    <3> QED  BY <1>1, <1>2, <3>1
  <2> QED  BY <2>1
<1>4. LastSays(k, w)'
  <2>1. ASSUME NEW i \in DOMAIN edits', Counts(i, k)', \A j \in DOMAIN edits' : j > i => ~Counts(j, k)'
        PROVE  edits'[i].value = w
    <3>1. Counts(i + 1, k) /\ i + 1 \in DOMAIN edits /\ edits'[i] = edits[i + 1]
      BY <1>1, <1>2, <2>1
    <3>2. ASSUME NEW j \in DOMAIN edits, j > i + 1 PROVE ~Counts(j, k)
      <4>1. j > 1 /\ j - 1 > i
        BY <1>1, <3>2
      <4> QED  BY <1>3, <2>1, <4>1
    <3> QED  BY <3>1, <3>2 DEF LastSays
  <2> QED  BY <2>1 DEF LastSays
<1>5. ASSUME Nothing(k)' PROVE \A j \in DOMAIN edits : j > 1 => ~Counts(j, k)
  BY <1>3, <1>5 DEF Nothing
<1>6. Nothing(k)' => \/ Counts(1, k) /\ edits[1].value = w
                     \/ ~Counts(1, k) /\ Nothing(k)
  BY <1>1, <1>5 DEF LastSays, Nothing
<1> QED  BY <1>4, <1>6

\* The start has the types.
LEMMA TypeInit == Init => Typed
<1> SUFFICES ASSUME Init PROVE Typed
  OBVIOUS
<1>1. Defaults \in Settings
  <2>1. \A k \in Keys : (k \in {"kill", "redact"}) \in BOOLEAN
    OBVIOUS
  <2> QED  BY <2>1 DEF Defaults, Settings
<1>2. edits \in Seq(Edits) /\ Len(edits) = 0
  BY EmptySeq DEF Init
<1>3. Turning
  BY DEF Init, NoTurn, Turning, Settings
<1>4. /\ settings = Defaults /\ wish = Defaults /\ accept = "no" /\ toggles = 0 /\ lost = {}
      /\ provider = None /\ prefer = FALSE
  BY DEF Init
<1>5. 0 \in 0..MaxToggles
  BY ConfigAssumption
<1>6. Len(edits) <= toggles + IF Waiting THEN 1 ELSE 0
  BY <1>2, <1>4 DEF Waiting
<1>7. Switching
  BY <1>1, <1>2, <1>4, <1>5, <1>6 DEF Switching
<1> QED  BY <1>3, <1>7 DEF Typed

\* Every step keeps the types of a turn.
LEMMA TurningStep == Typed /\ [Next]_vars => Turning'
<1> SUFFICES ASSUME Typed, [Next]_vars PROVE Turning'
  OBVIOUS
<1>q. Turning /\ settings \in Settings /\ provider \in Configs \cup {None} /\ prefer \in BOOLEAN
        /\ edits \in Seq(Edits)
  BY DEF Typed, Switching
<1>1. CASE UNCHANGED <<turn, seen>>
  BY <1>q, <1>1 DEF Turning
<1>2. CASE applyEdit
  <2>1. settings' \in Settings
    <3>1. Head(edits) \in Edits
      BY <1>q, <1>2, Taken DEF applyEdit
    <3> QED  BY <1>q, <1>2, <3>1 DEF applyEdit, Settings, Edits
  <2> QED  BY <1>q, <1>2, <2>1 DEF applyEdit, Turning
<1>3. CASE onSend
  BY <1>q, <1>3 DEF onSend, Turning
<1>4. CASE prepared \/ snapshot \/ generate \/ requestFails
  BY <1>q, <1>4 DEF prepared, snapshot, generate, requestFails, Turning
<1>5. CASE answer
  <2>1. turn.privacy["redact"] \in BOOLEAN
    BY <1>q DEF Turning, Settings, Keys
  <2> QED  BY <1>q, <1>5, <2>1 DEF answer, Routed, Turning
<1>6. CASE turnEnds \/ Restarted
  <2>1. turn' = NoTurn /\ seen' = {}
    BY <1>6 DEF turnEnds, Restarted
  <2> QED  BY <2>1 DEF Turning, NoTurn, Settings
<1> QED  BY <1>1, <1>2, <1>3, <1>4, <1>5, <1>6 DEF Next, vars, turnVars, cloudVars, settingVars,
         acceptTerms, acceptLogging, leaveSettings, toggle, saveRemoteConfig, clearRemoteConfig,
         setPreferCloud

\* Every step keeps the types, and the queue is no longer than the flips and one edit.
LEMMA TypeStep == Typed /\ [Next]_vars => Typed'
<1> SUFFICES ASSUME Typed, [Next]_vars PROVE Typed'
  OBVIOUS
<1> USE DEF Waiting, Switching
<1>q. /\ settings \in Settings /\ wish \in Settings /\ edits \in Seq(Edits)
      /\ accept \in {"no", "consent", "between", "logging", "done"} /\ toggles \in 0..MaxToggles
      /\ lost \in SUBSET Keys /\ provider \in Configs \cup {None} /\ prefer \in BOOLEAN
      /\ Len(edits) <= toggles + IF Waiting THEN 1 ELSE 0
  BY DEF Typed, Switching
<1>n. Len(edits) \in Nat /\ toggles \in Nat /\ DOMAIN edits = 1..Len(edits)
  BY <1>q, LenProperties
<1>t. Turning'
  BY TurningStep
<1>k. {"kill", "consent", "redact", "logging"} = Keys /\ MaxToggles \in Nat
  BY ConfigAssumption DEF Keys
<1>s. SUFFICES Switching'
  BY <1>t DEF Typed
<1>1. CASE UNCHANGED settingVars /\ provider' \in Configs \cup {None} /\ prefer' \in BOOLEAN
  BY <1>q, <1>1 DEF settingVars
<1>2. CASE acceptTerms
  <2>1. Ask("consent", TRUE, "app") /\ wish' = [wish EXCEPT !["consent"] = TRUE, !["logging"] = TRUE]
        /\ UNCHANGED <<settings, toggles, lost, provider, prefer>>
        /\ accept = "no" /\ accept' = "consent"
    BY <1>2 DEF acceptTerms, cloudVars
  <2>2. edits' \in Seq(Edits) /\ Len(edits') = Len(edits) + 1
    BY <1>q, <1>k, <2>1, Asked
  <2>3. wish' \in Settings
    BY <1>q, <2>1 DEF Settings
  <2> QED  BY <1>q, <1>n, <2>1, <2>2, <2>3
<1>3. CASE acceptLogging
  <2>1. Ask("logging", TRUE, "app") /\ UNCHANGED <<settings, toggles, wish, lost, provider, prefer>>
        /\ accept = "between" /\ accept' = "logging"
    BY <1>3 DEF acceptLogging, cloudVars
  <2>2. edits' \in Seq(Edits) /\ Len(edits') = Len(edits) + 1
    BY <1>q, <1>k, <2>1, Asked
  <2> QED  BY <1>q, <1>n, <2>1, <2>2
<1>4. ASSUME NEW k \in Keys, toggle(k) PROVE Switching'
  <2>1. Ask(k, ~settings[k], "screen") /\ UNCHANGED <<settings, accept, provider, prefer>>
        /\ toggles' = toggles + 1 /\ toggles < MaxToggles
        /\ wish' = [wish EXCEPT ![k] = ~settings[k]] /\ lost' \in SUBSET Keys
    BY <1>q, <1>4 DEF toggle, cloudVars
  <2>2. (~settings[k]) \in BOOLEAN
    OBVIOUS
  <2>3. edits' \in Seq(Edits) /\ Len(edits') = Len(edits) + 1
    BY <1>q, <2>1, <2>2, Asked
  <2>4. wish' \in Settings
    BY <1>q, <2>1, <2>2 DEF Settings
  <2>5. toggles' \in 0..MaxToggles
    BY <1>q, <1>k, <2>1
  <2> QED  BY <1>q, <1>n, <2>1, <2>3, <2>4, <2>5
<1>5. CASE applyEdit
  <2>1. /\ edits # <<>> /\ edits' = Tail(edits) /\ UNCHANGED <<toggles, wish, lost, provider, prefer>>
        /\ settings' = IF Head(edits).by = "nobody" THEN settings
                       ELSE [settings EXCEPT ![Head(edits).key] = Head(edits).value]
        /\ accept' \in {accept, "between", "done"}
    BY <1>5 DEF applyEdit, cloudVars
  <2>2. edits' \in Seq(Edits) /\ Len(edits') = Len(edits) - 1 /\ Head(edits) \in Edits
    BY <1>q, <2>1, Taken
  <2>3. settings' \in Settings
    BY <1>q, <2>1, <2>2 DEF Settings, Edits
  <2> QED  BY <1>q, <1>n, <2>1, <2>2, <2>3
<1>6. CASE leaveSettings
  <2>1. UNCHANGED <<settings, accept, toggles, wish, provider, prefer>>
    BY <1>6 DEF leaveSettings, cloudVars
  <2>2. PICK begun \in 0..1 :
          /\ edits' = [i \in DOMAIN edits |-> IF i > begun /\ edits[i].by = "screen"
                                              THEN [edits[i] EXCEPT !.by = "nobody"] ELSE edits[i]]
          /\ lost' = lost \cup {edits[i].key : i \in {j \in DOMAIN edits :
                                                        j > begun /\ edits[j].by = "screen"}}
    BY <1>6 DEF leaveSettings
  <2>3. ASSUME NEW i \in 1..Len(edits)
        PROVE  edits[i] \in Edits /\ [edits[i] EXCEPT !.by = "nobody"] \in Edits
               /\ edits[i].key \in Keys
    <3>1. edits[i] \in Edits
      BY <1>q, <2>3, ElementOfSeq
    <3> QED  BY <3>1 DEF Edits
  <2>4. edits' \in Seq(Edits) /\ Len(edits') = Len(edits)
    BY <1>n, <2>2, <2>3, IsASeq
  <2>5. lost' \in SUBSET Keys
    BY <1>q, <1>n, <2>2, <2>3
  <2> QED  BY <1>q, <2>1, <2>4, <2>5
<1>7. CASE Restarted
  <2>1. edits' = <<>> /\ edits' \in Seq(Edits) /\ Len(edits') = 0
    BY <1>7, EmptySeq DEF Restarted
  <2>2. /\ UNCHANGED <<settings, toggles, provider, prefer>> /\ wish' = settings /\ lost' = {}
        /\ accept' \in {"no", "done"}
    BY <1>7 DEF Restarted, cloudVars
  <2> QED  BY <1>q, <1>n, <2>1, <2>2
<1> QED  BY <1>q, <1>1, <1>2, <1>3, <1>4, <1>5, <1>6, <1>7 DEF Next, vars, turnVars, cloudVars,
         saveRemoteConfig, clearRemoteConfig, setPreferCloud, onSend, prepared, snapshot, answer,
         generate, requestFails, turnEnds

\* Every variable keeps its type, and the queue of edits its bound.
THEOREM RouterTypes == Spec => []TypeOK
<1>1. Typed => TypeOK
  <2> SUFFICES ASSUME Typed PROVE TypeOK
    OBVIOUS
  <2>1. Len(edits) \in Nat /\ toggles \in 0..MaxToggles /\ Len(edits) <= toggles + 1
    BY LenProperties DEF Typed, Switching
  <2>2. Len(edits) <= MaxToggles + 1
    BY <2>1, ConfigAssumption
  <2> QED  BY <2>2 DEF Typed, Switching, Turning, TypeOK
<1> QED  BY <1>1, TypeInit, TypeStep, PTL DEF Spec

\* acceptLogging comes after the first edit was made.
LEMMA OneAppStep == Typed /\ OneApp /\ [Next]_vars => OneApp'
<1> SUFFICES ASSUME Typed, OneApp, [Next]_vars PROVE OneApp'
  OBVIOUS
<1> USE DEF Waiting
<1>q. edits \in Seq(Edits) /\ settings \in Settings
  BY DEF Typed, Switching
<1>1. CASE UNCHANGED <<edits, accept>>
  BY <1>1 DEF OneApp
<1>2. CASE acceptTerms \/ acceptLogging
  <2>1. PICK k \in Keys : Ask(k, TRUE, "app")
    BY <1>2 DEF acceptTerms, acceptLogging, Keys
  <2>2. ~Waiting /\ Waiting'
    BY <1>2 DEF acceptTerms, acceptLogging
  <2>3. /\ Len(edits') = Len(edits) + 1 /\ Len(edits) \in Nat
        /\ DOMAIN edits = 1..Len(edits) /\ DOMAIN edits' = 1..Len(edits')
        /\ \A i \in DOMAIN edits : edits'[i] = edits[i]
    BY <1>q, <2>1, Asked
  <2>4. \A i \in DOMAIN edits' : edits'[i].by = "app" => i = Len(edits')
    BY <2>2, <2>3 DEF OneApp
  <2> QED  BY <2>2, <2>4 DEF OneApp
<1>3. ASSUME NEW k \in Keys, toggle(k) PROVE OneApp'
  <2>1. Ask(k, ~settings[k], "screen") /\ UNCHANGED accept
    BY <1>3 DEF toggle
  <2>2. (~settings[k]) \in BOOLEAN
    OBVIOUS
  <2>3. /\ Len(edits') = Len(edits) + 1 /\ Len(edits) \in Nat
        /\ DOMAIN edits = 1..Len(edits) /\ DOMAIN edits' = 1..Len(edits')
        /\ \A i \in DOMAIN edits : edits'[i] = edits[i]
        /\ edits'[Len(edits')].by = "screen"
    BY <1>q, <2>1, <2>2, Asked
  <2>4. \A i \in DOMAIN edits' : edits'[i].by = "app" => i \in DOMAIN edits /\ edits[i].by = "app"
    BY <2>3
  <2> QED  BY <2>1, <2>4 DEF OneApp
<1>4. CASE applyEdit
  <2>1. /\ edits # <<>> /\ edits' = Tail(edits)
        /\ accept' = CASE Head(edits).by # "app" -> accept
                       [] Head(edits).by = "app" /\ accept = "consent" -> "between"
                       [] OTHER -> "done"
    BY <1>4 DEF applyEdit
  <2>2. /\ DOMAIN edits = 1..Len(edits) /\ Len(edits) \in Nat \ {0}
        /\ \A i \in DOMAIN edits' : i \in Nat \ {0} /\ i + 1 \in DOMAIN edits /\ edits'[i] = edits[i + 1]
        /\ Head(edits) = edits[1] /\ 1 \in DOMAIN edits
    BY <1>q, <2>1, Taken
  <2>3. CASE edits[1].by = "app"
    <3>1. \A i \in DOMAIN edits' : edits'[i].by # "app"
      BY <2>2, <2>3 DEF OneApp
    <3> QED  BY <3>1 DEF OneApp
  <2>4. CASE edits[1].by # "app"
    <3>1. accept' = accept
      BY <2>1, <2>2, <2>4
    <3> QED  BY <2>2, <3>1 DEF OneApp
  <2> QED  BY <2>3, <2>4
<1>5. CASE leaveSettings
  <2>1. UNCHANGED accept /\ DOMAIN edits' = DOMAIN edits
        /\ \A i \in DOMAIN edits : edits'[i] = edits[i] \/ edits'[i] = [edits[i] EXCEPT !.by = "nobody"]
    BY <1>5 DEF leaveSettings
  <2>2. \A i \in DOMAIN edits : edits[i] \in Edits
    BY <1>q, ElementOfSeq, LenProperties
  <2>3. \A i \in DOMAIN edits' : edits'[i].by = "app" => i \in DOMAIN edits /\ edits[i].by = "app"
    BY <2>1, <2>2 DEF Edits
  <2> QED  BY <2>1, <2>3 DEF OneApp
<1>6. CASE Restarted
  <2>1. DOMAIN edits' = {}
    BY <1>6 DEF Restarted
  <2> QED  BY <2>1 DEF OneApp
<1> QED  BY <1>1, <1>2, <1>3, <1>4, <1>5, <1>6 DEF Next, vars, settingVars, saveRemoteConfig,
         clearRemoteConfig, setPreferCloud, onSend, prepared, snapshot, answer, generate,
         requestFails, turnEnds

\* Where a switch stands, before and after a step.
LEMMA StandsBoth ==
  ASSUME NEW k \in Keys, NEW w \in BOOLEAN
  PROVE  /\ wish[k] = w /\ Stands(k) => (Nothing(k) => settings[k] = w) /\ LastSays(k, w)
         /\ wish'[k] = w /\ LastSays(k, w)' /\ (Nothing(k)' => settings'[k] = w) => Stands(k)'
BY DEF Stands, LastSays

\* A switch whose edit is asked for stands as asked; every other one as before.
LEMMA StandsAsked ==
  ASSUME Typed, NEW k \in Keys, NEW v \in BOOLEAN, NEW by \in {"app", "screen"}, Ask(k, v, by),
         UNCHANGED settings
  PROVE  /\ wish'[k] = v => Stands(k)'
         /\ \A d \in Keys \ {k} : wish'[d] = wish[d] /\ Stands(d) => Stands(d)'
<1>q. edits \in Seq(Edits) /\ \A d \in Keys : wish[d] \in BOOLEAN
  BY DEF Typed, Switching, Settings
<1>1. wish'[k] = v => Stands(k)'
  BY <1>q, AskedLast, StandsBoth
<1>2. ASSUME NEW d \in Keys \ {k}, wish'[d] = wish[d], Stands(d) PROVE Stands(d)'
  <2>1. PICK w \in BOOLEAN : w = wish[d]
    BY <1>q
  <2>2. (Nothing(d) => settings[d] = w) /\ LastSays(d, w)
    BY <1>2, <2>1, StandsBoth
  <2>3. (Nothing(d)' => Nothing(d)) /\ LastSays(d, w)'
    BY <1>q, <2>2, AskedLast
  <2> QED  BY <1>2, <2>1, <2>2, <2>3, StandsBoth
<1> QED  BY <1>1, <1>2

\* The last edit asked for wins, whatever is cancelled or taken before it.
LEMMA SettledStep == Typed /\ OneApp /\ Settled /\ [Next]_vars => Settled'
<1> SUFFICES ASSUME Typed, OneApp, Settled, [Next]_vars PROVE Settled'
  OBVIOUS
<1> USE DEF Overtaken
<1>q. /\ edits \in Seq(Edits) /\ settings \in Settings /\ wish \in Settings /\ lost \in SUBSET Keys
      /\ \A k \in Keys : wish[k] \in BOOLEAN /\ (~settings[k]) \in BOOLEAN
      /\ "consent" \in Keys /\ "logging" \in Keys
  BY DEF Typed, Switching, Settings, Keys
<1>1. CASE UNCHANGED <<edits, accept, settings, wish, lost>>
  BY <1>1 DEF Settled, Stands, Nothing, LastSays, Counts
<1>2. CASE acceptTerms
  <2>1. /\ Ask("consent", TRUE, "app") /\ UNCHANGED <<settings, lost>>
        /\ accept = "no" /\ accept' = "consent"
        /\ wish' = [wish EXCEPT !["consent"] = TRUE, !["logging"] = TRUE]
    BY <1>2 DEF acceptTerms
  <2>2. wish'["consent"] = TRUE /\ wish'["logging"] = TRUE
        /\ \A k \in Keys \ {"consent", "logging"} : wish'[k] = wish[k]
    BY <1>q, <2>1 DEF Settings
  <2>3. Stands("consent")' /\ \A k \in Keys \ {"consent", "logging"} : Stands(k) => Stands(k)'
    BY <1>q, <2>1, <2>2, StandsAsked
  <2> QED  BY <2>1, <2>2, <2>3 DEF Settled
<1>3. CASE acceptLogging
  <2>1. /\ Ask("logging", TRUE, "app") /\ UNCHANGED <<settings, wish, lost>>
        /\ accept = "between" /\ accept' = "logging"
    BY <1>3 DEF acceptLogging
  <2>2. /\ wish'["logging"] = TRUE => Stands("logging")'
        /\ \A k \in Keys \ {"logging"} : Stands(k) => Stands(k)'
    BY <1>q, <2>1, StandsAsked
  <2> QED  BY <2>1, <2>2 DEF Settled
<1>4. ASSUME NEW k \in Keys, toggle(k) PROVE Settled'
  <2>1. /\ Ask(k, ~settings[k], "screen") /\ UNCHANGED <<settings, accept>>
        /\ wish' = [wish EXCEPT ![k] = ~settings[k]]
        /\ lost' = IF Overtaken(k) THEN lost \cup {k} ELSE lost \ {k}
    BY <1>4 DEF toggle
  <2>2. wish'[k] = ~settings[k] /\ \A d \in Keys \ {k} : wish'[d] = wish[d]
    BY <1>q, <2>1 DEF Settings
  <2>3. Stands(k)' /\ \A d \in Keys \ {k} : Stands(d) => Stands(d)'
    <3>1. PICK v \in BOOLEAN : v = ~settings[k]
      BY <1>q
    <3>2. Ask(k, v, "screen") /\ wish'[k] = v
      BY <2>1, <2>2, <3>1
    <3> QED  BY <2>1, <2>2, <3>2, StandsAsked
  <2> QED  BY <2>1, <2>2, <2>3 DEF Settled
<1>5. CASE applyEdit
  <2>1. /\ edits # <<>> /\ edits' = Tail(edits) /\ UNCHANGED <<wish, lost>>
        /\ settings' = IF Head(edits).by = "nobody" THEN settings
                       ELSE [settings EXCEPT ![Head(edits).key] = Head(edits).value]
        /\ accept' = CASE Head(edits).by # "app" -> accept
                       [] Head(edits).by = "app" /\ accept = "consent" -> "between"
                       [] OTHER -> "done"
    BY <1>5 DEF applyEdit
  <2>2. Head(edits) = edits[1] /\ 1 \in DOMAIN edits /\ edits[1] \in Edits
    BY <1>q, <2>1, Taken
  <2>3. \A k \in Keys : Overtaken(k) => Overtaken(k)'
    BY <2>1, <2>2 DEF OneApp, Waiting
  <2>4. ASSUME NEW k \in Keys PROVE settings'[k] = IF Counts(1, k) THEN edits[1].value ELSE settings[k]
    BY <1>q, <2>1, <2>2 DEF Counts, Settings, Edits
  <2>5. ASSUME NEW k \in Keys, Stands(k) PROVE Stands(k)'
    <3>1. PICK w \in BOOLEAN : w = wish[k]
      BY <1>q
    <3>2. (Nothing(k) => settings[k] = w) /\ LastSays(k, w)
      BY <2>5, <3>1, StandsBoth
    <3>3. /\ LastSays(k, w)'
          /\ Nothing(k)' => \/ Counts(1, k) /\ edits[1].value = w
                            \/ ~Counts(1, k) /\ Nothing(k)
      BY <1>q, <2>1, <3>2, TakenFirst
    <3>4. Nothing(k)' => settings'[k] = w
      BY <2>4, <3>2, <3>3
    <3> QED  BY <2>1, <3>1, <3>3, <3>4, StandsBoth
  <2>6. \A k \in Keys : Overtaken(k)' => Overtaken(k)
    BY <2>1, <2>2
  <2> QED  BY <2>1, <2>3, <2>5, <2>6 DEF Settled
<1>6. CASE leaveSettings
  <2>1. PICK begun \in 0..1 :
          /\ edits' = [i \in DOMAIN edits |-> IF i > begun /\ edits[i].by = "screen"
                                              THEN [edits[i] EXCEPT !.by = "nobody"] ELSE edits[i]]
          /\ lost' = lost \cup {edits[i].key : i \in {j \in DOMAIN edits :
                                                        j > begun /\ edits[j].by = "screen"}}
    BY <1>6 DEF leaveSettings
  <2>2. UNCHANGED <<settings, accept, wish>> /\ lost \subseteq lost' /\ DOMAIN edits' = DOMAIN edits
    BY <1>6, <2>1 DEF leaveSettings
  <2>3. ASSUME NEW k \in Keys \ lost', NEW i \in DOMAIN edits
        PROVE  (Counts(i, k)' <=> Counts(i, k)) /\ edits'[i].value = edits[i].value
    <3>1. edits[i] \in Edits
      BY <1>q, ElementOfSeq, LenProperties
    <3>2. CASE i > begun /\ edits[i].by = "screen"
      <4>1. edits[i].key # k /\ edits'[i] = [edits[i] EXCEPT !.by = "nobody"]
        BY <2>1, <2>3, <3>2
      <4> QED  BY <3>1, <4>1 DEF Counts, Edits
    <3>3. CASE ~(i > begun /\ edits[i].by = "screen")
      BY <2>1, <3>3 DEF Counts
    <3> QED  BY <3>2, <3>3
  <2>4. ASSUME NEW k \in Keys \ lost', Stands(k) PROVE Stands(k)'
    BY <2>2, <2>3, <2>4 DEF Stands, Nothing, LastSays
  <2> QED  BY <2>2, <2>4 DEF Settled
<1>7. CASE Restarted
  <2>1. DOMAIN edits' = {} /\ wish' = settings' /\ accept' \in {"no", "done"}
    BY <1>7 DEF Restarted
  <2> QED  BY <2>1 DEF Settled, Stands, LastSays
<1> QED  BY <1>1, <1>2, <1>3, <1>4, <1>5, <1>6, <1>7 DEF Next, vars, settingVars, saveRemoteConfig,
         clearRemoteConfig, setPreferCloud, onSend, prepared, snapshot, answer, generate,
         requestFails, turnEnds

\* When all edits are made, every switch stands as the user last put it, unless they left
\* Settings before that or flipped it under the second edit of acceptTerms().
THEOREM LastWordCounts == Spec => []LastWord
<1>1. Settled => LastWord
  <2> SUFFICES ASSUME Settled, edits = <<>>, accept \notin {"consent", "between"}, NEW k \in Keys \ lost
               PROVE  settings[k] = wish[k]
    BY DEF LastWord
  <2>1. DOMAIN edits = {}
    OBVIOUS
  <2> QED  BY <2>1 DEF Settled, Overtaken, Stands, Nothing
<1>2. Init => OneApp /\ Settled
  <2> SUFFICES ASSUME Init PROVE OneApp /\ Settled
    OBVIOUS
  <2>1. DOMAIN edits = {} /\ wish = settings /\ accept = "no"
    BY DEF Init
  <2> QED  BY <2>1 DEF OneApp, Settled, Overtaken, Stands, LastSays
<1> QED  BY <1>1, <1>2, TypeInit, TypeStep, OneAppStep, SettledStep, PTL DEF Spec
================================================================================

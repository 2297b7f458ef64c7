---------------------------- MODULE PrivacyRouter ----------------------------
(***************************************************************************)
(* Where a turn is answered (inference/PrivacyRouter.kt, NetworkGuard,     *)
(* RemoteEngine), from the button to the request on the wire, while the    *)
(* settings it depends on change: the four privacy switches in DataStore   *)
(* (privacy/PrivacySettings.kt), the stored provider (RemoteConfigStore)   *)
(* and the picked model (SelectionStore).                                  *)
(*                                                                         *)
(* A prompt is its redaction only; replies are in ChatRepository.tla.      *)
(***************************************************************************)
EXTENDS Naturals, Sequences

CONSTANTS
  Configs,     \* providers the user may configure
  LogsData,    \* those of them that may log or train on prompts
  None,
  MaxToggles   \* bound: switches flipped

ASSUME ConfigAssumption ==
  LogsData \subseteq Configs /\ None \notin Configs /\ MaxToggles \in Nat

VARIABLES
  settings,  \* what DataStore holds
  edits,     \* the edits waiting in DataStore, oldest first
  accept,    \* acceptTerms(): its edits are asked for one after the other
  toggles,   \* switches flipped so far
  provider,  \* the stored configuration
  prefer,    \* preferCloud
  turn,      \* the turn in progress
  seen,      \* history variable: the settings in force since the turn's message was shown
  wish,      \* history variable: what the user last asked for
  lost       \* history variable: switches whose last flip was cancelled or overtaken

turnVars == <<turn, seen>>
cloudVars == <<provider, prefer>>
settingVars == <<settings, edits, accept, toggles, wish, lost>>
vars == <<turnVars, cloudVars, settingVars>>

Keys == {"kill", "consent", "redact", "logging"}
Settings == [Keys -> BOOLEAN]
Edits == [key : Keys, value : BOOLEAN, by : {"app", "screen", "nobody"}]
NoTurn == [step |-> "idle", cloud |-> FALSE, config |-> None, redacted |-> FALSE,
           privacy |-> [k \in Keys |-> FALSE]]

TypeOK ==
  /\ settings \in Settings /\ wish \in Settings
  /\ edits \in Seq(Edits) /\ Len(edits) <= MaxToggles + 1
  /\ accept \in {"no", "consent", "between", "logging", "done"}
  /\ toggles \in 0..MaxToggles /\ lost \in SUBSET Keys
  /\ provider \in Configs \cup {None} /\ prefer \in BOOLEAN
  /\ turn \in [step : {"idle", "prepare", "wait", "route", "local", "dial", "sent", "noted"},
               cloud : BOOLEAN, config : Configs \cup {None}, redacted : BOOLEAN,
               privacy : Settings]
  /\ seen \in SUBSET Settings

\* A new installation.
Defaults == [k \in Keys |-> k \in {"kill", "redact"}]
Init ==
  /\ settings = Defaults /\ wish = settings /\ edits = <<>> /\ accept = "no"
  /\ toggles = 0 /\ lost = {}
  /\ provider = None /\ prefer = FALSE /\ turn = NoTurn /\ seen = {}

(***************************************************************************)
(* The switches.                                                           *)
(***************************************************************************)
NetworkAllowed(s) == ~s["kill"] /\ s["consent"]
Permits(s, c) == NetworkAllowed(s) /\ (c \in LogsData => s["logging"])

Ask(k, v, by) == edits' = Append(edits, [key |-> k, value |-> v, by |-> by])

\* Mutation: both edits at once.
acceptTermsAtOnce ==
  /\ accept = "no" /\ accept' = "logging"
  /\ edits' = edits \o << [key |-> "consent", value |-> TRUE, by |-> "app"],
                          [key |-> "logging", value |-> TRUE, by |-> "app"] >>
  /\ wish' = [wish EXCEPT !["consent"] = TRUE, !["logging"] = TRUE]
  /\ UNCHANGED <<settings, toggles, lost, turnVars, cloudVars>>

\* The first edit of acceptTerms() on the application's scope.
acceptTerms ==
  /\ accept = "no" /\ accept' = "consent" /\ Ask("consent", TRUE, "app")
  /\ wish' = [wish EXCEPT !["consent"] = TRUE, !["logging"] = TRUE]
  /\ UNCHANGED <<settings, toggles, lost, turnVars, cloudVars>>

acceptLogging ==
  /\ accept = "between" /\ accept' = "logging" /\ Ask("logging", TRUE, "app")
  /\ UNCHANGED <<settings, toggles, wish, lost, turnVars, cloudVars>>

\* A flip that acceptTerms() will overrule.
Overtaken(k) == k = "logging" /\ accept \in {"consent", "between"}

\* Mutation: the key of another switch.
toggleOtherKey(k) ==
  /\ accept # "no" /\ toggles < MaxToggles /\ toggles' = toggles + 1
  /\ Ask(IF k = "logging" THEN "consent" ELSE k, ~settings[k], "screen")
  /\ wish' = [wish EXCEPT ![k] = ~settings[k]]
  /\ lost' = IF Overtaken(k) THEN lost \cup {k} ELSE lost \ {k}
  /\ UNCHANGED <<settings, accept, turnVars, cloudVars>>

\* The user flips a switch of Settings, which shows what DataStore holds.
toggle(k) ==
  /\ accept # "no" /\ toggles < MaxToggles /\ toggles' = toggles + 1
  /\ Ask(k, ~settings[k], "screen")
  /\ wish' = [wish EXCEPT ![k] = ~settings[k]]
  /\ lost' = IF Overtaken(k) THEN lost \cup {k} ELSE lost \ {k}
  /\ UNCHANGED <<settings, accept, turnVars, cloudVars>>

\* DataStore takes one edit at a time, in order; one that was cancelled changes nothing.
applyEdit ==
  /\ edits # <<>> /\ edits' = Tail(edits)
  /\ LET e == Head(edits) IN
       /\ settings' = IF e.by = "nobody" THEN settings ELSE [settings EXCEPT ![e.key] = e.value]
       /\ accept' = CASE e.by # "app" -> accept
                      [] e.by = "app" /\ accept = "consent" -> "between"
                      [] OTHER -> "done"
  /\ seen' = IF turn.step \in {"idle", "prepare"} THEN seen ELSE seen \cup {settings'}
  /\ UNCHANGED <<toggles, wish, lost, turn, cloudVars>>

\* Its view model's scope is cancelled: edits asked for from it are not made, except
\* one that DataStore is already writing.
leaveSettings ==
  /\ edits # <<>>
  /\ \E begun \in 0..1 :
       LET Cancelled(i) == i > begun /\ edits[i].by = "screen"
       IN  /\ edits' = [i \in DOMAIN edits |->
                          IF Cancelled(i) THEN [edits[i] EXCEPT !.by = "nobody"] ELSE edits[i]]
           /\ lost' = lost \cup {edits[i].key : i \in {j \in DOMAIN edits : Cancelled(j)}}
  /\ UNCHANGED <<settings, accept, toggles, wish, turnVars, cloudVars>>

(***************************************************************************)
(* The provider and the picked model.                                      *)
(***************************************************************************)
\* A provider whose check succeeded is stored, whatever was stored meanwhile.
saveRemoteConfig(c) ==
  /\ accept # "no" /\ provider' = c
  /\ UNCHANGED <<prefer, turnVars, settingVars>>

clearRemoteConfig ==
  /\ provider # None /\ provider' = None /\ prefer' = FALSE
  /\ UNCHANGED <<turnVars, settingVars>>

\* The picker offers the cloud model while there is one.
setPreferCloud(v) ==
  /\ accept # "no" /\ (v => provider # None) /\ prefer' = v
  /\ UNCHANGED <<provider, turnVars, settingVars>>

(***************************************************************************)
(* A turn.                                                                 *)
(***************************************************************************)
onSend ==
  /\ accept # "no" /\ turn.step = "idle"
  /\ turn' = [turn EXCEPT !.step = "prepare", !.cloud = prefer /\ provider # None]
  /\ UNCHANGED <<seen, cloudVars, settingVars>>

\* The history is prepared, which may take a summary, and the message is shown.
prepared ==
  /\ turn.step = "prepare" /\ turn' = [turn EXCEPT !.step = "wait"]
  /\ seen' = {settings}
  /\ UNCHANGED <<cloudVars, settingVars>>

\* privacyState.first()
snapshot ==
  /\ turn.step = "wait" /\ turn' = [turn EXCEPT !.step = "route", !.privacy = settings]
  /\ UNCHANGED <<seen, cloudVars, settingVars>>

\* Back on the main thread; prompt and history are redacted, or the turn stays on the
\* device with a note.
Routed(allowed) ==
  turn' = [turn EXCEPT !.step = IF turn.cloud /\ allowed THEN "dial" ELSE "local",
                       !.config = IF turn.cloud THEN provider ELSE None,
                       !.redacted = turn.privacy["redact"]]

\* Mutation: the second consent is not asked of models that log.
answerOneConsent ==
  /\ turn.step = "route"
  /\ Routed(provider # None /\ NetworkAllowed(turn.privacy))
  /\ UNCHANGED <<seen, cloudVars, settingVars>>

\* Mutation: the second consent is asked of every model.
answerBothConsents ==
  /\ turn.step = "route"
  /\ Routed(provider # None /\ NetworkAllowed(turn.privacy) /\ turn.privacy["logging"])
  /\ UNCHANGED <<seen, cloudVars, settingVars>>

answer ==
  /\ turn.step = "route"
  /\ Routed(provider # None /\ Permits(turn.privacy, provider))
  /\ UNCHANGED <<seen, cloudVars, settingVars>>

\* The request leaves, from a thread of its own.
generate ==
  /\ turn.step = "dial" /\ turn' = [turn EXCEPT !.step = "sent"]
  /\ UNCHANGED <<seen, cloudVars, settingVars>>

\* Mutation: a turn whose request failed is answered on the device.
requestFailsOver ==
  /\ turn.step \in {"dial", "sent"} /\ turn' = [turn EXCEPT !.step = "local"]
  /\ UNCHANGED <<seen, cloudVars, settingVars>>

\* RemoteEngine throws, before the request has left or after: send() ends the reply with
\* a note of the error, and does not ask the router again.
requestFails ==
  /\ turn.step \in {"dial", "sent"} /\ turn' = [turn EXCEPT !.step = "noted"]
  /\ UNCHANGED <<seen, cloudVars, settingVars>>

\* The reply ends, or the user stops the turn at any step.
turnEnds ==
  /\ turn.step # "idle" /\ turn' = NoTurn /\ seen' = {}
  /\ UNCHANGED <<cloudVars, settingVars>>

\* The process dies and starts again; the switches show what was stored.
Restarted ==
  /\ turn' = NoTurn /\ seen' = {}
  /\ edits' = <<>> /\ wish' = settings /\ lost' = {}
  /\ accept' = IF accept = "no" THEN "no" ELSE "done"
  /\ UNCHANGED <<settings, toggles, cloudVars>>

Next ==
  \/ acceptTerms \/ acceptLogging \/ applyEdit \/ leaveSettings
  \/ \E k \in Keys : toggle(k)
  \/ \E c \in Configs : saveRemoteConfig(c)
  \/ clearRemoteConfig \/ \E v \in BOOLEAN : setPreferCloud(v)
  \/ onSend \/ prepared \/ snapshot \/ answer \/ generate \/ requestFails \/ turnEnds
  \/ Restarted

Spec == Init /\ [][Next]_vars

(***************************************************************************)
(* Properties.                                                             *)
(***************************************************************************)
\* "NetworkGuard must approve it (kill switch off and consent given)", the second
\* consent and the redaction (PrivacyRouter.kt, lines 15-19): what a turn sends was
\* allowed, all four switches taken together, at one moment after its message was
\* shown, however long the turn waited before and whatever was flipped meanwhile.
SentAsPermitted ==
  turn.step = "sent" =>
    \E s \in seen : Permits(s, turn.config) /\ (s["redact"] => turn.redacted)

\* A turn for the cloud is answered on the device only for a reason that existed then:
\* no provider, or a switch.  A failing request is no such reason: "on any cloud error,
\* it falls back to LOCAL" (docs/ARCHITECTURE.md line 46) is not what the code does.
FallbackJustified ==
  turn.step = "local" /\ turn.cloud =>
    turn.config = None \/ \E s \in seen : ~Permits(s, turn.config)

\* "both remain revocable in Settings" (acceptTerms, DomainApp.kt line 81): when all
\* edits are made, every switch stands as the user last put it, unless they left
\* Settings before that or flipped it under the second edit of acceptTerms().
LastWord ==
  edits = <<>> /\ accept \notin {"consent", "between"}
    => \A k \in Keys \ lost : settings[k] = wish[k]
==============================================================================

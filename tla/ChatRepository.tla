---------------------------- MODULE ChatRepository ----------------------------
(***************************************************************************)
(* The conversations (data/repository/ChatRepository.kt) as ChatViewModel  *)
(* drives them.  Everything runs on the main thread, so a step is the code *)
(* between two suspension points: the local summary, the first() of the    *)
(* privacy flow, each delta of the reply, and the save on Dispatchers.IO.  *)
(* Between two of them the user may open, create, rename or delete chats.  *)
(*                                                                         *)
(* A message keeps the turn that created it beside the text it shows, also *)
(* by turn; wording and titles are left out.  updatedAt is left out too:   *)
(* "the most recent conversation" is any listed one.  The store is the     *)
(* atomic cell that ConversationStore implements.                          *)
(***************************************************************************)
EXTENDS Naturals, Sequences, FiniteSets

CONSTANTS
  Convs,     \* conversation ids
  Stored,    \* those an earlier run stored, after one turn in each
  None,      \* no conversation
  MaxTurns,  \* bound: messages the user sends
  MaxSaves,  \* bound: saves of deletes and renames in flight at once
  Window     \* RECENT_WINDOW: messages prepareHistory() keeps verbatim (6 in the build)

ASSUME ChatAssumption ==
  /\ None \notin Convs /\ Convs # {} /\ Stored \subseteq Convs
  /\ MaxTurns \in Nat /\ Window \in Nat /\ MaxSaves \in Nat \ {0}

VARIABLES
  app,      \* "down", "loading" while restore() reads the disk, "up" once restored
  list,     \* ids in _conversations
  active,   \* _activeId
  msgs,     \* messages of each conversation
  summary,  \* per conversation: summarizedCount, and what the text really covers
  turns,    \* messages sent so far; the newest one names the current turn
  turn,     \* the send() in progress
  saves,    \* saves in flight, in the order they started
  disk,     \* the history a restart would show
  deleted,  \* history variable: conversations the user deleted
  strays,   \* history variable: conversations that were open, or asked, in a turn
            \* during which another chat came to be the open one
  unsaved   \* history variable: a turn was stopped before its reply streamed, or
            \* two saves overlapped, and no save was started alone since

chats == <<list, active, msgs, summary>>
vars == <<app, chats, turns, turn, saves, disk, deleted, strays, unsaved>>

(***************************************************************************)
(* Data.                                                                   *)
(***************************************************************************)
Turns == 0..MaxTurns      \* 0 is the turn of the earlier run
Parts == {"prompt", "reply"}     \* the reply so far: empty, partial or final
Message(n, role, part) == [by |-> n, role |-> role, of |-> n, part |-> part]
Messages == [by : Turns, role : {"user", "oracle"}, of : Turns, part : Parts]

NoSummary == [count |-> 0, of |-> None, covers |-> 0]
Summaries == [count : Nat, of : Convs \cup {None}, covers : Nat]

TurnSteps == {"idle", "summary", "privacy", "stream", "saving"}
\* from, covers: the prior messages the engine is given start at from, after a
\* summary of the first covers ones; cut: the code chose to truncate.
Idle == [step |-> "idle", conv |-> None, len |-> 0, from |-> 0, covers |-> 0, cut |-> FALSE]

Empty(c) == msgs[c] = <<>>
Histories == [list : SUBSET Convs, msgs : [Convs -> Seq(Messages)],
              summary : [Convs -> Summaries]]
NoHistory == [list |-> {}, msgs |-> [c \in Convs |-> <<>>],
              summary |-> [c \in Convs |-> NoSummary]]
Earlier ==
  [NoHistory EXCEPT !.list = Stored,
     !.msgs = [c \in Convs |-> IF c \in Stored
                               THEN <<Message(0, "user", "prompt"), Message(0, "oracle", "reply")>>
                               ELSE <<>>]]

\* Mutation: persist() writes the list as it is, drafts included.
HistoryOfAll(l, m, s) == [list |-> l, msgs |-> m, summary |-> s]

\* What persist() hands to the store: drafts are never written.
HistoryOf(l, m, s) ==
  LET kept == {c \in l : m[c] # <<>>}
  IN  [list |-> kept,
       msgs |-> [c \in Convs |-> IF c \in kept THEN m[c] ELSE <<>>],
       summary |-> [c \in Convs |-> IF c \in kept THEN s[c] ELSE NoSummary]]

TypeOK ==
  /\ app \in {"down", "loading", "up"}
  /\ list \subseteq Convs /\ active \in Convs \cup {None}
  /\ msgs \in [Convs -> Seq(Messages)] /\ summary \in [Convs -> Summaries]
  /\ turns \in 0..MaxTurns
  /\ turn \in [step : TurnSteps, conv : Convs \cup {None}, len : Nat, from : Nat,
               covers : Nat, cut : BOOLEAN]
  /\ saves \in Seq([by : {"turn", "user"}, what : Histories])
  /\ disk \in Histories /\ \A c \in disk.list : disk.msgs[c] # <<>>
  /\ deleted \subseteq Convs /\ strays \subseteq Convs /\ unsaved \in BOOLEAN

Init ==
  /\ app = "down" /\ list = {} /\ active = None
  /\ msgs = NoHistory.msgs /\ summary = NoHistory.summary
  /\ turns = 0 /\ turn = Idle /\ saves = <<>> /\ disk = Earlier /\ deleted = {}
  /\ strays = {} /\ unsaved = FALSE

(***************************************************************************)
(* The list.                                                               *)
(***************************************************************************)
Running == turn.step # "idle"

\* Ids are random UUIDs: one that nothing refers to.
Unused == {c \in Convs : /\ c \notin list \cup disk.list \cup {turn.conv}
                         /\ \A i \in DOMAIN saves : c \notin saves[i].what.list}

Blank(c) == /\ msgs' = [msgs EXCEPT ![c] = <<>>]
            /\ summary' = [summary EXCEPT ![c] = NoSummary]

\* c is the open chat from now on: fresh, or one of the list.  During a turn the
\* two chats become strays.
Opened(c, fresh) ==
  /\ active' = c
  /\ strays' = (strays \ IF fresh THEN {c} ELSE {})
                 \cup IF Running /\ c # active THEN {c, turn.conv} ELSE {}

newConversation ==
  /\ app # "down"
  /\ ~(active \in list /\ Empty(active))
  /\ \E c \in Unused : /\ list' = {d \in list : ~Empty(d)} \cup {c}
                       /\ Opened(c, TRUE) /\ Blank(c) /\ deleted' = deleted \ {c}
  /\ UNCHANGED <<app, turns, turn, saves, disk, unsaved>>

\* Mutation: the draft that is left stays in the list.
selectConversationKeepsDraft(id) ==
  /\ app # "down" /\ id \in list
  /\ Opened(id, FALSE)
  /\ UNCHANGED <<app, list, msgs, summary, turns, turn, saves, disk, deleted, unsaved>>

selectConversation(id) ==
  /\ app # "down" /\ id \in list
  /\ list' = {c \in list : c = id \/ ~Empty(c)}
  /\ Opened(id, FALSE)
  /\ UNCHANGED <<app, msgs, summary, turns, turn, saves, disk, deleted, unsaved>>

Save(by, what) ==
  /\ by = "user" => Cardinality({i \in DOMAIN saves : saves[i].by = "user"}) < MaxSaves
  /\ saves' = Append(saves, [by |-> by, what |-> what])
  /\ unsaved' = (saves # <<>>)

\* Mutation: no test of restored.
persistUngated(by) == Save(by, HistoryOf(list', msgs', summary'))

\* persist(): a no-op until restored; the snapshot is taken when save() is called.
persist(by) ==
  IF app = "up" THEN Save(by, HistoryOf(list', msgs', summary'))
                ELSE UNCHANGED <<saves, unsaved>>

deleteConversation(id) ==
  /\ app # "down" /\ id \in list
  /\ \/ /\ id # active \/ list # {id}
        /\ list' = list \ {id} /\ UNCHANGED <<msgs, summary>>
        /\ IF id # active THEN UNCHANGED <<active, strays>>
                          ELSE \E c \in list \ {id} : Opened(c, FALSE)
        /\ deleted' = deleted \cup {id}
     \/ /\ id = active /\ list = {id}
        /\ \E c \in Unused : /\ list' = {c} /\ Opened(c, TRUE) /\ Blank(c)
                             /\ deleted' = (deleted \cup {id}) \ {c}
  /\ persist("user")
  /\ UNCHANGED <<app, turns, turn, disk>>

renameConversation(id) ==
  /\ app = "up" /\ id \in list
  /\ UNCHANGED chats
  /\ persist("user")
  /\ UNCHANGED <<app, turns, turn, disk, deleted, strays>>

(***************************************************************************)
(* send().  updateActive applies to whatever chat is open at that moment.  *)
(***************************************************************************)
AddMessage(m, role, part) ==
  [c \in Convs |-> IF c = active /\ c \in list THEN Append(m[c], Message(turns', role, part))
                   ELSE m[c]]

\* updateLastText(): the last message of the open chat, whoever wrote it.
UpdateLastText ==
  IF active \in list /\ ~Empty(active)
  THEN msgs' = [msgs EXCEPT ![active][Len(msgs[active])].of = turns,
                            ![active][Len(msgs[active])].part = "reply"]
  ELSE UNCHANGED msgs

\* prepareHistory() of the chat that is open when send() starts.
Older(c) == IF Len(msgs[c]) > Window + summary[c].count
            THEN Len(msgs[c]) - Window - summary[c].count ELSE 0
Recent(c) == IF Len(msgs[c]) > Window THEN Len(msgs[c]) - Window ELSE 0

Prepared(c, from, cut) ==
  turn' = [step |-> "privacy", conv |-> c, len |-> Len(msgs[c]), from |-> from,
           covers |-> summary[c].covers, cut |-> cut]

sendFits ==
  /\ Prepared(active, summary[active].count, FALSE)
  /\ msgs' = AddMessage(msgs, "user", "prompt")

\* Over budget, with nothing left to fold or no model to fold it with.
sendTruncates ==
  /\ Prepared(active, Recent(active), Older(active) > 0)
  /\ msgs' = AddMessage(msgs, "user", "prompt")

sendSummarizes ==
  /\ Older(active) > 0
  /\ turn' = [Idle EXCEPT !.step = "summary", !.conv = active, !.len = Len(msgs[active])]
  /\ UNCHANGED msgs

\* The button is enabled as soon as the screen is there, restored or not.
CanSend == ~Running /\ turns < MaxTurns /\ app # "down"

\* The estimate may or may not fit the budget: contexts and texts vary.
send ==
  /\ CanSend /\ active \in list
  /\ turns' = turns + 1
  /\ sendFits \/ sendTruncates \/ sendSummarizes
  /\ UNCHANGED <<app, list, active, summary, saves, disk, deleted, strays, unsaved>>

\* Nothing is restored yet: send() opens a chat of its own.
sendNew ==
  /\ CanSend /\ active \notin list
  /\ turns' = turns + 1
  /\ \E c \in Unused :
       /\ list' = {d \in list : ~Empty(d)} \cup {c} /\ active' = c
       /\ msgs' = [msgs EXCEPT ![c] = <<Message(turns', "user", "prompt")>>]
       /\ summary' = [summary EXCEPT ![c] = NoSummary]
       /\ turn' = [Idle EXCEPT !.step = "privacy", !.conv = c]
       /\ deleted' = deleted \ {c} /\ strays' = strays \ {c}
  /\ UNCHANGED <<app, saves, disk, unsaved>>

\* Mutation: the turns kept verbatim are counted as summarized.
FoldedAll(t) == [count |-> t.len, of |-> t.conv, covers |-> t.len - Window]

\* The summary that summarizeTurns() returned, and newCount.
Folded(t) == [count |-> t.len - Window, of |-> t.conv, covers |-> t.len - Window]

summarized ==
  /\ turn.step = "summary"
  /\ \/ /\ summary' = IF active \in list
                      THEN [summary EXCEPT ![active] = Folded(turn)] ELSE summary
        /\ turn' = [turn EXCEPT !.step = "privacy", !.from = turn.len - Window,
                                !.covers = turn.len - Window]
     \/ /\ turn' = [turn EXCEPT !.step = "privacy", !.from = turn.len - Window, !.cut = TRUE]
        /\ UNCHANGED summary
  /\ UNCHANGED turns
  /\ msgs' = AddMessage(msgs, "user", "prompt")
  /\ UNCHANGED <<app, list, active, saves, disk, deleted, strays, unsaved>>

\* Mutation: the empty reply is not seeded.
routedUnseeded ==
  /\ turn.step = "privacy"
  /\ turn' = [turn EXCEPT !.step = "stream"]
  /\ UNCHANGED <<app, chats, turns, saves, disk, deleted, strays, unsaved>>

\* The privacy state arrived and the router answered: the reply is seeded.
routed ==
  /\ turn.step = "privacy"
  /\ turn' = [turn EXCEPT !.step = "stream"]
  /\ UNCHANGED turns
  /\ msgs' = AddMessage(msgs, "oracle", "reply")
  /\ UNCHANGED <<app, list, active, summary, saves, disk, deleted, strays, unsaved>>

delta ==
  /\ turn.step = "stream"
  /\ UpdateLastText
  /\ UNCHANGED <<app, list, active, summary, turns, turn, saves, disk, deleted, strays,
                 unsaved>>

\* Mutation: the final text is shown and not persisted.
finalizeReplyUnsaved ==
  /\ turn.step = "stream"
  /\ UpdateLastText /\ turn' = Idle
  /\ UNCHANGED <<app, list, active, summary, turns, saves, disk, deleted, strays, unsaved>>

\* The stream completed, failed, or was stopped: the three end the same way.
finalizeReply ==
  /\ turn.step = "stream"
  /\ UpdateLastText /\ UNCHANGED <<list, active, summary>>
  /\ persist("turn")
  /\ turn' = IF app = "up" THEN [turn EXCEPT !.step = "saving"] ELSE Idle
  /\ UNCHANGED <<app, turns, disk, deleted, strays>>

\* Mutation: isGenerating is not reset when Stop arrives that early.
stopEarlyStuck ==
  /\ turn.step = "privacy"
  /\ turn' = [turn EXCEPT !.step = "saving"]
  /\ UNCHANGED <<app, chats, turns, saves, disk, deleted, strays, unsaved>>

\* Stop while the summary is made is taken for a failed summary: the turn goes
\* on to add the message and ends at the next suspension.
stopEarly ==
  /\ turn.step \in {"summary", "privacy"}
  /\ UNCHANGED turns
  /\ IF turn.step = "summary" THEN msgs' = AddMessage(msgs, "user", "prompt")
                              ELSE UNCHANGED msgs
  /\ turn' = Idle /\ unsaved' = TRUE
  /\ UNCHANGED <<app, list, active, summary, saves, disk, deleted, strays>>

(***************************************************************************)
(* The store, and the life of the process.                                 *)
(***************************************************************************)
\* Any save in flight may be the next to finish: they run on Dispatchers.IO.
SaveDone(i) ==
  /\ disk' = saves[i].what
  /\ saves' = [j \in 1..(Len(saves) - 1) |-> IF j < i THEN saves[j] ELSE saves[j + 1]]
  /\ turn' = IF saves[i].by = "turn" THEN Idle ELSE turn
  /\ UNCHANGED <<app, chats, turns, deleted, strays, unsaved>>

Launch ==
  /\ app = "down" /\ app' = "loading"
  /\ UNCHANGED <<chats, turns, turn, saves, disk, deleted, strays, unsaved>>

restore ==
  /\ app = "loading" /\ app' = "up"
  /\ \/ /\ disk.list = {}
        /\ \E c \in Unused : /\ list' = {c} /\ Opened(c, TRUE) /\ Blank(c)
                             /\ deleted' = deleted \ {c}
     \/ /\ disk.list # {}
        /\ list' = disk.list /\ \E c \in disk.list : Opened(c, FALSE)
        /\ msgs' = disk.msgs /\ summary' = disk.summary /\ UNCHANGED deleted
  /\ unsaved' = FALSE
  /\ UNCHANGED <<turns, turn, saves, disk>>

\* Killed, or a save threw in a coroutine that catches only cancellation.
Die ==
  /\ app # "down" /\ app' = "down"
  /\ list' = {} /\ active' = None
  /\ msgs' = NoHistory.msgs /\ summary' = NoHistory.summary
  /\ turn' = Idle /\ saves' = <<>>
  /\ UNCHANGED <<turns, disk, deleted, strays, unsaved>>

Next ==
  \/ Launch \/ restore \/ Die
  \/ newConversation
  \/ \E id \in list : selectConversation(id) \/ deleteConversation(id) \/ renameConversation(id)
  \/ send \/ sendNew \/ summarized \/ routed \/ delta \/ finalizeReply \/ stopEarly
  \/ \E i \in DOMAIN saves : SaveDone(i)

\* Replies end (LlamaRunLoop, or the read timeout of the cloud client) and the
\* IO dispatcher writes.
Fairness == /\ WF_vars(summarized) /\ WF_vars(routed) /\ WF_vars(finalizeReply)
            /\ WF_vars(saves # <<>> /\ SaveDone(1))

Spec == Init /\ [][Next]_vars /\ Fairness

(***************************************************************************)
(* Properties.                                                             *)
(***************************************************************************)
\* A text stands where it was written: no message shows the text of another
\* turn, and nothing is written over what the user wrote.
Intact(c) == \A i \in DOMAIN msgs[c] :
  LET m == msgs[c][i]
  IN  m.of = m.by /\ (m.role = "user" <=> m.part = "prompt")

\* A reply streams "into a single message that grows token-by-token" (send,
\* lines 132-134), wherever the user goes meanwhile.
SingleMessage == \A c \in list : Intact(c)

\* What does hold: in every conversation that stayed open for each of its turns.
OwnText == \A c \in list \ strays : Intact(c)

\* In those conversations a rolling summary is about the conversation it is
\* stored in and covers the messages it lets prepareHistory() leave out; unless the
\* code chose to truncate, the engine is given every prior message, verbatim or
\* through the summary.
FullContext ==
  /\ \A c \in list \ strays : /\ summary[c].of \in {None, c}
                              /\ summary[c].count <= summary[c].covers
                              /\ summary[c].count <= Len(msgs[c])
  /\ turn.step \in {"privacy", "stream", "saving"} /\ ~turn.cut /\ turn.conv \notin strays
       => turn.from <= turn.covers

\* "repeated taps never pile up more than one empty 'New chat'": the only draft
\* is the open chat, and the open chat is always in the list.
OneDraft == app = "up" => active \in list /\ \A c \in list : Empty(c) => c = active

\* With nothing in flight, what the user sees is what a restart shows: turns that
\* ended, deletes and renames alike.
Quiet == app = "up" /\ ~Running /\ saves = <<>>
AllStored == Quiet /\ ~unsaved => disk = HistoryOf(list, msgs, summary)

\* A save never drops a conversation that the user did not delete ("an early
\* persist would overwrite it with a partial in-memory list", persist, line 343),
\* unless it overlaps another one.
NoWipe == [][unsaved \/ disk.list \ disk'.list \subseteq deleted]_vars

\* The send button comes back.
TurnEventuallyEnds == Running ~> ~Running
==============================================================================

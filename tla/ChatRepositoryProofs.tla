-------------------------- MODULE ChatRepositoryProofs --------------------------
(***************************************************************************)
(* Theorems about the conversations, for any number of conversations and   *)
(* turns, and any window.                                                  *)
(***************************************************************************)
EXTENDS ChatRepository, SequenceTheorems, TLAPS

Texts == [Convs -> Seq(Messages)]
Notes == [Convs -> Summaries]

\* What persist() may have handed to the store.
Stores == {h \in Histories : \A c \in Convs :
             IF c \in h.list THEN h.msgs[c] # <<>>
                             ELSE h.msgs[c] = <<>> /\ h.summary[c] = NoSummary}
InFlight == [by : {"turn", "user"}, what : Stores]

\* The disk, and what it may become.
Snapshots == {disk} \cup {saves[i].what : i \in DOMAIN saves}

Held == {c \in list : ~Empty(c)}

(***************************************************************************)
(* Operators.                                                              *)
(***************************************************************************)
\* The values the code starts from.
LEMMA Constants ==
  /\ NoSummary \in Summaries /\ NoHistory.msgs \in Texts /\ NoHistory.summary \in Notes
  /\ NoHistory.list = {} /\ \A c \in Convs : NoHistory.msgs[c] = <<>>
  /\ \A n \in Turns : /\ Message(n, "user", "prompt") \in Messages
                      /\ Message(n, "oracle", "reply") \in Messages
  /\ 0 \in Turns
<1>1. NoSummary \in Summaries
  BY DEF NoSummary, Summaries
<1>2. <<>> \in Seq(Messages)
  BY EmptySeq
<1>3. /\ NoHistory.msgs = [c \in Convs |-> <<>>] /\ NoHistory.summary = [c \in Convs |-> NoSummary]
      /\ NoHistory.list = {}
  BY DEF NoHistory
<1>4. \A n \in Turns : /\ Message(n, "user", "prompt") \in Messages
                       /\ Message(n, "oracle", "reply") \in Messages
  BY DEF Message, Messages, Parts
<1>5. 0 \in Turns
  BY ChatAssumption DEF Turns
<1> QED  BY <1>1, <1>2, <1>3, <1>4, <1>5 DEF Texts, Notes

\* What persist() hands to the store.
LEMMA HistoryFacts ==
  ASSUME NEW l \in SUBSET Convs, NEW m \in Texts, NEW s \in Notes
  PROVE  /\ HistoryOf(l, m, s) \in Stores
         /\ HistoryOf(l, m, s).list = {c \in l : m[c] # <<>>}
         /\ \A c \in HistoryOf(l, m, s).list :
              HistoryOf(l, m, s).msgs[c] = m[c] /\ HistoryOf(l, m, s).summary[c] = s[c]
<1> DEFINE kept == {c \in l : m[c] # <<>>}
           hm == [c \in Convs |-> IF c \in kept THEN m[c] ELSE <<>>]
           hs == [c \in Convs |-> IF c \in kept THEN s[c] ELSE NoSummary]
           h == HistoryOf(l, m, s)
<1>1. h = [list |-> kept, msgs |-> hm, summary |-> hs]
  BY DEF HistoryOf
<1>2. hm \in Texts /\ hs \in Notes /\ kept \in SUBSET Convs
  BY Constants, EmptySeq DEF Texts, Notes
<1>3. h \in Histories
  BY <1>1, <1>2 DEF Histories, Texts, Notes
<1>4. h.list = kept /\ h.msgs = hm /\ h.summary = hs
  BY <1>1
<1>5. \A c \in Convs : IF c \in kept THEN hm[c] # <<>> /\ hm[c] = m[c] /\ hs[c] = s[c]
                                     ELSE hm[c] = <<>> /\ hs[c] = NoSummary
  OBVIOUS
<1> HIDE DEF h, hm, hs
<1>6. h \in Stores
  BY <1>3, <1>4, <1>5 DEF Stores
<1>7. h.list = {c \in l : m[c] # <<>>} /\ \A c \in h.list : h.msgs[c] = m[c] /\ h.summary[c] = s[c]
  BY <1>4, <1>5
<1> QED  BY <1>6, <1>7 DEF h

\* It depends on nothing but the chats that hold messages.
LEMMA SameHistory ==
  ASSUME NEW l, NEW m, NEW s, NEW k, NEW n, NEW t,
         {c \in l : m[c] # <<>>} = {c \in k : n[c] # <<>>},
         \A c \in {d \in l : m[d] # <<>>} : m[c] = n[c] /\ s[c] = t[c]
  PROVE  HistoryOf(l, m, s) = HistoryOf(k, n, t)
BY DEF HistoryOf

\* A snapshot restored and written again is the same.
LEMMA RestoredHistory ==
  ASSUME NEW h \in Stores
  PROVE  /\ h.list \in SUBSET Convs /\ h.msgs \in Texts /\ h.summary \in Notes
         /\ HistoryOf(h.list, h.msgs, h.summary) = h
<1>1. /\ h.list \in SUBSET Convs /\ h.msgs \in Texts /\ h.summary \in Notes
      /\ h = [list |-> h.list, msgs |-> h.msgs, summary |-> h.summary]
  BY DEF Stores, Histories, Texts, Notes
<1>2. {c \in h.list : h.msgs[c] # <<>>} = h.list
  BY <1>1 DEF Stores
<1>3. h.msgs = [c \in Convs |-> IF c \in h.list THEN h.msgs[c] ELSE <<>>]
  <2>1. \A c \in Convs : h.msgs[c] = IF c \in h.list THEN h.msgs[c] ELSE <<>>
    BY DEF Stores
  <2> QED  BY <1>1, <2>1 DEF Texts
<1>4. h.summary = [c \in Convs |-> IF c \in h.list THEN h.summary[c] ELSE NoSummary]
  <2>1. \A c \in Convs : h.summary[c] = IF c \in h.list THEN h.summary[c] ELSE NoSummary
    BY DEF Stores
  <2> QED  BY <1>1, <2>1 DEF Notes
<1> QED  BY <1>1, <1>2, <1>3, <1>4 DEF HistoryOf

\* addMessage() appends to the open chat.
LEMMA Added ==
  ASSUME msgs \in Texts, turns' \in Turns,
         NEW role \in {"user", "oracle"}, NEW part \in Parts
  PROVE  LET m == AddMessage(msgs, role, part)
         IN  /\ m \in Texts
             /\ \A c \in Convs : c # active \/ c \notin list => m[c] = msgs[c]
             /\ \A c \in Convs : Len(m[c]) >= Len(msgs[c])
             /\ \A c \in Convs : c = active /\ c \in list =>
                  /\ Len(m[c]) = Len(msgs[c]) + 1 /\ m[c] # <<>>
                  /\ \A i \in DOMAIN msgs[c] : m[c][i] = msgs[c][i]
                  /\ m[c][Len(m[c])] = Message(turns', role, part)
<1> DEFINE e == Message(turns', role, part)
           m == AddMessage(msgs, role, part)
<1>1. e \in Messages
  BY DEF Message, Messages
<1> HIDE DEF e
<1>2. m = [c \in Convs |-> IF c = active /\ c \in list THEN Append(msgs[c], e) ELSE msgs[c]]
  BY DEF AddMessage, e
<1> HIDE DEF m
<1>3. \A c \in Convs : /\ msgs[c] \in Seq(Messages) /\ Len(msgs[c]) \in Nat
                       /\ DOMAIN msgs[c] = 1..Len(msgs[c])
  BY LenProperties DEF Texts
<1>4. \A c \in Convs : /\ Append(msgs[c], e) \in Seq(Messages)
                       /\ Len(Append(msgs[c], e)) = Len(msgs[c]) + 1
                       /\ \A i \in 1..Len(msgs[c]) : Append(msgs[c], e)[i] = msgs[c][i]
                       /\ Append(msgs[c], e)[Len(msgs[c]) + 1] = e
                       /\ Append(msgs[c], e) # <<>>
  BY <1>1, <1>3, AppendProperties, EmptySeq
<1>5. m \in Texts
  BY <1>2, <1>3, <1>4 DEF Texts
<1>6. \A c \in Convs : c # active \/ c \notin list => m[c] = msgs[c]
  BY <1>2
<1>7. ASSUME NEW c \in Convs, c = active, c \in list
      PROVE  /\ Len(m[c]) = Len(msgs[c]) + 1 /\ m[c] # <<>>
             /\ \A i \in DOMAIN msgs[c] : m[c][i] = msgs[c][i]
             /\ m[c][Len(m[c])] = e
  <2>1. m[c] = Append(msgs[c], e)
    BY <1>2, <1>7
  <2> QED  BY <1>3, <1>4, <2>1
<1>8. \A c \in Convs : Len(m[c]) >= Len(msgs[c])
  BY <1>3, <1>6, <1>7
<1> QED  BY <1>5, <1>6, <1>7, <1>8 DEF m, e

\* updateLastText() changes the last message of the open chat, and no other.
LEMMA Updated ==
  ASSUME msgs \in Texts, turns \in Turns, list \in SUBSET Convs, UpdateLastText
  PROVE  /\ msgs' \in Texts
         /\ \A c \in Convs : c # active \/ c \notin list => msgs'[c] = msgs[c]
         /\ \A c \in Convs : /\ Len(msgs'[c]) = Len(msgs[c]) /\ DOMAIN msgs'[c] = DOMAIN msgs[c]
                             /\ msgs'[c] = <<>> <=> msgs[c] = <<>>
                             /\ \A i \in DOMAIN msgs[c] :
                                  i # Len(msgs[c]) => msgs'[c][i] = msgs[c][i]
         /\ active \in list /\ ~Empty(active) =>
              LET old == msgs[active][Len(msgs[active])]
                  new == msgs'[active][Len(msgs[active])]
              IN  new.by = old.by /\ new.role = old.role /\ new.of = turns /\ new.part = "reply"
<1>0. \A c \in Convs : /\ msgs[c] \in Seq(Messages) /\ Len(msgs[c]) \in Nat
                       /\ DOMAIN msgs[c] = 1..Len(msgs[c])
                       /\ msgs[c] = <<>> <=> Len(msgs[c]) = 0
  BY LenProperties, EmptySeq DEF Texts
<1>1. CASE active \in list /\ ~Empty(active)
  <2> DEFINE n == Len(msgs[active])  old == msgs[active][n]
             new == [[old EXCEPT !.of = turns] EXCEPT !.part = "reply"]
             t == [msgs[active] EXCEPT ![n] = new]
  <2>1. active \in Convs /\ n \in Nat \ {0} /\ n \in DOMAIN msgs[active]
    BY <1>0, <1>1 DEF Empty
  <2>2. old \in Messages
    BY <1>0, <2>1, ElementOfSeq
  <2>3. new \in Messages /\ new.by = old.by /\ new.role = old.role /\ new.of = turns
        /\ new.part = "reply"
    BY <2>2 DEF Messages, Parts
  <2>4. msgs' = [msgs EXCEPT ![active] = t]
    <3>1. msgs' = [msgs EXCEPT ![active][n].of = turns, ![active][n].part = "reply"]
      BY <1>1 DEF UpdateLastText
    <3> QED  BY <3>1, <2>1, <1>0 DEF Texts
  <2> HIDE DEF new, old
  <2>5. t \in Seq(Messages) /\ Len(t) = n /\ DOMAIN t = DOMAIN msgs[active]
    BY <1>0, <2>1, <2>3
  <2>6. t[n] = new /\ \A i \in DOMAIN msgs[active] : i # n => t[i] = msgs[active][i]
    BY <1>0, <2>1
  <2> HIDE DEF t
  <2>7. msgs' \in Texts /\ msgs'[active] = t /\ \A c \in Convs : c # active => msgs'[c] = msgs[c]
    BY <2>1, <2>4, <2>5 DEF Texts
  <2>8. t # <<>>
    BY <2>1, <2>5, EmptySeq
  <2> QED  BY <1>1, <2>3, <2>5, <2>6, <2>7, <2>8 DEF Empty, old
<1>2. CASE ~(active \in list /\ ~Empty(active))
  <2>1. msgs' = msgs
    BY <1>2 DEF UpdateLastText
  <2> QED  BY <1>2, <2>1
<1> QED  BY <1>1, <1>2

(***************************************************************************)
(* Types.                                                                  *)
(***************************************************************************)
SendTypes == [step : TurnSteps, conv : Convs \cup {None}, len : Nat, from : Nat,
              covers : Nat, cut : BOOLEAN]

\* The types, with the shape of what is stored, and a summary only of what goes beyond
\* the window.
Typed ==
  /\ app \in {"down", "loading", "up"}
  /\ list \in SUBSET Convs /\ active \in Convs \cup {None}
  /\ msgs \in Texts /\ summary \in Notes /\ turns \in Turns
  /\ turn \in SendTypes /\ (Running => turn.conv \in Convs)
  /\ (turn.step = "summary" => turn.len >= Window)
  /\ saves \in Seq(InFlight) /\ disk \in Stores
  /\ deleted \in SUBSET Convs /\ strays \in SUBSET Convs /\ unsaved \in BOOLEAN

\* What a save adds to those in flight.
LEMMA SaveFacts ==
  ASSUME saves \in Seq(InFlight), NEW by \in {"turn", "user"}, NEW what \in Stores,
         Save(by, what)
  PROVE  /\ saves' \in Seq(InFlight) /\ Len(saves') = Len(saves) + 1
         /\ \A i \in DOMAIN saves : saves'[i] = saves[i]
         /\ saves'[Len(saves')] = [by |-> by, what |-> what]
         /\ DOMAIN saves' = 1..Len(saves') /\ Len(saves) \in Nat /\ DOMAIN saves = 1..Len(saves)
         /\ unsaved' \in BOOLEAN /\ (~unsaved' <=> Len(saves) = 0)
<1> DEFINE e == [by |-> by, what |-> what]
<1>1. saves' = Append(saves, e) /\ unsaved' = (saves # <<>>)
  BY DEF Save
<1>2. e \in InFlight
  BY DEF InFlight
<1> HIDE DEF e
<1>3. /\ saves' \in Seq(InFlight) /\ Len(saves') = Len(saves) + 1
      /\ \A i \in 1..Len(saves) : saves'[i] = saves[i]
      /\ saves'[Len(saves) + 1] = e
  BY <1>1, <1>2, AppendProperties
<1>4. DOMAIN saves' = 1..Len(saves') /\ Len(saves) \in Nat /\ DOMAIN saves = 1..Len(saves)
  BY <1>3, LenProperties
<1>5. saves # <<>> <=> Len(saves) # 0
  BY EmptySeq
<1> QED  BY <1>1, <1>3, <1>4, <1>5 DEF e

\* What is left of them when one is done.
LEMMA DoneFacts ==
  ASSUME saves \in Seq(InFlight), NEW i \in DOMAIN saves, SaveDone(i)
  PROVE  /\ saves' \in Seq(InFlight) /\ Len(saves') = Len(saves) - 1
         /\ Len(saves) \in Nat /\ DOMAIN saves = 1..Len(saves) /\ i \in 1..Len(saves)
         /\ DOMAIN saves' = 1..Len(saves')
         /\ \A j \in DOMAIN saves' : \E k \in DOMAIN saves : saves'[j] = saves[k]
         /\ disk' = saves[i].what /\ saves[i] \in InFlight
<1>1. Len(saves) \in Nat /\ DOMAIN saves = 1..Len(saves)
  BY LenProperties
<1>2. \A k \in 1..Len(saves) : saves[k] \in InFlight
  BY ElementOfSeq
<1> DEFINE n == Len(saves) - 1
           q == [j \in 1..n |-> IF j < i THEN saves[j] ELSE saves[j + 1]]
<1>3. n \in Nat /\ \A j \in 1..n : j \in 1..Len(saves) /\ j + 1 \in 1..Len(saves)
  BY <1>1
<1>4. saves' = q
  BY DEF SaveDone
<1>5. q \in [1..n -> InFlight]
  BY <1>2, <1>3
<1>6. q \in Seq(InFlight) /\ Len(q) = n /\ DOMAIN q = 1..n
  BY <1>3, <1>5
<1>7. \A j \in 1..n : q[j] = saves[j] \/ q[j] = saves[j + 1]
  OBVIOUS
<1> HIDE DEF q
<1>8. \A j \in DOMAIN q : \E k \in DOMAIN saves : q[j] = saves[k]
  BY <1>1, <1>3, <1>6, <1>7
<1> QED  BY <1>1, <1>2, <1>4, <1>6, <1>8 DEF SaveDone

\* persist() saves when the history is restored, and does nothing before.
LEMMA Persisted ==
  ASSUME Typed, list' \in SUBSET Convs, msgs' \in Texts, summary' \in Notes,
         NEW by \in {"turn", "user"}, persist(by)
  PROVE  /\ app = "up" => /\ HistoryOf(list', msgs', summary') \in Stores
                          /\ Save(by, HistoryOf(list', msgs', summary'))
         /\ app # "up" => UNCHANGED <<saves, unsaved>>
         /\ saves' \in Seq(InFlight) /\ unsaved' \in BOOLEAN
<1>1. HistoryOf(list', msgs', summary') \in Stores
  BY HistoryFacts
<1> QED  BY <1>1, SaveFacts DEF persist, Typed

\* The snapshot that persist() takes lists the conversations that have a message.
LEMMA SavedList ==
  ASSUME list' \in SUBSET Convs, msgs' \in Texts, summary' \in Notes
  PROVE  HistoryOf(list', msgs', summary').list = {c \in list' : msgs'[c] # <<>>}
BY DEF HistoryOf

\* Blank(c) and Opened(c, fresh) keep the types.
LEMMA OpenTyped ==
  ASSUME Typed, NEW c \in Convs
  PROVE  /\ Blank(c) => /\ msgs' \in Texts /\ summary' \in Notes /\ msgs'[c] = <<>>
                        /\ summary'[c] = NoSummary
                        /\ \A d \in Convs : d # c => msgs'[d] = msgs[d] /\ summary'[d] = summary[d]
         /\ \A fresh \in BOOLEAN : Opened(c, fresh) => active' = c /\ strays' \in SUBSET Convs
<1>1. ASSUME Blank(c)
      PROVE  /\ msgs' \in Texts /\ summary' \in Notes /\ msgs'[c] = <<>>
             /\ summary'[c] = NoSummary
             /\ \A d \in Convs : d # c => msgs'[d] = msgs[d] /\ summary'[d] = summary[d]
  <2>1. <<>> \in Seq(Messages) /\ NoSummary \in Summaries
    BY EmptySeq, Constants
  <2>2. msgs' = [msgs EXCEPT ![c] = <<>>] /\ summary' = [summary EXCEPT ![c] = NoSummary]
    BY <1>1 DEF Blank
  <2>3. msgs \in [Convs -> Seq(Messages)] /\ summary \in [Convs -> Summaries]
    BY DEF Typed, Texts, Notes
  <2> QED  BY <2>1, <2>2, <2>3 DEF Texts, Notes
<1>2. \A fresh \in BOOLEAN : Opened(c, fresh) => active' = c /\ strays' \in SUBSET Convs
  BY DEF Typed, Opened
<1> QED  BY <1>1, <1>2

\* One turn is what its step says.
LEMMA TurnTyped ==
  ASSUME Typed
  PROVE  /\ Idle \in SendTypes /\ Idle.step = "idle"
         /\ \A s \in TurnSteps : [turn EXCEPT !.step = s] \in SendTypes
         /\ \A s \in TurnSteps : /\ [turn EXCEPT !.step = s].step = s
                                /\ [turn EXCEPT !.step = s].conv = turn.conv
BY ChatAssumption DEF Typed, SendTypes, Idle, TurnSteps

\* The requests that open a chat.
LEMMA OpensTyped ==
  ASSUME Typed, newConversation \/ restore \/ \E id \in list : selectConversation(id)
  PROVE  Typed'
<1> USE DEF chats
<1>1. CASE newConversation
  <2>1. PICK c \in Unused : /\ list' = {d \in list : ~Empty(d)} \cup {c}
                            /\ Opened(c, TRUE) /\ Blank(c) /\ deleted' = deleted \ {c}
    BY <1>1 DEF newConversation
  <2>2. c \in Convs
    BY DEF Unused
  <2>3. active' \in Convs /\ strays' \in SUBSET Convs /\ msgs' \in Texts /\ summary' \in Notes
    BY <2>1, <2>2, OpenTyped
  <2> QED  BY <1>1, <2>1, <2>2, <2>3 DEF newConversation, Typed, Running
<1>2. ASSUME NEW id \in list, selectConversation(id) PROVE Typed'
  <2>1. active' = id /\ strays' \in SUBSET Convs /\ list' \in SUBSET Convs /\ id \in Convs
    BY <1>2, OpenTyped DEF selectConversation, Typed
  <2> QED  BY <1>2, <2>1 DEF selectConversation, Typed, Running
<1>3. CASE restore
  <2>0. app' = "up" /\ unsaved' = FALSE /\ UNCHANGED <<turns, turn, saves, disk>>
    BY <1>3 DEF restore
  <2>1. CASE \E c \in Unused : list' = {c} /\ Opened(c, TRUE) /\ Blank(c) /\ deleted' = deleted \ {c}
    <3>1. PICK c \in Unused : list' = {c} /\ Opened(c, TRUE) /\ Blank(c) /\ deleted' = deleted \ {c}
      BY <2>1
    <3>2. c \in Convs
      BY DEF Unused
    <3>3. active' \in Convs /\ strays' \in SUBSET Convs /\ msgs' \in Texts /\ summary' \in Notes
      BY <3>1, <3>2, OpenTyped
    <3> QED  BY <2>0, <3>1, <3>2, <3>3 DEF Typed, Running
  <2>2. CASE /\ list' = disk.list /\ \E c \in disk.list : Opened(c, FALSE)
             /\ msgs' = disk.msgs /\ summary' = disk.summary /\ UNCHANGED deleted
    <3>1. list' \in SUBSET Convs /\ msgs' \in Texts /\ summary' \in Notes
      BY <2>2, RestoredHistory DEF Typed
    <3>2. active' \in Convs /\ strays' \in SUBSET Convs
      BY <2>2, <3>1, OpenTyped
    <3> QED  BY <2>0, <2>2, <3>1, <3>2 DEF Typed, Running
  <2> QED  BY <1>3, <2>1, <2>2 DEF restore
<1> QED  BY <1>1, <1>2, <1>3

\* Deletes and renames.
LEMMA EditsTyped ==
  ASSUME Typed, \E id \in list : deleteConversation(id) \/ renameConversation(id)
  PROVE  Typed'
<1> USE DEF chats
<1>1. PICK id \in list : deleteConversation(id) \/ renameConversation(id)
  OBVIOUS
<1>t. id \in Convs
  BY DEF Typed
<1>2. /\ list' \in SUBSET Convs /\ active' \in Convs \cup {None} /\ msgs' \in Texts
      /\ summary' \in Notes /\ deleted' \in SUBSET Convs /\ strays' \in SUBSET Convs
  <2>1. CASE renameConversation(id)
    BY <2>1 DEF renameConversation, Typed
  <2>2. CASE /\ list' = list \ {id} /\ UNCHANGED <<msgs, summary>>
             /\ IF id # active THEN UNCHANGED <<active, strays>>
                               ELSE \E c \in list \ {id} : Opened(c, FALSE)
             /\ deleted' = deleted \cup {id}
    <3>1. CASE id # active
      BY <1>t, <2>2, <3>1 DEF Typed
    <3>2. CASE id = active
      <4>1. PICK c \in list \ {id} : Opened(c, FALSE)
        BY <2>2, <3>2
      <4>2. c \in Convs
        BY DEF Typed
      <4>3. active' = c /\ strays' \in SUBSET Convs
        BY <4>1, <4>2, OpenTyped
      <4> QED  BY <1>t, <2>2, <4>2, <4>3 DEF Typed
    <3> QED  BY <3>1, <3>2
  <2>3. CASE \E c \in Unused : /\ list' = {c} /\ Opened(c, TRUE) /\ Blank(c)
                               /\ deleted' = (deleted \cup {id}) \ {c}
    <3>1. PICK c \in Unused : /\ list' = {c} /\ Opened(c, TRUE) /\ Blank(c)
                              /\ deleted' = (deleted \cup {id}) \ {c}
      BY <2>3
    <3>2. c \in Convs
      BY DEF Unused
    <3>3. active' \in Convs /\ strays' \in SUBSET Convs /\ msgs' \in Texts /\ summary' \in Notes
      BY <3>1, <3>2, OpenTyped
    <3> QED  BY <1>t, <3>1, <3>2, <3>3 DEF Typed
  <2> QED  BY <1>1, <2>1, <2>2, <2>3 DEF deleteConversation
<1>3. saves' \in Seq(InFlight) /\ unsaved' \in BOOLEAN
  BY <1>1, <1>2, Persisted DEF deleteConversation, renameConversation
<1> QED  BY <1>1, <1>2, <1>3 DEF deleteConversation, renameConversation, Typed, Running

\* What send() makes of the open chat's history.
LEMMA SendTyped ==
  ASSUME Typed, send \/ sendNew
  PROVE  Typed'
<1> USE DEF chats
<1>0. turns' \in Turns /\ turns' = turns + 1 /\ turns \in Nat
  <2>1. turns' = turns + 1 /\ turns < MaxTurns
    BY DEF send, sendNew, CanSend
  <2>2. turns \in 0..MaxTurns
    BY DEF Typed, Turns
  <2> QED  BY <2>1, <2>2, ChatAssumption DEF Turns
<1>1. CASE send
  <2>1. /\ active \in Convs /\ UNCHANGED <<app, list, active, summary, saves, disk, deleted, strays, unsaved>>
        /\ Len(msgs[active]) \in Nat /\ summary[active] \in Summaries
        /\ summary[active].count \in Nat /\ summary[active].covers \in Nat
    <3>1. active \in Convs
      BY <1>1 DEF send, Typed
    <3>2. summary[active] \in Summaries /\ Len(msgs[active]) \in Nat
      BY <3>1, LenProperties DEF Typed, Notes, Texts
    <3> QED  BY <1>1, <3>1, <3>2 DEF send, Summaries
  <2>2. AddMessage(msgs, "user", "prompt") \in Texts
    BY <1>0, Added DEF Typed, Parts
  <2>3. \A from \in Nat, cut \in BOOLEAN : Prepared(active, from, cut) =>
          turn' \in SendTypes /\ turn'.step = "privacy" /\ turn'.conv = active
    BY <2>1 DEF Prepared, SendTypes, TurnSteps
  <2>4. CASE sendFits
    BY <1>1, <1>0, <2>1, <2>2, <2>3, <2>4 DEF sendFits, Typed, Running
  <2>5. CASE sendTruncates
    <3>1. Recent(active) \in Nat /\ (Older(active) > 0) \in BOOLEAN
      BY <2>1, ChatAssumption DEF Recent
    <3> QED  BY <1>1, <1>0, <2>1, <2>2, <2>3, <2>5, <3>1 DEF sendTruncates, Typed, Running
  <2>6. CASE sendSummarizes
    <3>1. Len(msgs[active]) >= Window
      BY <2>1, <2>6, ChatAssumption DEF sendSummarizes, Older
    <3>2. turn' = [step |-> "summary", conv |-> active, len |-> Len(msgs[active]), from |-> 0,
                   covers |-> 0, cut |-> FALSE]
      BY <2>6 DEF sendSummarizes, Idle
    <3>3. turn' \in SendTypes /\ turn'.step = "summary" /\ turn'.conv = active
          /\ turn'.len = Len(msgs[active])
      BY <2>1, <3>2 DEF SendTypes, TurnSteps
    <3> QED  BY <1>0, <2>1, <2>6, <3>1, <3>3 DEF sendSummarizes, Typed, Running
  <2> QED  BY <1>1, <2>4, <2>5, <2>6 DEF send
<1>2. CASE sendNew
  <2>1. PICK c \in Unused :
          /\ list' = {d \in list : ~Empty(d)} \cup {c} /\ active' = c
          /\ msgs' = [msgs EXCEPT ![c] = <<Message(turns', "user", "prompt")>>]
          /\ summary' = [summary EXCEPT ![c] = NoSummary]
          /\ turn' = [Idle EXCEPT !.step = "privacy", !.conv = c]
          /\ deleted' = deleted \ {c} /\ strays' = strays \ {c}
    BY <1>2 DEF sendNew
  <2>2. c \in Convs /\ Message(turns', "user", "prompt") \in Messages /\ NoSummary \in Summaries
    BY <1>0, Constants DEF Unused
  <2>3. <<Message(turns', "user", "prompt")>> \in Seq(Messages)
    BY <2>2
  <2>4. msgs' \in Texts /\ summary' \in Notes
    BY <2>1, <2>2, <2>3 DEF Typed, Texts, Notes
  <2>5. turn' = [step |-> "privacy", conv |-> c, len |-> 0, from |-> 0, covers |-> 0, cut |-> FALSE]
    BY <2>1 DEF Idle
  <2>6. turn' \in SendTypes /\ turn'.step = "privacy" /\ turn'.conv = c
    BY <2>2, <2>5 DEF SendTypes, TurnSteps
  <2> QED  BY <1>0, <1>2, <2>1, <2>2, <2>4, <2>6 DEF sendNew, Typed, Running
<1> QED  BY <1>1, <1>2

\* The rest of the turn.
LEMMA TurnGoesOnTyped ==
  ASSUME Typed, summarized \/ routed \/ delta \/ finalizeReply \/ stopEarly
  PROVE  Typed'
<1> USE DEF chats
<1>t. turns \in Turns /\ msgs \in Texts /\ list \in SUBSET Convs /\ turns' = turns
  BY DEF Typed, summarized, routed, delta, finalizeReply, stopEarly
<1>a. \A r \in {"user", "oracle"}, p \in Parts : AddMessage(msgs, r, p) \in Texts
  BY <1>t, Added
<1>p. "prompt" \in Parts /\ "reply" \in Parts
  BY DEF Parts
<1>1. CASE summarized
  <2>1. /\ turn.len \in Nat /\ turn.len - Window \in Nat /\ turn.conv \in Convs
        /\ turn.step = "summary"
    BY <1>1, ChatAssumption DEF summarized, Typed, SendTypes, Running
  <2>2. Folded(turn) \in Summaries
    BY <2>1 DEF Folded, Summaries
  <2>3. summary' \in Notes
    BY <1>1, <2>2 DEF summarized, Typed, Notes
  <2>4. turn' \in SendTypes /\ turn'.step = "privacy" /\ turn'.conv = turn.conv
    BY <1>1, <2>1 DEF summarized, Typed, SendTypes, TurnSteps
  <2>5. msgs' \in Texts
    BY <1>1, <1>a, <1>p DEF summarized
  <2> QED  BY <1>1, <1>t, <2>1, <2>3, <2>4, <2>5 DEF summarized, Typed, Running
<1>2. CASE routed
  <2>1. turn' \in SendTypes /\ turn'.step = "stream" /\ turn'.conv = turn.conv
    BY <1>2, TurnTyped DEF routed, TurnSteps
  <2>2. msgs' \in Texts
    BY <1>2, <1>a, <1>p DEF routed
  <2> QED  BY <1>2, <1>t, <2>1, <2>2 DEF routed, Typed, Running
<1>3. CASE delta
  <2>1. msgs' \in Texts
    BY <1>3, <1>t, Updated DEF delta
  <2> QED  BY <1>3, <1>t, <2>1 DEF delta, Typed, Running
<1>4. CASE finalizeReply
  <2>1. msgs' \in Texts /\ list' \in SUBSET Convs /\ summary' \in Notes
    BY <1>4, <1>t, Updated DEF finalizeReply, Typed
  <2>2. saves' \in Seq(InFlight) /\ unsaved' \in BOOLEAN
    BY <1>4, <2>1, Persisted DEF finalizeReply
  <2>3. turn' \in SendTypes /\ turn'.step # "summary" /\ (turn'.step # "idle" => turn'.conv \in Convs)
    BY <1>4, TurnTyped DEF finalizeReply, TurnSteps, Typed, Running
  <2> QED  BY <1>4, <1>t, <2>1, <2>2, <2>3 DEF finalizeReply, Typed, Running
<1>5. CASE stopEarly
  <2>1. msgs' \in Texts
    BY <1>5, <1>t, <1>a, <1>p DEF stopEarly
  <2>2. turn' \in SendTypes /\ turn'.step = "idle"
    BY <1>5, TurnTyped DEF stopEarly
  <2> QED  BY <1>5, <1>t, <2>1, <2>2 DEF stopEarly, Typed, Running
<1> QED  BY <1>1, <1>2, <1>3, <1>4, <1>5

\* The start, and every step.
LEMMA TypeInit == Init => Typed
<1> SUFFICES ASSUME Init PROVE Typed
  OBVIOUS
<1>1. Earlier \in Stores
  <2> DEFINE first == <<Message(0, "user", "prompt"), Message(0, "oracle", "reply")>>
  <2>1. first \in Seq(Messages) /\ first # <<>>
    BY Constants
  <2> HIDE DEF first
  <2>2. /\ Earlier.list = Stored /\ Earlier.summary = [c \in Convs |-> NoSummary]
        /\ Earlier.msgs = [c \in Convs |-> IF c \in Stored THEN first ELSE <<>>]
        /\ Earlier = [list |-> Earlier.list, msgs |-> Earlier.msgs, summary |-> Earlier.summary]
    <3> DEFINE m == [c \in Convs |-> IF c \in Stored THEN first ELSE <<>>]
               none == [c \in Convs |-> <<>>]
               s == [c \in Convs |-> NoSummary]
    <3>1. Earlier = [NoHistory EXCEPT !.list = Stored, !.msgs = m]
      BY DEF Earlier, first
    <3>2. NoHistory = [list |-> {}, msgs |-> none, summary |-> s]
      BY DEF NoHistory
    <3> HIDE DEF m, none, s
    <3>3. Earlier = [list |-> Stored, msgs |-> m, summary |-> s]
      BY <3>1, <3>2
    <3> QED  BY <3>3 DEF m, s
  <2>3. Earlier \in Histories
    <3>1. Earlier.msgs \in Texts /\ Earlier.summary \in Notes
      BY <2>1, <2>2, Constants, EmptySeq DEF Texts, Notes
    <3> QED  BY <2>2, <3>1, ChatAssumption DEF Histories, Texts, Notes
  <2> QED  BY <2>1, <2>2, <2>3 DEF Stores
<1>2. Idle \in SendTypes /\ Idle.step = "idle"
  BY DEF SendTypes, Idle, TurnSteps
<1>3. saves \in Seq(InFlight)
  BY EmptySeq DEF Init
<1> QED  BY <1>1, <1>2, <1>3, Constants DEF Init, Typed, Running

\* Every step keeps the types.
LEMMA TypeStep == Typed /\ [Next]_vars => Typed'
<1> SUFFICES ASSUME Typed, [Next]_vars PROVE Typed'
  OBVIOUS
<1> USE DEF chats
<1>1. CASE Launch \/ UNCHANGED vars
  BY <1>1 DEF Launch, vars, Typed, Running
<1>2. CASE Die
  <2>1. /\ saves' \in Seq(InFlight) /\ msgs' \in Texts /\ summary' \in Notes /\ turn' \in SendTypes
        /\ turn'.step = "idle"
    BY <1>2, EmptySeq, Constants, TurnTyped DEF Die
  <2> QED  BY <1>2, <2>1 DEF Die, Typed, Running
<1>3. ASSUME NEW i \in DOMAIN saves, SaveDone(i) PROVE Typed'
  <2>1. saves' \in Seq(InFlight) /\ disk' \in Stores
    BY <1>3, DoneFacts DEF Typed, InFlight
  <2>2. turn' \in SendTypes /\ (turn' = turn \/ turn'.step = "idle")
    BY <1>3, TurnTyped DEF SaveDone, Typed
  <2> QED  BY <1>3, <2>1, <2>2 DEF SaveDone, Typed, Running
<1> QED  BY <1>1, <1>2, <1>3, OpensTyped, EditsTyped, SendTyped, TurnGoesOnTyped DEF Next

\* Every variable keeps its type, and no chat is stored without a message.
THEOREM RepositoryTypes == Spec => []TypeOK
<1>1. Typed => TypeOK
  <2> SUFFICES ASSUME Typed PROVE TypeOK
    OBVIOUS
  <2>1. saves \in Seq([by : {"turn", "user"}, what : Histories])
    <3>1. InFlight \subseteq [by : {"turn", "user"}, what : Histories]
      BY DEF InFlight, Stores
    <3> QED  BY <3>1, SeqMonotonic DEF Typed
  <2>2. disk \in Histories /\ \A c \in disk.list : disk.msgs[c] # <<>>
    BY RestoredHistory DEF Typed, Stores
  <2> QED  BY <2>1, <2>2 DEF Typed, TypeOK, Texts, Notes, Turns, SendTypes
<1> QED  BY <1>1, TypeInit, TypeStep, PTL DEF Spec

(***************************************************************************)
(* The open chat and the drafts.                                           *)
(***************************************************************************)
\* Nothing is saved before the history is restored, and what was opened meanwhile is
\* not on the disk; the open chat is in the list, and no other one is a draft.
Life ==
  /\ app = "down" => list = {} /\ ~Running
  /\ app # "up" => saves = <<>>
  /\ active \in list \cup {None}
  /\ app = "up" \/ Running => active \in list
  /\ app = "loading" => list \cap disk.list = {}
  /\ app = "up" => \A c \in list : Empty(c) => c = active

\* What each step adds to the snapshots, or takes from them.
LEMMA SnapshotSteps ==
  ASSUME Typed
  PROVE  /\ Snapshots \subseteq Stores
         /\ UNCHANGED <<saves, disk>> => Snapshots' = Snapshots
         /\ saves' = <<>> /\ UNCHANGED disk => Snapshots' = {disk}
         /\ \A by \in {"turn", "user"}, what \in Stores : Save(by, what) /\ UNCHANGED disk
              => Snapshots' = Snapshots \cup {what}
         /\ \A i \in DOMAIN saves : SaveDone(i) => Snapshots' \subseteq Snapshots
<1> USE DEF Snapshots
<1>q. saves \in Seq(InFlight) /\ disk \in Stores
  BY DEF Typed
<1>1. Snapshots \subseteq Stores
  <2>1. \A i \in DOMAIN saves : saves[i] \in InFlight
    BY <1>q, ElementOfSeq, LenProperties
  <2> QED  BY <1>q, <2>1 DEF InFlight
<1>2. saves' = <<>> /\ UNCHANGED disk => Snapshots' = {disk}
  <2>1. saves' = <<>> => DOMAIN saves' = {}
    OBVIOUS
  <2> QED  BY <2>1
<1>3. ASSUME NEW by \in {"turn", "user"}, NEW what \in Stores, Save(by, what), UNCHANGED disk
      PROVE  Snapshots' = Snapshots \cup {what}
  <2>1. /\ DOMAIN saves' = 1..Len(saves') /\ Len(saves') = Len(saves) + 1 /\ Len(saves) \in Nat
        /\ DOMAIN saves = 1..Len(saves) /\ \A i \in DOMAIN saves : saves'[i] = saves[i]
        /\ saves'[Len(saves')] = [by |-> by, what |-> what]
    BY <1>q, <1>3, SaveFacts, Zenon
  <2>2. DOMAIN saves' = DOMAIN saves \cup {Len(saves')}
    BY <2>1
  <2>3. saves'[Len(saves')].what = what
    BY <2>1
  <2> QED  BY <1>3, <2>1, <2>2, <2>3
<1>4. \A i \in DOMAIN saves : SaveDone(i) => Snapshots' \subseteq Snapshots
  BY <1>q, DoneFacts
<1>5. UNCHANGED <<saves, disk>> => Snapshots' = Snapshots
  OBVIOUS
<1> QED  BY <1>1, <1>2, <1>3, <1>4, <1>5

\* A new id is nowhere.
LEMMA UnusedFacts ==
  \A c \in Unused : /\ c \in Convs /\ c \notin list /\ c \notin disk.list /\ c # turn.conv
                    /\ \A h \in Snapshots : c \notin h.list
BY DEF Unused, Snapshots

\* Drafts are dropped whenever another chat is opened.
LEMMA LifeStep == Typed /\ Life /\ [Next]_vars => Life'
<1> SUFFICES ASSUME Typed, Life, [Next]_vars PROVE Life'
  OBVIOUS
<1> USE DEF chats, Running, Empty
<1>q. /\ list \in SUBSET Convs /\ None \notin Convs /\ turns \in Turns /\ msgs \in Texts
      /\ app \in {"down", "loading", "up"}
  BY ChatAssumption DEF Typed
<1>1. CASE newConversation
  <2>1. PICK c \in Unused : /\ list' = {d \in list : ~Empty(d)} \cup {c}
                            /\ Opened(c, TRUE) /\ Blank(c)
    BY <1>1 DEF newConversation
  <2>2. active' = c /\ c \in Convs /\ c \notin disk.list
        /\ msgs'[c] = <<>> /\ \A d \in Convs : d # c => msgs'[d] = msgs[d]
    BY <2>1, UnusedFacts, OpenTyped
  <2> QED  BY <1>1, <1>q, <2>1, <2>2 DEF newConversation, Life
<1>2. ASSUME NEW id \in list, selectConversation(id) PROVE Life'
  BY <1>2, <1>q DEF selectConversation, Opened, Life
<1>3. CASE restore
  <2>0. app' = "up" /\ app = "loading" /\ UNCHANGED <<turns, turn, saves, disk>>
    BY <1>3 DEF restore
  <2>1. CASE \E c \in Unused : list' = {c} /\ Opened(c, TRUE) /\ Blank(c)
    BY <2>0, <2>1 DEF Opened, Life
  <2>2. CASE /\ list' = disk.list /\ \E c \in disk.list : Opened(c, FALSE)
             /\ msgs' = disk.msgs
    <3>1. active' \in list' /\ \A c \in list' : msgs'[c] # <<>>
      BY <2>2, RestoredHistory DEF Opened, Typed, Stores
    <3> QED  BY <2>0, <3>1 DEF Life
  <2> QED  BY <1>3, <2>1, <2>2 DEF restore
<1>4. ASSUME NEW id \in list, deleteConversation(id) PROVE Life'
  <2>0. UNCHANGED <<app, turns, turn, disk>> /\ app # "down" /\ (app # "up" => UNCHANGED saves)
    BY <1>4 DEF deleteConversation, persist
  <2>1. CASE /\ list' = list \ {id} /\ UNCHANGED <<msgs, summary>>
             /\ IF id # active THEN UNCHANGED <<active, strays>>
                               ELSE \E c \in list \ {id} : Opened(c, FALSE)
    BY <1>q, <2>0, <2>1 DEF Opened, Life
  <2>2. CASE \E c \in Unused : list' = {c} /\ Opened(c, TRUE) /\ Blank(c)
    BY <2>0, <2>2, UnusedFacts DEF Opened, Life
  <2> QED  BY <1>4, <2>1, <2>2 DEF deleteConversation
<1>5. ASSUME NEW id \in list, renameConversation(id) PROVE Life'
  <2>1. UNCHANGED <<app, list, active, msgs, turn, disk>> /\ app = "up"
    BY <1>5 DEF renameConversation
  <2> QED  BY <2>1 DEF Life
<1>6. ASSUME UNCHANGED <<app, list, active, saves, disk>>, active \in list, app # "down",
             \A c \in list : msgs[c] # <<>> => msgs'[c] # <<>>
      PROVE  Life'
  BY <1>6 DEF Life
<1>7. ASSUME NEW role \in {"user", "oracle"}, NEW part \in Parts, turns' \in Turns,
             msgs' = AddMessage(msgs, role, part)
      PROVE  \A c \in list : msgs[c] # <<>> => msgs'[c] # <<>>
  BY <1>7, <1>q, Added
<1>p. "prompt" \in Parts /\ "reply" \in Parts
  BY DEF Parts
<1>8. CASE send
  <2>1. /\ UNCHANGED <<app, list, active, saves, disk>> /\ active \in list /\ app # "down"
        /\ turns' \in Turns
    BY <1>8, TypeStep DEF send, CanSend, Typed
  <2>2. msgs' = msgs \/ msgs' = AddMessage(msgs, "user", "prompt")
    BY <1>8 DEF send, sendFits, sendTruncates, sendSummarizes
  <2> QED  BY <1>6, <1>7, <1>p, <2>1, <2>2
<1>9. CASE sendNew
  <2>1. PICK c \in Unused : /\ list' = {d \in list : ~Empty(d)} \cup {c} /\ active' = c
    BY <1>9 DEF sendNew
  <2>2. app = "loading" /\ UNCHANGED <<app, saves, disk>>
    BY <1>9, <1>q DEF sendNew, CanSend, Life
  <2> QED  BY <1>q, <2>1, <2>2, UnusedFacts DEF Life
<1>10. CASE summarized \/ routed \/ stopEarly
  <2>1. /\ UNCHANGED <<app, list, active, saves, disk>> /\ active \in list /\ app # "down"
        /\ turns' \in Turns
    BY <1>10, <1>q DEF summarized, routed, stopEarly, Life
  <2>2. msgs' = msgs \/ msgs' = AddMessage(msgs, "user", "prompt")
        \/ msgs' = AddMessage(msgs, "oracle", "reply")
    BY <1>10 DEF summarized, routed, stopEarly
  <2> QED  BY <1>6, <1>7, <1>p, <2>1, <2>2
<1>11. CASE delta \/ finalizeReply
  <2>1. /\ UNCHANGED <<app, list, active, disk>> /\ active \in list /\ app # "down"
        /\ app # "up" => UNCHANGED saves
        /\ UpdateLastText
    BY <1>11, <1>q DEF delta, finalizeReply, persist, Life
  <2>2. \A c \in list : msgs[c] # <<>> => msgs'[c] # <<>>
    BY <1>q, <2>1, Updated
  <2> QED  BY <2>1, <2>2 DEF Life
<1>12. ASSUME NEW i \in DOMAIN saves, SaveDone(i) PROVE Life'
  <2>1. saves # <<>>
    OBVIOUS
  <2>2. app = "up" /\ UNCHANGED <<app, list, active, msgs>>
    BY <1>12, <2>1 DEF SaveDone, Life
  <2> QED  BY <2>2 DEF Life
<1>13. CASE Launch \/ UNCHANGED vars
  BY <1>13 DEF Launch, vars, Life
<1>14. CASE Die
  BY <1>14 DEF Die, Life, Idle
<1> QED  BY <1>1, <1>2, <1>3, <1>4, <1>5, <1>8, <1>9, <1>10, <1>11, <1>12, <1>13, <1>14 DEF Next

\* At the start nothing is open.
LEMMA LifeInit == Init => Life
BY DEF Init, Life, Running, Idle

\* Whatever is opened, deleted or sent, before the history is restored or after: there
\* is never more than one empty chat, and it is the open one, which is in the list.
THEOREM OnlyOneDraft == Spec => []OneDraft
<1>1. Life => OneDraft
  BY DEF Life, OneDraft
<1> QED  BY <1>1, TypeInit, TypeStep, LifeInit, LifeStep, PTL DEF Spec

(***************************************************************************)
(* What a save may drop.                                                   *)
(***************************************************************************)
\* What is stored, or will be, is in the list unless it was deleted; a save that did not
\* overlap another one is the only one, and holds all of what the disk held.
Kept ==
  /\ app = "up" => \A h \in Snapshots : h.list \ deleted \subseteq Held
  /\ ~unsaved =>
       /\ Len(saves) <= 1
       /\ \A i \in DOMAIN saves : /\ disk.list \ deleted \subseteq saves[i].what.list
                                  /\ saves[i].by = "turn" => turn.step = "saving"

\* Steps that save nothing and lose nothing.
LEMMA KeptStays ==
  ASSUME Typed, Kept, UNCHANGED <<saves, disk>>, unsaved' = unsaved \/ unsaved' = TRUE,
         app' = "up" => app = "up" /\ Held \subseteq Held',
         \A h \in Snapshots : h.list \ deleted' \subseteq h.list \ deleted,
         turn.step = "saving" => turn'.step = "saving"
  PROVE  Kept'
<1>1. Snapshots' = Snapshots /\ disk \in Snapshots
  BY SnapshotSteps DEF Snapshots
<1> QED  BY <1>1 DEF Kept

\* Steps that save what is left.
LEMMA KeptSaved ==
  ASSUME Typed, Typed', Life, Kept, UNCHANGED <<app, disk>>, NEW by \in {"turn", "user"}, persist(by),
         app = "up" => Held \ deleted' \subseteq Held',
         deleted \subseteq deleted' \/ \A h \in Snapshots : h.list \ deleted' \subseteq h.list \ deleted,
         app # "up" => UNCHANGED <<saves, unsaved>>,
         app = "up" /\ by = "turn" => turn'.step = "saving"
  PROVE  Kept'
<1>1. CASE app # "up"
  <2>1. saves = <<>> /\ saves' = <<>> /\ app' # "up"
    BY <1>1 DEF Life
  <2> QED  BY <2>1 DEF Kept
<1>2. CASE app = "up"
  <2> DEFINE what == HistoryOf(list', msgs', summary')
  <2>1. /\ what \in Stores /\ Save(by, what) /\ what.list = {c \in list' : msgs'[c] # <<>>}
    <3>1. list' \in SUBSET Convs /\ msgs' \in Texts /\ summary' \in Notes
      BY DEF Typed
    <3>2. what \in Stores /\ Save(by, what)
      BY <1>2, <3>1, Persisted, Zenon
    <3>3. what.list = {c \in list' : msgs'[c] # <<>>}
      BY <3>1, SavedList
    <3> HIDE DEF what
    <3> QED  BY <3>2, <3>3
  <2> HIDE DEF what
  <2>2. Snapshots' = Snapshots \cup {what} /\ disk \in Snapshots /\ disk \in Snapshots'
    BY <2>1, SnapshotSteps DEF Snapshots
  <2>3. \A h \in Snapshots : h.list \ deleted' \subseteq Held'
    <3>1. ASSUME NEW h \in Snapshots, NEW c \in h.list, c \notin deleted' PROVE c \in Held'
      <4>1. h.list \ deleted \subseteq Held
        BY <1>2 DEF Kept
      <4>2. c \notin deleted
        BY <3>1
      <4> QED  BY <1>2, <3>1, <4>1, <4>2
    <3> QED  BY <3>1
  <2>4. what.list = Held'
    BY <2>1 DEF Held, Empty
  <2>5. ASSUME ~unsaved'
        PROVE  /\ Len(saves') <= 1
               /\ \A i \in DOMAIN saves' : /\ disk'.list \ deleted' \subseteq saves'[i].what.list
                                           /\ saves'[i].by = "turn" => turn'.step = "saving"
    <3>1. /\ Len(saves') = 1 /\ DOMAIN saves' = 1..1 /\ saves'[1] = [by |-> by, what |-> what]
      <4>1. saves \in Seq(InFlight)
        BY DEF Typed
      <4>2. /\ Len(saves') = Len(saves) + 1 /\ saves'[Len(saves')] = [by |-> by, what |-> what]
            /\ DOMAIN saves' = 1..Len(saves') /\ ~unsaved' <=> Len(saves) = 0
        BY <2>1, <4>1, SaveFacts, Zenon
      <4> QED  BY <2>5, <4>2
    <3> QED  BY <1>2, <2>2, <2>3, <2>4, <3>1
  <2> QED  BY <1>2, <2>2, <2>3, <2>4, <2>5 DEF Kept
<1> QED  BY <1>1, <1>2

\* A chat that leaves the list is empty, deleted, or on the disk no more.
LEMMA KeptStep == Typed /\ Life /\ Kept /\ [Next]_vars => Kept'
<1> SUFFICES ASSUME Typed, Life, Kept, [Next]_vars PROVE Kept'
  OBVIOUS
<1> USE DEF chats, Running
<1>q. /\ list \in SUBSET Convs /\ None \notin Convs /\ turns \in Turns /\ msgs \in Texts
      /\ app \in {"down", "loading", "up"} /\ Typed'
  BY ChatAssumption, TypeStep DEF Typed
<1>u. \A c \in Unused : c \in Convs /\ c \notin list /\ \A h \in Snapshots : c \notin h.list
  BY UnusedFacts
<1>1. CASE newConversation
  <2>1. PICK c \in Unused : /\ list' = {d \in list : ~Empty(d)} \cup {c}
                            /\ Blank(c) /\ deleted' = deleted \ {c}
    BY <1>1 DEF newConversation
  <2>2. \A d \in Convs : d # c => msgs'[d] = msgs[d]
    BY <1>u, <2>1, OpenTyped
  <2>3. Held \subseteq Held'
    BY <1>q, <1>u, <2>1, <2>2 DEF Held, Empty
  <2> QED  BY <1>1, <1>u, <2>1, <2>3, KeptStays DEF newConversation
<1>2. ASSUME NEW id \in list, selectConversation(id) PROVE Kept'
  <2>1. Held \subseteq Held'
    BY <1>2 DEF selectConversation, Held, Empty
  <2> QED  BY <1>2, <2>1, KeptStays DEF selectConversation
<1>3. CASE restore
  <2>1. saves' = <<>> /\ disk' = disk /\ app' = "up"
    BY <1>3 DEF restore, Life
  <2>2. Snapshots' = {disk}
    BY <2>1, SnapshotSteps
  <2>3. disk.list \ deleted' \subseteq Held'
    <3>1. CASE disk.list = {}
      BY <3>1
    <3>2. CASE disk.list # {}
      <4>1. list' = disk.list /\ msgs' = disk.msgs
        BY <1>3, <3>2 DEF restore
      <4> QED  BY <4>1, RestoredHistory DEF Held, Empty, Typed, Stores
    <3> QED  BY <3>1, <3>2
  <2>4. Len(saves') = 0 /\ DOMAIN saves' = {}
    BY <2>1
  <2> QED  BY <2>1, <2>2, <2>3, <2>4 DEF Kept
<1>4. ASSUME NEW id \in list, deleteConversation(id) PROVE Kept'
  <2>0. UNCHANGED <<app, turns, turn, disk>> /\ persist("user") /\ (app # "up" => UNCHANGED <<saves, unsaved>>)
    BY <1>4 DEF deleteConversation, persist
  <2>1. CASE list' = list \ {id} /\ UNCHANGED <<msgs, summary>> /\ deleted' = deleted \cup {id}
    <3>1. Held \ deleted' \subseteq Held'
      BY <2>1 DEF Held, Empty
    <3> QED  BY <1>q, <2>0, <2>1, <3>1, KeptSaved
  <2>2. CASE list = {id} /\ \E c \in Unused : /\ list' = {c} /\ Opened(c, TRUE) /\ Blank(c)
                               /\ deleted' = (deleted \cup {id}) \ {c}
    <3>1. PICK c \in Unused : deleted' = (deleted \cup {id}) \ {c}
      BY <2>2
    <3>2. Held \ deleted' \subseteq Held'
      BY <1>u, <2>2, <3>1 DEF Held
    <3>3. \A h \in Snapshots : h.list \ deleted' \subseteq h.list \ deleted
      BY <1>u, <3>1
    <3> QED  BY <1>q, <2>0, <3>2, <3>3, KeptSaved
  <2> QED  BY <1>4, <2>1, <2>2 DEF deleteConversation
<1>5. ASSUME NEW id \in list, renameConversation(id) PROVE Kept'
  <2>1. UNCHANGED <<app, list, active, msgs, turn, disk, deleted>> /\ app = "up" /\ persist("user")
    BY <1>5 DEF renameConversation
  <2> QED  BY <1>q, <2>1, KeptSaved DEF Held, Empty
<1>7. ASSUME NEW role \in {"user", "oracle"}, NEW part \in Parts, turns' \in Turns,
             msgs' = AddMessage(msgs, role, part), UNCHANGED list
      PROVE  Held \subseteq Held'
  BY <1>7, <1>q, Added DEF Held, Empty
<1>p. "prompt" \in Parts /\ "reply" \in Parts
  BY DEF Parts
<1>8. CASE send
  <2>1. /\ UNCHANGED <<app, list, saves, disk, deleted, unsaved>> /\ turns' \in Turns
        /\ turn.step = "idle"
    BY <1>8, <1>q DEF send, CanSend, Typed
  <2>2. msgs' = msgs \/ msgs' = AddMessage(msgs, "user", "prompt")
    BY <1>8 DEF send, sendFits, sendTruncates, sendSummarizes
  <2>3. Held \subseteq Held'
    BY <1>7, <1>p, <2>1, <2>2 DEF Held, Empty
  <2> QED  BY <2>1, <2>3, KeptStays
<1>9. CASE sendNew
  <2>1. /\ app' # "up" /\ UNCHANGED <<saves, disk, unsaved>> /\ turn.step = "idle"
        /\ \E c \in Unused : deleted' = deleted \ {c}
    BY <1>9, <1>q DEF sendNew, CanSend, Life
  <2> QED  BY <1>u, <2>1, KeptStays
<1>10. CASE summarized \/ routed \/ stopEarly
  <2>1. /\ UNCHANGED <<app, list, saves, disk, deleted>> /\ turns' \in Turns
        /\ (unsaved' = unsaved \/ unsaved' = TRUE) /\ turn.step # "saving"
    BY <1>10, <1>q DEF summarized, routed, stopEarly
  <2>2. msgs' = msgs \/ msgs' = AddMessage(msgs, "user", "prompt")
        \/ msgs' = AddMessage(msgs, "oracle", "reply")
    BY <1>10 DEF summarized, routed, stopEarly
  <2>3. Held \subseteq Held'
    BY <1>7, <1>p, <2>1, <2>2 DEF Held, Empty
  <2> QED  BY <2>1, <2>3, KeptStays
<1>11. ASSUME UpdateLastText, UNCHANGED list PROVE Held \subseteq Held'
  BY <1>11, <1>q, Updated DEF Held, Empty
<1>12. CASE delta
  BY <1>11, <1>12, KeptStays DEF delta
<1>13. CASE finalizeReply
  <2>1. /\ UNCHANGED <<app, list, disk, deleted>> /\ UpdateLastText /\ persist("turn")
        /\ (app # "up" => UNCHANGED <<saves, unsaved>>)
    BY <1>13 DEF finalizeReply, persist
  <2>2. app = "up" => turn'.step = "saving"
    BY <1>13, TurnTyped DEF finalizeReply, TurnSteps
  <2> QED  BY <1>11, <1>q, <2>1, <2>2, KeptSaved
<1>14. ASSUME NEW i \in DOMAIN saves, SaveDone(i) PROVE Kept'
  <2>1. /\ UNCHANGED <<app, list, msgs, deleted, unsaved>> /\ Snapshots' \subseteq Snapshots
    BY <1>14, SnapshotSteps DEF SaveDone
  <2>2. /\ Len(saves') = Len(saves) - 1 /\ Len(saves) \in Nat /\ DOMAIN saves' = 1..Len(saves')
        /\ i \in 1..Len(saves)
    BY <1>14, DoneFacts DEF Typed
  <2>3. ~unsaved => Len(saves') = 0 /\ DOMAIN saves' = {}
    BY <2>2 DEF Kept
  <2> QED  BY <2>1, <2>3 DEF Kept, Held, Empty
<1>15. CASE Launch \/ UNCHANGED vars
  <2>1. UNCHANGED <<saves, disk, unsaved, deleted, turn>> /\ (app' = "up" => app = "up" /\ Held' = Held)
    BY <1>15 DEF Launch, vars, Held, Empty
  <2> QED  BY <2>1, KeptStays
<1>16. CASE Die
  <2>1. saves' = <<>> /\ app' = "down" /\ Len(<<>>) = 0 /\ DOMAIN <<>> = {}
    BY <1>16 DEF Die
  <2> QED  BY <2>1 DEF Kept
<1> QED  BY <1>1, <1>2, <1>3, <1>4, <1>5, <1>8, <1>9, <1>10, <1>12, <1>13, <1>14, <1>15, <1>16
         DEF Next

\* At the start nothing is in flight.
LEMMA KeptInit == Init => Kept
<1> SUFFICES ASSUME Init PROVE Kept
  OBVIOUS
<1>1. saves = <<>> /\ app = "down" /\ Len(<<>>) = 0 /\ DOMAIN <<>> = {}
  BY DEF Init
<1> QED  BY <1>1 DEF Kept

\* A save never drops a conversation that the user did not delete, unless it overlaps
\* another one.
THEOREM NothingWiped == Spec => NoWipe
<1>1. Typed /\ Kept /\ [Next]_vars => [unsaved \/ disk.list \ disk'.list \subseteq deleted]_vars
  <2> SUFFICES ASSUME Typed, Kept, Next, ~unsaved PROVE disk.list \ disk'.list \subseteq deleted
    OBVIOUS
  <2>1. CASE \E i \in DOMAIN saves : SaveDone(i)
    BY <2>1 DEF SaveDone, Kept
  <2>2. CASE UNCHANGED disk
    BY <2>2
  <2> QED  BY <2>1, <2>2 DEF Next, Launch, restore, Die, newConversation, selectConversation,
              deleteConversation, renameConversation, send, sendNew, summarized, routed, delta,
              finalizeReply, stopEarly
<1>2. Spec => [][unsaved \/ disk.list \ disk'.list \subseteq deleted]_vars
  BY <1>1, TypeInit, TypeStep, LifeInit, LifeStep, KeptInit, KeptStep, PTL DEF Spec
<1> QED  BY <1>2 DEF NoWipe

(***************************************************************************)
(* What is shown and what is stored.                                       *)
(***************************************************************************)
Current == HistoryOf(list, msgs, summary)

\* Unless a turn is being answered, a save in flight holds what the user sees; with none
\* in flight the disk does.
Shown ==
  app = "up" /\ ~unsaved =>
    /\ ~Running \/ turn.step = "saving" => \A i \in DOMAIN saves : saves[i].what = Current
    /\ saves = <<>> /\ ~Running => disk = Current

\* Opening a chat changes nothing that is stored: drafts do not count.
LEMMA OpeningKeepsCurrent ==
  ASSUME Typed, newConversation \/ \E id \in list : selectConversation(id)
  PROVE  Current' = Current
<1>q. list \in SUBSET Convs
  BY DEF Typed
<1>1. CASE newConversation
  <2>1. PICK c \in Unused : list' = {d \in list : ~Empty(d)} \cup {c} /\ Blank(c)
    BY <1>1 DEF newConversation
  <2>2. /\ c \in Convs /\ c \notin list /\ msgs'[c] = <<>>
        /\ \A d \in Convs : d # c => msgs'[d] = msgs[d] /\ summary'[d] = summary[d]
    BY <2>1, UnusedFacts, OpenTyped
  <2>3. {d \in list' : msgs'[d] # <<>>} = {d \in list : msgs[d] # <<>>}
    BY <1>q, <2>1, <2>2 DEF Empty
  <2>4. \A d \in {e \in list' : msgs'[e] # <<>>} : msgs'[d] = msgs[d] /\ summary'[d] = summary[d]
    BY <1>q, <2>2, <2>3
  <2> QED  BY <2>3, <2>4, SameHistory DEF Current
<1>2. ASSUME NEW id \in list, selectConversation(id) PROVE Current' = Current
  <2>1. UNCHANGED <<msgs, summary>> /\ {d \in list' : msgs[d] # <<>>} = {d \in list : msgs[d] # <<>>}
    BY <1>2 DEF selectConversation, Empty
  <2> QED  BY <2>1 DEF Current, HistoryOf
<1> QED  BY <1>1, <1>2

\* What is restored is what the disk holds.
LEMMA RestoringShowsDisk == Typed /\ restore => Current' = disk
<1> SUFFICES ASSUME Typed, restore PROVE Current' = disk
  OBVIOUS
<1>1. /\ disk.list \in SUBSET Convs /\ HistoryOf(disk.list, disk.msgs, disk.summary) = disk
      /\ \A c \in disk.list : disk.msgs[c] # <<>>
  BY RestoredHistory DEF Typed, Stores
<1>2. CASE disk.list = {} /\ \E c \in Unused : list' = {c} /\ Blank(c)
  <2>1. {d \in list' : msgs'[d] # <<>>} = {}
    BY <1>2, OpenTyped, UnusedFacts
  <2> QED  BY <1>1, <1>2, <2>1, SameHistory DEF Current
<1>3. CASE list' = disk.list /\ msgs' = disk.msgs /\ summary' = disk.summary
  BY <1>1, <1>3 DEF Current
<1> QED  BY <1>2, <1>3 DEF restore

\* A save started alone holds what the user sees.
LEMMA ShownSaved ==
  ASSUME Typed, Typed', NEW by \in {"turn", "user"}, persist(by), UNCHANGED <<app, disk>>
  PROVE  Shown'
<1> SUFFICES ASSUME app = "up", ~unsaved' PROVE saves' # <<>> /\ \A i \in DOMAIN saves' : saves'[i].what = Current'
  BY DEF Shown
<1>1. list' \in SUBSET Convs /\ msgs' \in Texts /\ summary' \in Notes /\ saves \in Seq(InFlight)
  BY DEF Typed
<1>2. Current' \in Stores /\ Save(by, Current')
  BY <1>1, Persisted, Zenon DEF Current
<1>3. /\ Len(saves') = Len(saves) + 1 /\ saves'[Len(saves')] = [by |-> by, what |-> Current']
      /\ DOMAIN saves' = 1..Len(saves') /\ ~unsaved' <=> Len(saves) = 0
  BY <1>1, <1>2, SaveFacts, Zenon
<1>4. Len(saves') = 1 /\ saves'[1].what = Current' /\ DOMAIN saves' = 1..1
  BY <1>3
<1> QED  BY <1>4

\* A turn begins with the summary, or without one.
LEMMA TurnBegins ==
  ASSUME send \/ sendNew
  PROVE  turn'.step \in {"summary", "privacy"}
<1>1. ASSUME NEW from, NEW cut, Prepared(active, from, cut) PROVE turn'.step = "privacy"
  BY <1>1 DEF Prepared
<1>2. ASSUME sendSummarizes PROVE turn'.step = "summary"
  BY <1>2 DEF sendSummarizes, Idle
<1>3. ASSUME sendNew PROVE turn'.step = "privacy"
  BY <1>3 DEF sendNew, Idle
<1>4. sendFits \/ sendTruncates => turn'.step = "privacy"
  BY <1>1 DEF sendFits, sendTruncates
<1> QED  BY <1>2, <1>3, <1>4 DEF send

\* Every change to what is shown is a turn, or is saved.
LEMMA ShownStep == Typed /\ Life /\ Kept /\ Shown /\ [Next]_vars => Shown'
<1> SUFFICES ASSUME Typed, Life, Kept, Shown, [Next]_vars PROVE Shown'
  OBVIOUS
<1> USE DEF chats
<1>q. Typed'
  BY TypeStep
<1>1. CASE newConversation \/ \E id \in list : selectConversation(id)
  <2>1. UNCHANGED <<app, turn, saves, disk, unsaved>>
    BY <1>1 DEF newConversation, selectConversation
  <2> QED  BY <1>1, <2>1, OpeningKeepsCurrent DEF Shown, Running
<1>2. CASE restore
  <2>1. saves' = <<>> /\ UNCHANGED disk /\ DOMAIN saves' = {}
    BY <1>2 DEF restore, Life
  <2> QED  BY <1>2, <2>1, RestoringShowsDisk DEF Shown
<1>3. ASSUME NEW id \in list, deleteConversation(id) \/ renameConversation(id) PROVE Shown'
  <2>1. persist("user") /\ UNCHANGED <<app, disk>>
    BY <1>3 DEF deleteConversation, renameConversation
  <2> QED  BY <1>q, <2>1, ShownSaved
<1>4. CASE send \/ sendNew \/ summarized \/ routed \/ delta
  <2>1. turn'.step \in {"summary", "privacy", "stream"}
    <3>1. CASE send \/ sendNew
      BY <3>1, TurnBegins
    <3>2. CASE summarized
      BY <3>2 DEF summarized, Typed, SendTypes
    <3>3. CASE routed \/ delta
      BY <3>3, TurnTyped DEF routed, delta, TurnSteps
    <3> QED  BY <1>4, <3>1, <3>2, <3>3
  <2> QED  BY <2>1 DEF Shown, Running
<1>5. CASE finalizeReply
  <2>1. persist("turn") /\ UNCHANGED <<app, disk>>
    BY <1>5 DEF finalizeReply
  <2> QED  BY <1>q, <2>1, ShownSaved
<1>6. CASE stopEarly
  BY <1>6 DEF stopEarly, Shown
<1>7. ASSUME NEW i \in DOMAIN saves, SaveDone(i) PROVE Shown'
  <2>1. UNCHANGED <<app, unsaved>> /\ Current' = Current
    BY <1>7 DEF SaveDone, Current
  <2>2. /\ Len(saves') = Len(saves) - 1 /\ Len(saves) \in Nat /\ i \in 1..Len(saves)
        /\ DOMAIN saves' = 1..Len(saves') /\ disk' = saves[i].what
    BY <1>7, DoneFacts DEF Typed
  <2>3. ASSUME app = "up", ~unsaved
        PROVE  DOMAIN saves' = {} /\ (turn'.step = "idle" => disk' = Current)
    <3>1. DOMAIN saves' = {}
      BY <2>2, <2>3 DEF Kept
    <3>2. ASSUME turn'.step = "idle" PROVE turn.step \in {"idle", "saving"}
      BY <1>7, <2>3, <3>2 DEF SaveDone, Kept
    <3> QED  BY <2>2, <2>3, <3>1, <3>2 DEF Shown, Running
  <2> QED  BY <2>1, <2>3 DEF Shown, Running
<1>8. CASE Launch \/ Die
  BY <1>8 DEF Launch, Die, Shown
<1>9. CASE UNCHANGED vars
  BY <1>9 DEF vars, Shown, Current, Running
<1> QED  BY <1>1, <1>2, <1>3, <1>4, <1>5, <1>6, <1>7, <1>8, <1>9 DEF Next

\* With nothing in flight, what the user sees is what a restart would show.
THEOREM EverythingStored == Spec => []AllStored
<1>1. Shown => AllStored
  BY DEF Shown, AllStored, Quiet, Current
<1>2. Init => Shown
  BY DEF Init, Shown
<1> QED  BY <1>1, <1>2, TypeInit, TypeStep, LifeInit, LifeStep, KeptInit, KeptStep, ShownStep, PTL DEF Spec

(***************************************************************************)
(* Whose text a chat shows, and what the engine is given.                  *)
(***************************************************************************)
\* A chat whose messages show their own texts, and whose summary is its own.
Fine(t) == \A i \in DOMAIN t : t[i].of = t[i].by /\ (t[i].role = "user" <=> t[i].part = "prompt")
Backed(c, t, s) == s.of \in {None, c} /\ s.count <= s.covers /\ s.count <= Len(t)
Sound(l, m, s, apart) == \A c \in l \ apart : Fine(m[c]) /\ Backed(c, m[c], s[c])

\* Chats are sound unless they are strays: those shown, and those stored.
Whole == /\ Sound(list, msgs, summary, strays)
         /\ \A h \in Snapshots : Sound(h.list, h.msgs, h.summary, strays)

\* The turn in progress: the open chat is the one that was asked unless it is a stray;
\* the message that streams is the turn's own; the summary is of what the chat holds.
Turned ==
  /\ Running => active \in strays \cup {turn.conv}
  /\ app = "loading" /\ Running => turn.conv \notin disk.list
  /\ turn.step = "stream" /\ active \notin strays =>
       /\ ~Empty(active)
       /\ LET m == msgs[active][Len(msgs[active])] IN m.by = turns /\ m.role = "oracle"
  /\ turn.step = "summary" /\ turn.conv \in list => turn.len <= Len(msgs[turn.conv])
  /\ turn.step \in {"privacy", "stream", "saving"} /\ ~turn.cut /\ turn.conv \notin strays
       => turn.from <= turn.covers

\* What is saved is as sound as what is shown.
LEMMA WholeStays ==
  ASSUME Typed', Whole, Sound(list', msgs', summary', strays'),
         Snapshots' \subseteq Snapshots \cup {Current'},
         \A h \in Snapshots : h.list \ strays' \subseteq h.list \ strays
  PROVE  Whole'
<1>1. \A h \in Snapshots : Sound(h.list, h.msgs, h.summary, strays')
  BY DEF Whole, Sound
<1>2. Sound(Current'.list, Current'.msgs, Current'.summary, strays')
  <2>1. list' \in SUBSET Convs /\ msgs' \in Texts /\ summary' \in Notes
    BY DEF Typed
  <2>2. /\ Current'.list \subseteq list'
        /\ \A c \in Current'.list : Current'.msgs[c] = msgs'[c] /\ Current'.summary[c] = summary'[c]
    BY <2>1, HistoryFacts DEF Current
  <2> QED  BY <2>2 DEF Sound
<1> QED  BY <1>1, <1>2 DEF Whole

\* A message that is added shows its own text.
LEMMA AddedSound ==
  ASSUME Typed, turns' \in Turns, NEW role \in {"user", "oracle"}, NEW part \in Parts,
         role = "user" <=> part = "prompt", msgs' = AddMessage(msgs, role, part),
         NEW c \in Convs, Fine(msgs[c])
  PROVE  Fine(msgs'[c]) /\ Len(msgs'[c]) >= Len(msgs[c]) /\ Len(msgs'[c]) \in Nat
<1>1. msgs \in Texts /\ msgs' \in Texts /\ Len(msgs'[c]) >= Len(msgs[c])
  BY Added DEF Typed
<1>2. /\ DOMAIN msgs[c] = 1..Len(msgs[c]) /\ DOMAIN msgs'[c] = 1..Len(msgs'[c])
      /\ Len(msgs[c]) \in Nat /\ Len(msgs'[c]) \in Nat
  BY <1>1, LenProperties DEF Texts
<1>3. CASE ~(c = active /\ c \in list)
  <2>1. msgs'[c] = msgs[c]
    BY <1>1, <1>3, Added
  <2> QED  BY <1>1, <1>2, <2>1
<1>4. CASE c = active /\ c \in list
  <2> DEFINE e == Message(turns', role, part)
  <2>1. /\ Len(msgs'[c]) = Len(msgs[c]) + 1
        /\ \A i \in DOMAIN msgs[c] : msgs'[c][i] = msgs[c][i]
        /\ msgs'[c][Len(msgs'[c])] = e
    BY <1>1, <1>4, Added
  <2>2. e.of = e.by /\ (e.role = "user" <=> e.part = "prompt")
    BY DEF Message
  <2> HIDE DEF e
  <2> QED  BY <1>1, <1>2, <2>1, <2>2 DEF Fine
<1> QED  BY <1>3, <1>4

\* So does the reply that streams, in a chat that is no stray.
LEMMA UpdatedSound ==
  ASSUME Typed, Turned, Life, turn.step = "stream", UpdateLastText,
         NEW c \in list \ strays, Fine(msgs[c])
  PROVE  Fine(msgs'[c]) /\ Len(msgs'[c]) = Len(msgs[c])
<1>q. msgs \in Texts /\ turns \in Turns /\ list \in SUBSET Convs /\ c \in Convs
  BY DEF Typed
<1>1. /\ c # active => msgs'[c] = msgs[c]
      /\ Len(msgs'[c]) = Len(msgs[c]) /\ DOMAIN msgs'[c] = DOMAIN msgs[c]
      /\ \A i \in DOMAIN msgs[c] : i # Len(msgs[c]) => msgs'[c][i] = msgs[c][i]
  BY <1>q, Updated
<1>2. CASE c # active
  BY <1>1, <1>2
<1>3. CASE c = active
  <2> DEFINE old == msgs[active][Len(msgs[active])]  new == msgs'[active][Len(msgs[active])]
  <2>1. ~Empty(active) /\ old.by = turns /\ old.role = "oracle"
    BY <1>3 DEF Turned
  <2>2. new.by = old.by /\ new.role = old.role /\ new.of = turns /\ new.part = "reply"
    BY <1>q, <1>3, <2>1, Updated
  <2>3. msgs'[c][Len(msgs[c])] = new
    BY <1>3
  <2> HIDE DEF old, new
  <2> QED  BY <1>1, <2>1, <2>2, <2>3 DEF Fine
<1> QED  BY <1>2, <1>3

\* A fresh chat is sound.
LEMMA BlankSound ==
  ASSUME NEW c \in Convs
  PROVE  Fine(<<>>) /\ Backed(c, <<>>, NoSummary)
BY DEF Fine, Backed, NoSummary

\* Which chats are apart when another one is opened.
LEMMA OpenedApart ==
  ASSUME Typed, Life, Turned, NEW c \in Convs, NEW fresh \in BOOLEAN, Opened(c, fresh),
         fresh => c \in Unused
  PROVE  /\ strays \ {c} \subseteq strays' /\ (~fresh => strays \subseteq strays')
         /\ \A h \in Snapshots : h.list \ strays' \subseteq h.list \ strays
         /\ Running => c \in strays' \/ (c = active /\ strays' = strays /\ ~fresh)
         /\ Running /\ turn.conv \notin strays' => turn.conv \notin strays
<1>1. strays' = (strays \ IF fresh THEN {c} ELSE {})
                  \cup IF Running /\ c # active THEN {c, turn.conv} ELSE {}
  BY DEF Opened
<1>2. fresh => c # turn.conv /\ c \notin list /\ \A h \in Snapshots : c \notin h.list
  BY UnusedFacts
<1>3. Running => active \in list
  BY DEF Life
<1> QED  BY <1>1, <1>2, <1>3

\* The turn goes on in its own chat, or the chat that is opened is a stray.
LEMMA OpenedTurned ==
  ASSUME Typed, Life, Turned, NEW c \in Convs, NEW fresh \in BOOLEAN, Opened(c, fresh),
         fresh => c \in Unused, UNCHANGED <<turns, turn, disk>>, app' = "loading" => app = "loading",
         Running /\ c = active /\ ~fresh => msgs'[c] = msgs[c],
         Running /\ turn.conv \in list' => turn.conv \in list /\ msgs'[turn.conv] = msgs[turn.conv]
  PROVE  Turned'
<1> USE DEF Running
<1>1. /\ active' = c
      /\ Running => c \in strays' \/ (c = active /\ strays' = strays /\ ~fresh)
      /\ Running /\ turn.conv \notin strays' => turn.conv \notin strays
  BY OpenedApart DEF Opened
<1>2. Running' => active' \in strays' \cup {turn'.conv}
  BY <1>1 DEF Turned
<1>3. app' = "loading" /\ Running' => turn'.conv \notin disk'.list
  BY DEF Turned
<1>4. ASSUME turn'.step = "stream", active' \notin strays'
      PROVE  /\ ~Empty(active)'
             /\ LET m == msgs'[active'][Len(msgs'[active'])] IN m.by = turns' /\ m.role = "oracle"
  <2>1. c = active /\ strays' = strays /\ msgs'[c] = msgs[c] /\ turn.step = "stream"
    BY <1>1, <1>4
  <2>2. active' = active /\ msgs'[active'] = msgs[active] /\ active \notin strays /\ turns' = turns
    BY <1>1, <1>4, <2>1
  <2> QED  BY <2>1, <2>2 DEF Turned, Empty
<1>5. turn'.step = "summary" /\ turn'.conv \in list' => turn'.len <= Len(msgs'[turn'.conv])
  BY DEF Turned
<1>6. turn'.step \in {"privacy", "stream", "saving"} /\ ~turn'.cut /\ turn'.conv \notin strays'
        => turn'.from <= turn'.covers
  BY <1>1 DEF Turned
<1> QED  BY <1>2, <1>3, <1>4, <1>5, <1>6 DEF Turned

\* What is not in use stays as it is.
LEMMA OpensSound ==
  ASSUME Typed, Life, Turned, Whole,
         newConversation \/ restore \/ \E id \in list : selectConversation(id)
  PROVE  Whole' /\ Turned'
<1> USE DEF chats
<1>q. /\ Typed' /\ list \in SUBSET Convs /\ msgs \in Texts /\ summary \in Notes
      /\ Sound(list, msgs, summary, strays)
  BY OpensTyped DEF Typed, Whole
<1>1. CASE newConversation
  <2>1. PICK c \in Unused : /\ list' = {d \in list : ~Empty(d)} \cup {c}
                            /\ Opened(c, TRUE) /\ Blank(c)
    BY <1>1 DEF newConversation
  <2>2. /\ c \in Convs /\ c # turn.conv /\ msgs'[c] = <<>> /\ summary'[c] = NoSummary
        /\ \A d \in Convs : d # c => msgs'[d] = msgs[d] /\ summary'[d] = summary[d]
    BY <2>1, UnusedFacts, OpenTyped
  <2>3. /\ UNCHANGED <<app, turns, turn, saves, disk>> /\ Snapshots' = Snapshots
        /\ strays \ {c} \subseteq strays' /\ \A h \in Snapshots : h.list \ strays' \subseteq h.list \ strays
    BY <1>1, <2>1, <2>2, SnapshotSteps, OpenedApart DEF newConversation
  <2>4. Sound(list', msgs', summary', strays')
    <3>1. ASSUME NEW d \in list' \ strays' PROVE Fine(msgs'[d]) /\ Backed(d, msgs'[d], summary'[d])
      <4>1. CASE d = c
        BY <2>2, <4>1, BlankSound
      <4>2. CASE d # c
        BY <1>q, <2>1, <2>2, <2>3, <3>1, <4>2 DEF Sound
      <4> QED  BY <4>1, <4>2
    <3> QED  BY <3>1 DEF Sound
  <2>5. Whole'
    BY <1>q, <2>3, <2>4, WholeStays
  <2>6. Running /\ turn.conv \in list' => turn.conv \in list /\ msgs'[turn.conv] = msgs[turn.conv]
    BY <1>q, <2>1, <2>2
  <2> QED  BY <2>1, <2>2, <2>3, <2>5, <2>6, OpenedTurned
<1>2. ASSUME NEW id \in list, selectConversation(id) PROVE Whole' /\ Turned'
  <2>1. /\ id \in Convs /\ list' \subseteq list /\ Opened(id, FALSE)
        /\ UNCHANGED <<app, msgs, summary, turns, turn, saves, disk>>
    BY <1>2, <1>q DEF selectConversation
  <2>2. /\ Snapshots' = Snapshots /\ strays \subseteq strays'
        /\ \A h \in Snapshots : h.list \ strays' \subseteq h.list \ strays
    BY <2>1, SnapshotSteps, OpenedApart
  <2>3. Sound(list', msgs', summary', strays')
    BY <1>q, <2>1, <2>2 DEF Sound
  <2> QED  BY <1>q, <2>1, <2>2, <2>3, WholeStays, OpenedTurned
<1>3. CASE restore
  <2>0. /\ app' = "up" /\ app = "loading" /\ UNCHANGED <<turns, turn, saves, disk>>
        /\ Snapshots' = Snapshots /\ disk \in Snapshots
        /\ Running => active \in list /\ turn.conv \notin disk.list
        /\ list \cap disk.list = {} /\ disk.list \in SUBSET Convs
    BY <1>3, SnapshotSteps, RestoredHistory DEF restore, Snapshots, Life, Turned, Typed
  <2>1. CASE \E c \in Unused : list' = {c} /\ Opened(c, TRUE) /\ Blank(c)
    <3>1. PICK c \in Unused : list' = {c} /\ Opened(c, TRUE) /\ Blank(c)
      BY <2>1
    <3>2. c \in Convs /\ c # turn.conv /\ msgs'[c] = <<>> /\ summary'[c] = NoSummary
      BY <3>1, UnusedFacts, OpenTyped
    <3>3. \A h \in Snapshots : h.list \ strays' \subseteq h.list \ strays
      BY <3>1, <3>2, OpenedApart
    <3>4. Sound(list', msgs', summary', strays')
      BY <3>1, <3>2, BlankSound DEF Sound
    <3> QED  BY <1>q, <2>0, <3>1, <3>2, <3>3, <3>4, WholeStays, OpenedTurned
  <2>2. CASE /\ list' = disk.list /\ \E c \in disk.list : Opened(c, FALSE)
             /\ msgs' = disk.msgs /\ summary' = disk.summary
    <3>1. PICK c \in disk.list : Opened(c, FALSE)
      BY <2>2
    <3>2. c \in Convs /\ (Running => c # active)
      BY <2>0, <3>1
    <3>3. strays \subseteq strays' /\ \A h \in Snapshots : h.list \ strays' \subseteq h.list \ strays
      BY <3>1, <3>2, OpenedApart
    <3>4. Sound(list', msgs', summary', strays')
      BY <2>0, <2>2, <3>3 DEF Whole, Sound
    <3> QED  BY <1>q, <2>0, <2>2, <3>1, <3>2, <3>3, <3>4, WholeStays, OpenedTurned
  <2> QED  BY <1>3, <2>1, <2>2 DEF restore
<1> QED  BY <1>1, <1>2, <1>3

\* What persist() adds to the snapshots.
LEMMA PersistedSnapshots ==
  ASSUME Typed, Typed', NEW by \in {"turn", "user"}, persist(by), UNCHANGED disk
  PROVE  Snapshots' \subseteq Snapshots \cup {Current'}
<1>1. list' \in SUBSET Convs /\ msgs' \in Texts /\ summary' \in Notes
  BY DEF Typed
<1>2. CASE app = "up"
  <2>1. Current' \in Stores /\ Save(by, Current')
    BY <1>1, <1>2, Persisted, Zenon DEF Current
  <2> QED  BY <2>1, SnapshotSteps
<1>3. CASE app # "up"
  BY <1>3, SnapshotSteps DEF persist
<1> QED  BY <1>2, <1>3

\* Deletes and renames.
LEMMA EditsSound ==
  ASSUME Typed, Life, Turned, Whole,
         \E id \in list : deleteConversation(id) \/ renameConversation(id)
  PROVE  Whole' /\ Turned'
<1> USE DEF chats
<1>q. /\ Typed' /\ list \in SUBSET Convs /\ msgs \in Texts /\ summary \in Notes
      /\ Sound(list, msgs, summary, strays)
  BY EditsTyped DEF Typed, Whole
<1>1. PICK id \in list : deleteConversation(id) \/ renameConversation(id)
  OBVIOUS
<1>2. /\ UNCHANGED <<app, turns, turn, disk>> /\ persist("user")
      /\ Snapshots' \subseteq Snapshots \cup {Current'}
  <2>1. UNCHANGED <<app, turns, turn, disk>> /\ persist("user")
    BY <1>1 DEF deleteConversation, renameConversation
  <2> QED  BY <1>q, <2>1, PersistedSnapshots
<1>3. CASE UNCHANGED <<active, strays, msgs, summary>> /\ list' \subseteq list
  <2>1. Sound(list', msgs', summary', strays')
    BY <1>q, <1>3 DEF Sound
  <2>2. Turned'
    BY <1>2, <1>3 DEF Turned, Running, Empty
  <2> QED  BY <1>q, <1>2, <1>3, <2>1, <2>2, WholeStays
<1>4. CASE /\ list' = list \ {id} /\ UNCHANGED <<msgs, summary>> /\ id = active
           /\ \E c \in list \ {id} : Opened(c, FALSE)
  <2>1. PICK c \in list \ {id} : Opened(c, FALSE)
    BY <1>4
  <2>2. c \in Convs /\ c # active
    BY <1>q, <1>4, <2>1
  <2>3. strays \subseteq strays' /\ \A h \in Snapshots : h.list \ strays' \subseteq h.list \ strays
    BY <2>1, <2>2, OpenedApart
  <2>4. Sound(list', msgs', summary', strays')
    BY <1>q, <1>4, <2>3 DEF Sound
  <2> QED  BY <1>q, <1>2, <1>4, <2>1, <2>2, <2>3, <2>4, WholeStays, OpenedTurned
<1>5. CASE \E c \in Unused : list' = {c} /\ Opened(c, TRUE) /\ Blank(c)
  <2>1. PICK c \in Unused : list' = {c} /\ Opened(c, TRUE) /\ Blank(c)
    BY <1>5
  <2>2. c \in Convs /\ c # turn.conv /\ msgs'[c] = <<>> /\ summary'[c] = NoSummary
    BY <2>1, UnusedFacts, OpenTyped
  <2>3. \A h \in Snapshots : h.list \ strays' \subseteq h.list \ strays
    BY <2>1, <2>2, OpenedApart
  <2>4. Sound(list', msgs', summary', strays')
    BY <2>1, <2>2, BlankSound DEF Sound
  <2> QED  BY <1>q, <1>2, <2>1, <2>2, <2>3, <2>4, WholeStays, OpenedTurned
<1> QED  BY <1>1, <1>3, <1>4, <1>5 DEF deleteConversation, renameConversation

\* A message of the turn, and a summary of the chat it is stored in, keep chats sound.
LEMMA AddedKeepsSound ==
  ASSUME Typed, Typed', Whole, NEW role \in {"user", "oracle"}, NEW part \in Parts,
         role = "user" <=> part = "prompt",
         msgs' = msgs \/ msgs' = AddMessage(msgs, role, part),
         UNCHANGED <<list, strays, saves, disk>>,
         \A c \in list \ strays : \/ summary'[c] = summary[c]
                                  \/ Backed(c, msgs[c], summary'[c])
  PROVE  Whole'
<1>1. Snapshots' = Snapshots
  BY SnapshotSteps
<1>2. ASSUME NEW c \in list \ strays PROVE Fine(msgs'[c]) /\ Backed(c, msgs'[c], summary'[c])
  <2>1. c \in Convs /\ turns' \in Turns /\ msgs \in Texts /\ summary'[c] \in Summaries
    BY DEF Typed, Notes
  <2>2. Fine(msgs[c]) /\ Backed(c, msgs[c], summary'[c])
    BY <1>2 DEF Whole, Sound
  <2>3. Len(msgs[c]) \in Nat /\ summary'[c].count \in Nat
    BY <2>1, LenProperties DEF Texts, Summaries
  <2>4. CASE msgs' = msgs
    BY <2>2, <2>4
  <2>5. CASE msgs' = AddMessage(msgs, role, part)
    <3>1. Fine(msgs'[c]) /\ Len(msgs'[c]) >= Len(msgs[c]) /\ Len(msgs'[c]) \in Nat
      BY <2>1, <2>2, <2>5, AddedSound
    <3> QED  BY <2>2, <2>3, <3>1 DEF Backed
  <2> QED  BY <2>4, <2>5
<1>3. Sound(list', msgs', summary', strays')
  BY <1>2 DEF Sound
<1> QED  BY <1>1, <1>3, WholeStays

\* The engine is given the whole chat, or the code chose to truncate.
LEMMA SendSound ==
  ASSUME Typed, Life, Turned, Whole, send \/ sendNew
  PROVE  Whole' /\ Turned'
<1>q. /\ Typed' /\ list \in SUBSET Convs /\ msgs \in Texts /\ summary \in Notes
      /\ Sound(list, msgs, summary, strays) /\ disk.list \in SUBSET Convs
  BY SendTyped, RestoredHistory DEF Typed, Whole
<1>1. CASE send
  <2>1. /\ UNCHANGED <<app, list, active, summary, saves, disk, strays>> /\ active \in list
        /\ active \in Convs
    BY <1>1, <1>q DEF send
  <2>2. msgs' = msgs \/ msgs' = AddMessage(msgs, "user", "prompt")
    BY <1>1 DEF send, sendFits, sendTruncates, sendSummarizes
  <2>3. Whole'
    BY <1>q, <2>1, <2>2, AddedKeepsSound DEF Parts
  <2>4. /\ Len(msgs[active]) \in Nat /\ summary[active].count \in Nat
        /\ summary[active].covers \in Nat
    <3>1. summary[active] \in Summaries
      BY <1>q, <2>1 DEF Notes
    <3> QED  BY <1>q, <2>1, <3>1, LenProperties DEF Texts, Summaries
  <2>5. active \notin strays => summary[active].count <= summary[active].covers
    BY <1>q, <2>1 DEF Sound, Backed
  <2>6. app' = "loading" => active \notin disk'.list
    BY <2>1 DEF Life
  <2>7. ASSUME NEW from, NEW cut, Prepared(active, from, cut),
               ~cut /\ active \notin strays => from <= summary[active].covers
        PROVE  Turned'
    <3>1. turn'.step = "privacy" /\ turn'.conv = active /\ turn'.from = from /\ turn'.cut = cut
          /\ turn'.covers = summary[active].covers
      BY <2>7 DEF Prepared
    <3> QED  BY <2>1, <2>6, <2>7, <3>1 DEF Turned
  <2>8. CASE sendFits
    BY <2>3, <2>5, <2>7, <2>8 DEF sendFits
  <2>9. CASE sendTruncates
    <3>1. Older(active) = 0 => Recent(active) <= summary[active].count
      BY <2>4, ChatAssumption DEF Older, Recent
    <3>2. Older(active) \in Nat /\ Recent(active) \in Nat
      BY <2>4, ChatAssumption DEF Older, Recent
    <3>3. ~(Older(active) > 0) /\ active \notin strays => Recent(active) <= summary[active].covers
      BY <2>4, <2>5, <3>1, <3>2
    <3> QED  BY <2>3, <2>7, <2>9, <3>3 DEF sendTruncates
  <2>10. CASE sendSummarizes
    <3>1. /\ turn'.step = "summary" /\ turn'.conv = active /\ turn'.len = Len(msgs[active])
          /\ msgs' = msgs
      BY <2>10 DEF sendSummarizes, Idle
    <3>2. Turned'
      BY <2>1, <2>4, <2>6, <3>1 DEF Turned
    <3> QED  BY <2>3, <3>2
  <2> QED  BY <1>1, <2>8, <2>9, <2>10 DEF send
<1>2. CASE sendNew
  <2>1. PICK c \in Unused :
          /\ list' = {d \in list : ~Empty(d)} \cup {c} /\ active' = c
          /\ msgs' = [msgs EXCEPT ![c] = <<Message(turns', "user", "prompt")>>]
          /\ summary' = [summary EXCEPT ![c] = NoSummary]
          /\ turn' = [Idle EXCEPT !.step = "privacy", !.conv = c]
          /\ strays' = strays \ {c}
    BY <1>2 DEF sendNew
  <2>2. c \in Convs /\ c \notin disk.list /\ \A h \in Snapshots : c \notin h.list
    BY UnusedFacts
  <2>3. Snapshots' = Snapshots /\ UNCHANGED <<saves, disk>>
    BY <1>2, SnapshotSteps DEF sendNew
  <2>4. /\ msgs'[c] = <<Message(turns', "user", "prompt")>> /\ summary'[c] = NoSummary
        /\ \A d \in Convs : d # c => msgs'[d] = msgs[d] /\ summary'[d] = summary[d]
    BY <1>q, <2>1, <2>2 DEF Texts, Notes
  <2>5. Fine(msgs'[c]) /\ Backed(c, msgs'[c], NoSummary)
    <3> DEFINE e == Message(turns', "user", "prompt")
    <3>1. e.of = e.by /\ e.role = "user" /\ e.part = "prompt"
      BY DEF Message
    <3>2. msgs'[c] = <<e>>
      BY <2>4
    <3> HIDE DEF e
    <3> QED  BY <3>1, <3>2 DEF Fine, Backed, NoSummary
  <2>6. Sound(list', msgs', summary', strays')
    BY <1>q, <2>1, <2>4, <2>5 DEF Sound
  <2>7. Whole'
    BY <1>q, <2>1, <2>2, <2>3, <2>6, WholeStays
  <2>8. turn'.step = "privacy" /\ turn'.conv = c /\ turn'.from = 0 /\ turn'.covers = 0
    BY <2>1 DEF Idle
  <2>9. Turned'
    BY <2>1, <2>2, <2>3, <2>8 DEF Turned
  <2> QED  BY <2>7, <2>9
<1> QED  BY <1>1, <1>2

\* The rest of the turn writes its own text, to its own chat or to a stray.
LEMMA TurnGoesOnSound ==
  ASSUME Typed, Life, Turned, Whole, summarized \/ routed \/ delta \/ finalizeReply \/ stopEarly
  PROVE  Whole' /\ Turned'
<1> USE DEF chats
<1>q. /\ Typed' /\ list \in SUBSET Convs /\ msgs \in Texts /\ summary \in Notes
      /\ Sound(list, msgs, summary, strays) /\ turns \in Turns
      /\ Parts = {"prompt", "reply"}
  BY TurnGoesOnTyped DEF Typed, Whole, Parts
<1>r. Running /\ active \in list /\ active \in Convs /\ UNCHANGED <<app, list, active, strays, turns, disk>>
  BY <1>q DEF summarized, routed, delta, finalizeReply, stopEarly, Running, Life
<1>t. turn' \in SendTypes
  BY <1>q DEF Typed
<1>1. CASE summarized
  <2>1. /\ turn.len \in Nat /\ turn.len - Window \in Nat /\ turn.conv \in Convs
        /\ turn.step = "summary" /\ turn.len - Window <= turn.len
    BY <1>1, ChatAssumption DEF summarized, Typed, SendTypes, Running
  <2>2. /\ turn'.step = "privacy" /\ turn'.conv = turn.conv
        /\ (turn'.cut \/ turn'.from = turn'.covers) /\ turn'.from = turn.len - Window
    BY <1>1 DEF summarized, Typed, SendTypes
  <2>3. ASSUME NEW c \in list \ strays, summary'[c] # summary[c]
        PROVE  Backed(c, msgs[c], summary'[c])
    <3>1. c = active /\ summary'[c] = Folded(turn) /\ c \in Convs
      BY <1>1, <1>q, <1>r, <2>3 DEF summarized, Notes
    <3>2. turn.conv = c
      BY <2>3, <3>1, <1>r DEF Turned
    <3>3. turn.len <= Len(msgs[c]) /\ Len(msgs[c]) \in Nat
      BY <1>q, <2>1, <2>3, <3>1, <3>2, LenProperties DEF Turned, Texts
    <3> QED  BY <2>1, <3>1, <3>2, <3>3 DEF Folded, Backed
  <2>4. UNCHANGED saves /\ msgs' = AddMessage(msgs, "user", "prompt")
    BY <1>1 DEF summarized
  <2>5. Whole'
    BY <1>q, <1>r, <2>3, <2>4, AddedKeepsSound
  <2>6. Turned'
    BY <1>r, <2>1, <2>2 DEF Turned, Running
  <2> QED  BY <2>5, <2>6
<1>2. CASE routed
  <2>1. /\ turn'.step = "stream" /\ turn' = [turn EXCEPT !.step = "stream"]
        /\ turn'.conv = turn.conv /\ turn.step = "privacy"
        /\ turn'.cut = turn.cut /\ turn'.from = turn.from /\ turn'.covers = turn.covers
    BY <1>2, TurnTyped DEF routed, TurnSteps, Typed, SendTypes
  <2>2. UNCHANGED <<summary, saves>> /\ msgs' = AddMessage(msgs, "oracle", "reply")
    BY <1>2 DEF routed
  <2>3. Whole'
    BY <1>q, <1>r, <2>2, AddedKeepsSound
  <2>4. LET m == msgs'[active][Len(msgs'[active])]
        IN  ~Empty(active)' /\ m.by = turns' /\ m.role = "oracle"
    <3>1. msgs'[active] # <<>> /\ msgs'[active][Len(msgs'[active])] = Message(turns', "oracle", "reply")
      BY <1>q, <1>r, <2>2, Added
    <3> QED  BY <1>r, <3>1 DEF Message, Empty
  <2>5. Turned'
    BY <1>r, <2>1, <2>4 DEF Turned, Running
  <2> QED  BY <2>3, <2>5
<1>3. ASSUME UpdateLastText, turn.step = "stream", UNCHANGED summary
      PROVE  Sound(list', msgs', summary', strays')
  <2>1. \A c \in list \ strays : Fine(msgs'[c]) /\ Len(msgs'[c]) = Len(msgs[c])
    BY <1>3, <1>q, UpdatedSound DEF Sound
  <2> QED  BY <1>3, <1>q, <1>r, <2>1 DEF Sound, Backed
<1>4. CASE delta
  <2>1. UpdateLastText /\ turn.step = "stream" /\ UNCHANGED <<summary, saves, turn>>
    BY <1>4 DEF delta
  <2>2. Snapshots' = Snapshots
    BY <1>r, <2>1, SnapshotSteps
  <2>3. Whole'
    BY <1>3, <1>q, <1>r, <2>1, <2>2, WholeStays
  <2>4. ASSUME active \notin strays
        PROVE  LET m == msgs'[active][Len(msgs'[active])]
               IN  ~Empty(active)' /\ m.by = turns' /\ m.role = "oracle"
    <3>1. /\ ~Empty(active) /\ msgs[active][Len(msgs[active])].by = turns
          /\ msgs[active][Len(msgs[active])].role = "oracle"
      BY <2>1, <2>4 DEF Turned
    <3>2. /\ Len(msgs'[active]) = Len(msgs[active]) /\ msgs'[active] # <<>>
          /\ msgs'[active][Len(msgs[active])].by = msgs[active][Len(msgs[active])].by
          /\ msgs'[active][Len(msgs[active])].role = msgs[active][Len(msgs[active])].role
      BY <1>q, <1>r, <2>1, <3>1, Updated DEF Empty
    <3> QED  BY <1>r, <3>1, <3>2 DEF Empty
  <2>5. Turned'
    BY <1>r, <2>1, <2>4 DEF Turned, Running
  <2> QED  BY <2>3, <2>5
<1>5. CASE finalizeReply
  <2>1. UpdateLastText /\ turn.step = "stream" /\ UNCHANGED summary /\ persist("turn")
    BY <1>5 DEF finalizeReply
  <2>2. Snapshots' \subseteq Snapshots \cup {Current'}
    BY <1>q, <1>r, <2>1, PersistedSnapshots
  <2>3. Whole'
    BY <1>3, <1>q, <1>r, <2>1, <2>2, WholeStays
  <2>4. \/ turn'.step = "idle"
        \/ /\ turn'.step = "saving" /\ turn'.conv = turn.conv
           /\ turn'.cut = turn.cut /\ turn'.from = turn.from /\ turn'.covers = turn.covers
    BY <1>5, TurnTyped DEF finalizeReply, TurnSteps, Typed, SendTypes
  <2>5. Turned'
    BY <1>r, <2>1, <2>4 DEF Turned, Running
  <2> QED  BY <2>3, <2>5
<1>6. CASE stopEarly
  <2>1. /\ UNCHANGED <<summary, saves>>
        /\ msgs' = msgs \/ msgs' = AddMessage(msgs, "user", "prompt")
    BY <1>6 DEF stopEarly
  <2>2. Whole'
    BY <1>q, <1>r, <2>1, AddedKeepsSound
  <2>3. turn'.step = "idle"
    BY <1>6, TurnTyped DEF stopEarly
  <2>4. Turned'
    BY <2>3 DEF Turned, Running
  <2> QED  BY <2>2, <2>4
<1> QED  BY <1>1, <1>2, <1>4, <1>5, <1>6

\* Every step keeps chats sound.
LEMMA SoundStep == Typed /\ Life /\ Turned /\ Whole /\ [Next]_vars => Whole' /\ Turned'
<1> SUFFICES ASSUME Typed, Life, Turned, Whole, [Next]_vars PROVE Whole' /\ Turned'
  OBVIOUS
<1> USE DEF chats
<1>q. Typed' /\ Sound(list, msgs, summary, strays)
  BY TypeStep DEF Whole
<1>1. ASSUME NEW i \in DOMAIN saves, SaveDone(i) PROVE Whole' /\ Turned'
  <2>1. Snapshots' \subseteq Snapshots /\ UNCHANGED <<app, list, active, msgs, summary, strays, turns>>
    BY <1>1, SnapshotSteps DEF SaveDone
  <2>2. Whole'
    BY <1>q, <2>1, WholeStays
  <2>3. turn' = turn \/ turn'.step = "idle"
    BY <1>1, TurnTyped DEF SaveDone
  <2>4. app = "up"
    BY <1>1 DEF Life
  <2>5. Turned'
    BY <2>1, <2>3, <2>4 DEF Turned, Running, Empty
  <2> QED  BY <2>2, <2>5
<1>2. CASE Launch
  <2>1. UNCHANGED <<list, active, msgs, summary, strays, turns, turn, saves, disk>> /\ app = "down"
    BY <1>2 DEF Launch
  <2>2. Snapshots' = Snapshots /\ ~Running
    BY <2>1, SnapshotSteps DEF Life
  <2>3. Whole'
    BY <1>q, <2>1, <2>2, WholeStays
  <2> QED  BY <2>1, <2>2, <2>3 DEF Turned, Running
<1>3. CASE Die
  <2>1. list' = {} /\ saves' = <<>> /\ UNCHANGED <<disk, strays>> /\ turn'.step = "idle"
    BY <1>3 DEF Die, Idle
  <2>2. Snapshots' = {disk} /\ disk \in Snapshots
    BY <2>1, SnapshotSteps DEF Snapshots
  <2>3. Sound(list', msgs', summary', strays')
    BY <2>1 DEF Sound
  <2>4. Whole'
    BY <1>q, <2>1, <2>2, <2>3, WholeStays
  <2> QED  BY <2>1, <2>4 DEF Turned, Running
<1>4. CASE UNCHANGED vars
  <2>1. Snapshots' = Snapshots /\ UNCHANGED <<app, list, active, msgs, summary, strays, turns, turn, disk>>
    BY <1>4, SnapshotSteps DEF vars
  <2>2. Whole'
    BY <1>q, <2>1, WholeStays
  <2> QED  BY <2>1, <2>2 DEF Turned, Running, Empty
<1> QED  BY <1>1, <1>2, <1>3, <1>4, OpensSound, EditsSound, SendSound, TurnGoesOnSound DEF Next

\* At the start the disk holds what an earlier run stored, and nothing is open.
LEMMA SoundInit == Init => Whole /\ Turned
<1> SUFFICES ASSUME Init PROVE Whole /\ Turned
  OBVIOUS
<1> DEFINE first == <<Message(0, "user", "prompt"), Message(0, "oracle", "reply")>>
<1>1. /\ disk = Earlier /\ saves = <<>> /\ list = {} /\ turn.step = "idle" /\ app = "down"
  BY DEF Init, Idle
<1>2. \A c \in disk.list : disk.msgs[c] = first /\ disk.summary[c] = NoSummary
  <2> DEFINE m == [c \in Convs |-> IF c \in Stored THEN first ELSE <<>>]
             none == [c \in Convs |-> <<>>]
             s == [c \in Convs |-> NoSummary]
  <2>1. Earlier = [NoHistory EXCEPT !.list = Stored, !.msgs = m]
    BY DEF Earlier
  <2>2. NoHistory = [list |-> {}, msgs |-> none, summary |-> s]
    BY DEF NoHistory
  <2> HIDE DEF first
  <2>3. \A c \in Stored : m[c] = first /\ s[c] = NoSummary
    BY ChatAssumption
  <2> HIDE DEF m, none, s
  <2>4. Earlier = [list |-> Stored, msgs |-> m, summary |-> s]
    BY <2>1, <2>2
  <2> QED  BY <1>1, <2>3, <2>4
<1>3. Fine(first) /\ \A c \in Convs : Backed(c, first, NoSummary)
  <2> DEFINE a == Message(0, "user", "prompt")  b == Message(0, "oracle", "reply")
  <2>1. /\ a.of = a.by /\ a.role = "user" /\ a.part = "prompt"
        /\ b.of = b.by /\ b.role = "oracle" /\ b.part = "reply"
    BY DEF Message
  <2>2. first = <<a, b>>
    OBVIOUS
  <2> HIDE DEF a, b, first
  <2> QED  BY <2>1, <2>2 DEF Fine, Backed, NoSummary
<1> HIDE DEF first
<1>4. Snapshots = {disk} /\ disk.list \in SUBSET Convs
  <2>1. DOMAIN saves = {}
    BY <1>1
  <2>2. disk.list \in SUBSET Convs
    BY TypeInit, RestoredHistory DEF Typed
  <2> QED  BY <2>1, <2>2 DEF Snapshots
<1>5. Whole
  BY <1>1, <1>2, <1>3, <1>4 DEF Whole, Sound
<1> QED  BY <1>1, <1>5 DEF Turned, Running

\* A chat that stayed open for each of its turns shows every text where it was written,
\* whatever the user does meanwhile and however often the process dies.
THEOREM TextsStandAsWritten == Spec => []OwnText
<1>1. Whole => OwnText
  BY DEF Whole, Sound, OwnText, Intact, Fine
<1> QED  BY <1>1, TypeInit, TypeStep, LifeInit, LifeStep, SoundInit, SoundStep, PTL DEF Spec

\* In such a chat a summary covers what it lets the code leave out, so that the engine is
\* given all of it unless the code chose to truncate.
THEOREM NothingForgotten == Spec => []FullContext
<1>1. Whole /\ Turned => FullContext
  BY DEF Whole, Turned, Sound, FullContext, Backed
<1> QED  BY <1>1, TypeInit, TypeStep, LifeInit, LifeStep, SoundInit, SoundStep, PTL DEF Spec
================================================================================

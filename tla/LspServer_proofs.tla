--------------------------- MODULE LspServer_proofs ---------------------------
(***************************************************************************)
(* For any documents, any texts and any number of messages on their way,   *)
(* the language server and the editor agree.                               *)
(***************************************************************************)
EXTENDS LspServer, SequenceTheorems, TLAPS

Screens == [Uris -> Texts \union {Closed}]
Methods ==
  {"didOpen", "didChange", "didClose", "request", "shutdown", "exit", "unknown"}
Message ==
  [method : Methods, uri : Uris \union {Nobody}, texts : Seq(Texts), screen : Screens]
Answer ==
  [asked : Texts \union {Closed}, text : Texts \union {Closed}, compiled : Texts \union {Closed}]

TypeOK ==
  /\ editor \in Screens /\ documents \in Screens
  /\ inbox \in Seq(Message)
  /\ latest_compile_state \in [uri : Uris \union {Nobody}, text : Texts \union {Closed}]
  /\ published \in [Uris -> [text : Texts \union {Closed}, compiled : Texts \union {Closed}]]
  /\ answer \in Answer

(* What a message does to the texts the server has.                        *)
Replay(m, before) ==
  /\ m.method \in {"didOpen", "didChange", "didClose", "request"} => m.uri \in Uris
  /\ m.method = "didOpen" =>
       /\ Len(m.texts) = 1
       /\ m.screen = [before EXCEPT ![m.uri] = m.texts[1]]
  /\ m.method = "didChange" =>
       /\ m.texts # << >> /\ before[m.uri] # Closed
       /\ m.screen = [before EXCEPT ![m.uri] = m.texts[Len(m.texts)]]
  /\ m.method = "didClose" => m.screen = [before EXCEPT ![m.uri] = Closed]
  /\ m.method \notin {"didOpen", "didChange", "didClose"} => m.screen = before

(* The texts before the i-th message is handled.                           *)
Before(i) == IF i = 1 THEN documents ELSE inbox[i - 1].screen

(* The messages on their way turn the server's texts into the editor's.    *)
InboxLeadsToEditor ==
  /\ \A i \in 1 .. Len(inbox) : Replay(inbox[i], Before(i))
  /\ Before(Len(inbox) + 1) = editor

Made(u) ==
  [text |-> documents[u], compiled |-> IF u \in FileUris THEN documents[u] ELSE Closed]

PublishedIsCurrent == ~ unread => \A u \in Uris : published[u] = Made(u)

IInv ==
  TypeOK /\ InboxLeadsToEditor /\ PublishedIsCurrent /\ StateIsCurrent /\ AnswersAreOfTheirTime

USE LspAssumption

-----------------------------------------------------------------------------
(* In the first state nothing is open.                                     *)
LEMMA InitIInv == LspInit => IInv
BY DEF LspInit, IInv, TypeOK, Screens, Message, Answer, InboxLeadsToEditor, Before,
       PublishedIsCurrent, Made, StateIsCurrent, AnswersAreOfTheirTime, NoState, NoAnswer

(* A message that is sent goes to the end of the inbox.                    *)
LEMMA Sending ==
    ASSUME TypeOK, InboxLeadsToEditor, NEW m \in Message, Replay(m, editor),
           inbox' = Append(inbox, m), editor' = m.screen, UNCHANGED documents
    PROVE  editor' \in Screens /\ inbox' \in Seq(Message) /\ InboxLeadsToEditor'
<1>1. editor' \in Screens /\ inbox' \in Seq(Message) /\ Len(inbox') = Len(inbox) + 1
  BY DEF TypeOK, Message
<1>2. \A i \in 1 .. Len(inbox) : inbox'[i] = inbox[i]
  BY DEF TypeOK
<1>3. inbox'[Len(inbox) + 1] = m /\ Len(inbox) \in Nat
  BY DEF TypeOK
<1>4. \A i \in 1 .. Len(inbox) + 1 : Before(i)' = Before(i)
  BY <1>2, <1>3 DEF Before
<1>5. Before(Len(inbox) + 1)' = editor'
  BY <1>1, <1>3 DEF Before
<1>6. \A i \in 1 .. Len(inbox') : Replay(inbox'[i], Before(i)')
  <2> SUFFICES ASSUME NEW i \in 1 .. Len(inbox') PROVE Replay(inbox'[i], Before(i)')
    OBVIOUS
  <2>1. CASE i = Len(inbox) + 1
    BY <2>1, <1>1, <1>3, <1>4 DEF InboxLeadsToEditor
  <2>2. CASE i # Len(inbox) + 1
    <3>1. i \in 1 .. Len(inbox)
      BY <2>2, <1>1, <1>3
    <3> QED
      BY <3>1, <1>2, <1>3, <1>4 DEF InboxLeadsToEditor
  <2> QED
    BY <2>1, <2>2
<1> QED
  BY <1>1, <1>5, <1>6 DEF InboxLeadsToEditor

(* A message that is handled as it asks leaves the rest of the inbox.      *)
LEMMA Receiving ==
    ASSUME TypeOK, InboxLeadsToEditor, inbox # << >>,
           inbox' = Tail(inbox), documents' = Head(inbox).screen, UNCHANGED editor
    PROVE  documents' \in Screens /\ inbox' \in Seq(Message) /\ InboxLeadsToEditor'
<1>1. /\ Len(inbox) \in Nat /\ Len(inbox) >= 1 /\ Head(inbox) = inbox[1]
      /\ inbox' \in Seq(Message) /\ Len(inbox') = Len(inbox) - 1
  BY DEF TypeOK
<1>2. \A i \in 1 .. Len(inbox) - 1 : inbox'[i] = inbox[i + 1]
  BY <1>1 DEF TypeOK
<1>3. \A i \in 1 .. Len(inbox) : Before(i)' = Before(i + 1)
  BY <1>1, <1>2 DEF Before
<1>4. documents' \in Screens
  <2>1. inbox[1] \in Message
    BY <1>1 DEF TypeOK
  <2> QED
    BY <1>1, <2>1 DEF Message
<1>5. Before(Len(inbox) + 1)' = editor'
  BY <1>1, <1>3 DEF InboxLeadsToEditor
<1>6. \A i \in 1 .. Len(inbox') : Replay(inbox'[i], Before(i)')
  BY <1>1, <1>2, <1>3 DEF InboxLeadsToEditor
<1> QED
  BY <1>1, <1>4, <1>5, <1>6 DEF InboxLeadsToEditor

(* What the first message of the inbox is.                                 *)
LEMMA FirstMessage ==
    ASSUME TypeOK, InboxLeadsToEditor, inbox # << >>
    PROVE  Head(inbox) \in Message /\ Replay(Head(inbox), documents)
<1>1. Head(inbox) = inbox[1] /\ 1 \in 1 .. Len(inbox) /\ inbox[1] \in Message
  BY DEF TypeOK
<1> QED
  BY <1>1 DEF InboxLeadsToEditor, Before

-----------------------------------------------------------------------------
(* The editor's actions.                                                   *)
LEMMA SendKeepsIInv ==
    ASSUME IInv, NEW method \in Methods, NEW u \in Uris \union {Nobody}, NEW texts \in Seq(Texts),
           NEW screen \in Screens, Send(method, u, texts, screen),
           Replay([method |-> method, uri |-> u, texts |-> texts, screen |-> screen], editor)
    PROVE  IInv'
<1> DEFINE m == [method |-> method, uri |-> u, texts |-> texts, screen |-> screen]
<1>1. m \in Message /\ m.screen = screen /\ Replay(m, editor)
  BY DEF Message
<1>2. /\ inbox' = Append(inbox, m) /\ editor' = screen
      /\ UNCHANGED <<unread, documents, latest_compile_state, published, answer>>
  BY DEF Send
<1> HIDE DEF m
<1>3. editor' \in Screens /\ inbox' \in Seq(Message) /\ InboxLeadsToEditor'
  BY <1>1, <1>2, Sending DEF IInv
<1> QED
  BY <1>2, <1>3 DEF IInv, TypeOK, PublishedIsCurrent, Made, StateIsCurrent, AnswersAreOfTheirTime

LEMMA EditorKeepsIInv ==
    ASSUME IInv, \/ \E u \in Uris :
                      \/ \E text \in Texts : Open(u, text)
                      \/ \E texts \in Changes : Change(u, texts)
                      \/ Close(u) \/ Ask(u)
                 \/ \E method \in {"shutdown", "exit", "unknown"} : Other(method)
                 \/ EndInput \/ StopReading
    PROVE  IInv'
<1>t. editor \in Screens
  BY DEF IInv, TypeOK
<1>1. ASSUME NEW u \in Uris, NEW text \in Texts, Open(u, text) PROVE IInv'
  <2>1. "didOpen" \in Methods /\ u \in Uris \union {Nobody} /\ <<text>> \in Seq(Texts)
    BY DEF Methods
  <2>2. [editor EXCEPT ![u] = text] \in Screens
    BY <1>t DEF Screens
  <2>3. Replay([method |-> "didOpen", uri |-> u, texts |-> <<text>>,
                screen |-> [editor EXCEPT ![u] = text]], editor)
    BY DEF Replay
  <2> QED
    BY <1>1, <2>1, <2>2, <2>3, SendKeepsIInv, Zenon DEF Open
<1>2. ASSUME NEW u \in Uris, NEW texts \in Changes, Change(u, texts) PROVE IInv'
  <2>0. texts \in Seq(Texts) /\ texts # << >> /\ texts[Len(texts)] \in Texts
    <3>1. texts \in Seq(Texts) /\ texts # << >>
      OBVIOUS
    <3>2. Len(texts) \in 1 .. Len(texts)
      BY <3>1, EmptySeq
    <3> QED
      BY <3>1, <3>2
  <2>1. "didChange" \in Methods /\ u \in Uris \union {Nobody} /\ texts \in Seq(Texts)
    BY <2>0 DEF Methods
  <2>2. [editor EXCEPT ![u] = texts[Len(texts)]] \in Screens
    BY <1>t, <2>0 DEF Screens
  <2>3. Replay([method |-> "didChange", uri |-> u, texts |-> texts,
                screen |-> [editor EXCEPT ![u] = texts[Len(texts)]]], editor)
    BY <1>2, <2>0 DEF Replay, Change
  <2> QED
    BY <1>2, <2>1, <2>2, <2>3, SendKeepsIInv, Zenon DEF Change
<1>3. ASSUME NEW u \in Uris, Close(u) PROVE IInv'
  <2>1. "didClose" \in Methods /\ u \in Uris \union {Nobody} /\ << >> \in Seq(Texts)
    BY DEF Methods
  <2>2. [editor EXCEPT ![u] = Closed] \in Screens
    BY <1>t DEF Screens
  <2>3. Replay([method |-> "didClose", uri |-> u, texts |-> << >>,
                screen |-> [editor EXCEPT ![u] = Closed]], editor)
    BY DEF Replay
  <2> QED
    BY <1>3, <2>1, <2>2, <2>3, SendKeepsIInv, Zenon DEF Close
<1>4. ASSUME NEW u \in Uris, Ask(u) PROVE IInv'
  <2>1. "request" \in Methods /\ u \in Uris \union {Nobody} /\ << >> \in Seq(Texts)
    BY DEF Methods
  <2>2. editor \in Screens
    BY <1>t DEF Screens
  <2>3. Replay([method |-> "request", uri |-> u, texts |-> << >>,
                screen |-> editor], editor)
    BY DEF Replay
  <2> QED
    BY <1>4, <2>1, <2>2, <2>3, SendKeepsIInv, Zenon DEF Ask
<1>5. ASSUME NEW method \in {"shutdown", "exit", "unknown"}, Other(method) PROVE IInv'
  <2>1. method \in Methods /\ Nobody \in Uris \union {Nobody} /\ << >> \in Seq(Texts)
    BY DEF Methods
  <2>2. editor \in Screens
    BY <1>t DEF Screens
  <2>3. Replay([method |-> method, uri |-> Nobody, texts |-> << >>,
                screen |-> editor], editor)
    BY DEF Replay
  <2> QED
    BY <1>5, <2>1, <2>2, <2>3, SendKeepsIInv, Zenon DEF Other
<1>6. ASSUME EndInput \/ StopReading PROVE IInv'
  BY <1>6 DEF EndInput, StopReading, IInv, TypeOK, InboxLeadsToEditor, Before,
              PublishedIsCurrent, Made, StateIsCurrent, AnswersAreOfTheirTime
<1> QED
  BY <1>1, <1>2, <1>3, <1>4, <1>5, <1>6

-----------------------------------------------------------------------------
(* The server's actions.                                                   *)

LEMMA KeepKeepsIInv ==
    ASSUME IInv, NEW u \in Uris, NEW text \in Texts, inbox # << >>, inbox' = Tail(inbox),
           UNCHANGED <<editor, unread>>, Head(inbox).screen = [documents EXCEPT ![u] = text],
           Keep(u, text)
    PROVE  IInv'
<1>1. documents' \in Screens /\ inbox' \in Seq(Message) /\ InboxLeadsToEditor'
  BY Receiving DEF IInv, Keep
<1>2. compile_state_for_uri(refresh_compile_state(u, text), u) =
        IF u \in FileUris THEN text ELSE Closed
  BY DEF compile_state_for_uri, refresh_compile_state, NoState
<1>3. /\ documents' = [documents EXCEPT ![u] = text]
      /\ documents \in Screens
      /\ published' = IF unread THEN published
           ELSE [published EXCEPT ![u] =
                  [text |-> text, compiled |-> IF u \in FileUris THEN text ELSE Closed]]
      /\ published \in [Uris -> [text : Texts \union {Closed}, compiled : Texts \union {Closed}]]
  BY <1>2 DEF Keep, Publish, IInv, TypeOK
<1>4. /\ published' \in [Uris -> [text : Texts \union {Closed}, compiled : Texts \union {Closed}]]
      /\ PublishedIsCurrent'
  BY <1>3 DEF IInv, PublishedIsCurrent, Made, Screens
<1>5. /\ latest_compile_state' \in [uri : Uris \union {Nobody}, text : Texts \union {Closed}]
      /\ StateIsCurrent'
  BY <1>3 DEF Keep, refresh_compile_state, NoState, StateIsCurrent, Screens
<1> QED
  BY <1>1, <1>4, <1>5 DEF Keep, IInv, TypeOK, AnswersAreOfTheirTime

(* A message that is no change of a text.                                  *)
LEMMA NoChangeKeepsIInv ==
    ASSUME IInv, inbox # << >>, inbox' = Tail(inbox),
           Head(inbox).method \notin {"didOpen", "didChange", "didClose"},
           UNCHANGED <<editor, unread, documents, latest_compile_state, published>>,
           answer' \in Answer, AnswersAreOfTheirTime'
    PROVE  IInv'
<1>1. documents' = Head(inbox).screen
  BY FirstMessage DEF Replay, IInv
<1>2. inbox' \in Seq(Message) /\ InboxLeadsToEditor'
  BY <1>1, Receiving DEF IInv
<1> QED
  BY <1>2 DEF IInv, TypeOK, PublishedIsCurrent, Made, StateIsCurrent

LEMMA ServerKeepsIInv == ASSUME IInv, run_lsp PROVE IInv'
<1>1. CASE handle_did_open
  <2>1. inbox # << >> /\ Head(inbox).method = "didOpen" /\ inbox' = Tail(inbox)
    BY <1>1 DEF handle_did_open, Reads
  <2>2. Head(inbox) \in Message /\ Replay(Head(inbox), documents)
    BY <2>1, FirstMessage DEF IInv
  <2>3. Head(inbox).uri \in Uris /\ Head(inbox).texts[1] \in Texts
    BY <2>1, <2>2 DEF Replay, Message
  <2> QED
    BY <1>1, <2>1, <2>2, <2>3, KeepKeepsIInv DEF handle_did_open, Reads, Replay
<1>2. CASE handle_did_change
  <2>1. inbox # << >> /\ Head(inbox).method = "didChange" /\ inbox' = Tail(inbox)
    BY <1>2 DEF handle_did_change, Reads
  <2>2. Head(inbox) \in Message /\ Replay(Head(inbox), documents)
    BY <2>1, FirstMessage DEF IInv
  <2> DEFINE m == Head(inbox)
  <2>3. m.uri \in Uris /\ m.texts \in Seq(Texts) /\ m.texts # << >> /\ documents[m.uri] # Closed
    BY <2>1, <2>2 DEF Replay, Message
  <2>4. m.texts[Len(m.texts)] \in Texts
    <3>1. Len(m.texts) \in 1 .. Len(m.texts)
      BY <2>3, EmptySeq
    <3> QED
      BY <2>3, <3>1
  <2>5. Keep(m.uri, m.texts[Len(m.texts)])
    BY <1>2, <2>3 DEF handle_did_change
  <2> QED
    BY <1>2, <2>1, <2>2, <2>3, <2>4, <2>5, KeepKeepsIInv DEF handle_did_change, Reads, Replay
<1>3. CASE handle_did_close
  <2>1. inbox # << >> /\ Head(inbox).method = "didClose" /\ inbox' = Tail(inbox)
    BY <1>3 DEF handle_did_close, Reads
  <2>2. Head(inbox) \in Message /\ Replay(Head(inbox), documents)
    BY <2>1, FirstMessage DEF IInv
  <2> DEFINE u == Head(inbox).uri
  <2>3. u \in Uris /\ documents \in Screens
    BY <2>1, <2>2 DEF Replay, IInv, TypeOK
  <2>4. documents' = [documents EXCEPT ![u] = Closed]
    BY <1>3, <2>3 DEF handle_did_close, Screens
  <2>5. documents' \in Screens /\ inbox' \in Seq(Message) /\ InboxLeadsToEditor'
    BY <1>3, <2>1, <2>2, <2>4, Receiving DEF handle_did_close, Reads, Replay, IInv
  <2>6. /\ published' \in [Uris -> [text : Texts \union {Closed}, compiled : Texts \union {Closed}]]
        /\ PublishedIsCurrent'
    <3>1. CASE documents[u] # Closed
      <4>1. published' = IF unread THEN published
                           ELSE [published EXCEPT ![u] = [text |-> Closed, compiled |-> Closed]]
        BY <1>3, <3>1 DEF handle_did_close, Publish
      <4>2. /\ unread' = unread
            /\ published \in [Uris -> [text : Texts \union {Closed}, compiled : Texts \union {Closed}]]
        BY <1>3 DEF handle_did_close, Reads, IInv, TypeOK
      <4> QED
        BY <2>3, <2>4, <4>1, <4>2 DEF IInv, PublishedIsCurrent, Made, Screens
    <3>2. CASE documents[u] = Closed
      BY <1>3, <3>2, <2>3 DEF handle_did_close, Reads, IInv, TypeOK, PublishedIsCurrent, Made
    <3> QED
      BY <3>1, <3>2
  <2>7. /\ latest_compile_state' \in [uri : Uris \union {Nobody}, text : Texts \union {Closed}]
        /\ StateIsCurrent'
    BY <1>3, <2>3, <2>4 DEF handle_did_close, IInv, TypeOK, StateIsCurrent, NoState, Screens
  <2> QED
    BY <1>3, <2>5, <2>6, <2>7 DEF handle_did_close, Reads, IInv, TypeOK, AnswersAreOfTheirTime
<1>4. CASE handle_request
  <2>1. inbox # << >> /\ Head(inbox).method = "request"
    BY <1>4 DEF handle_request, Reads
  <2>2. Head(inbox) \in Message /\ Replay(Head(inbox), documents)
    BY <2>1, FirstMessage DEF IInv
  <2> DEFINE u == Head(inbox).uri
             compiled == IF documents[u] # Closed
                           THEN compile_state_for_uri(latest_compile_state, u) ELSE Closed
  <2>3. u \in Uris /\ Head(inbox).screen = documents /\ documents[u] \in Texts \union {Closed}
    BY <2>1, <2>2 DEF Replay, IInv, TypeOK, Screens
  <2>4. compiled \in {documents[u], Closed}
    BY <2>3 DEF compile_state_for_uri, IInv, StateIsCurrent, NoState
  <2>5. answer' = answer \/ answer' = [asked |-> documents[u], text |-> documents[u], compiled |-> compiled]
    BY <1>4, <2>3 DEF handle_request, Respond
  <2>6. answer' \in Answer /\ AnswersAreOfTheirTime'
    BY <2>3, <2>4, <2>5 DEF Answer, AnswersAreOfTheirTime, IInv, TypeOK
  <2> QED
    BY <1>4, <2>1, <2>6, NoChangeKeepsIInv DEF handle_request, Reads
<1>5. ASSUME \/ HandleShutdown \/ HandleExit \/ HandleUnknown PROVE IInv'
  <2>1. /\ inbox # << >> /\ inbox' = Tail(inbox)
        /\ Head(inbox).method \notin {"didOpen", "didChange", "didClose"}
        /\ UNCHANGED <<editor, unread, documents, latest_compile_state, published>>
    BY <1>5 DEF HandleShutdown, HandleExit, HandleUnknown, Reads
  <2>2. answer' = answer \/ answer' = NoAnswer
    BY <1>5 DEF HandleShutdown, HandleExit, HandleUnknown, Respond
  <2>3. answer' \in Answer /\ AnswersAreOfTheirTime'
    BY <2>2 DEF IInv, TypeOK, Answer, NoAnswer, AnswersAreOfTheirTime
  <2> QED
    BY <2>1, <2>3, NoChangeKeepsIInv
<1>6. CASE EndOfInput
  BY <1>6 DEF EndOfInput, IInv, TypeOK, InboxLeadsToEditor, Before, PublishedIsCurrent, Made,
              StateIsCurrent, AnswersAreOfTheirTime
<1> QED
  BY <1>1, <1>2, <1>3, <1>4, <1>5, <1>6 DEF run_lsp

LEMMA NextIInv == ASSUME IInv, [LspNext]_lspVars PROVE IInv'
<1>1. CASE LspNext
  <2>1. CASE run_lsp
    BY <2>1, ServerKeepsIInv
  <2>2. CASE ~ run_lsp
    BY <1>1, <2>2, EditorKeepsIInv DEF LspNext
  <2> QED
    BY <2>1, <2>2
<1>2. CASE UNCHANGED lspVars
  BY <1>2 DEF lspVars, IInv, TypeOK, InboxLeadsToEditor, Before, PublishedIsCurrent, Made,
              StateIsCurrent, AnswersAreOfTheirTime
<1> QED
  BY <1>1, <1>2

LEMMA InvariantHolds == LspSpec => []IInv
  BY InitIInv, NextIInv, PTL DEF LspSpec

-----------------------------------------------------------------------------
(* The state that is kept is a compile of an open document's text.         *)
THEOREM CompileStateIsCurrent == LspSpec => []StateIsCurrent
  BY InvariantHolds, PTL DEF IInv

(* An answer of the server is made from the text that was on the screen    *)
(* when the question was asked.                                            *)
THEOREM AnswersFitTheirQuestions == LspSpec => []AnswersAreOfTheirTime
  BY InvariantHolds, PTL DEF IInv

(* Once no message is on its way the server has the editor's texts, and    *)
(* has published diagnostics of them.                                      *)
THEOREM ServerFollowsEditor == LspSpec => []EditorAndServerAgree
<1>1. IInv => EditorAndServerAgree
  BY DEF IInv, TypeOK, InboxLeadsToEditor, Before, PublishedIsCurrent, Made, EditorAndServerAgree
<1> QED
  BY <1>1, InvariantHolds, PTL
=============================================================================

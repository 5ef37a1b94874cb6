------------------------------- MODULE LspServer -------------------------------
(***************************************************************************)
(* The language server (lsp_server.rs): one thread that reads the editor's *)
(* messages in order, keeps the open documents and the state of the last   *)
(* compile, answers requests from them and publishes diagnostics.          *)
(***************************************************************************)
EXTENDS Integers, Sequences

CONSTANTS
  Uris, Texts,
  Changes,        \* the texts of a didChange notification
  FileUris,       \* those with the scheme file:, which are compiled
  Closed, Nobody,
  MaxMessages     \* BOUND on the messages the editor sends

ASSUME LspAssumption ==
  /\ FileUris \subseteq Uris /\ Nobody \notin Uris
  /\ Changes \subseteq Seq(Texts) \ {<< >>} /\ Closed \notin Texts
  /\ MaxMessages \in Nat

VARIABLES
  editor,                \* uri -> the text on the editor's screen
  inbox, sent,           \* messages on their way, and how many were sent
  input_ended,           \* nothing, or nothing that can be read, follows the inbox
  unread,                \* the editor no longer reads the server's output
  documents,             \* uri -> the server's text
  latest_compile_state,  \* the uri and the text it was made from
  published,             \* uri -> what the last diagnostics the editor got were made from
  answer,                \* the last answer the editor got
  shutdown_requested, exit

lspVars == <<editor, inbox, sent, input_ended, unread, documents, latest_compile_state,
             published, answer, shutdown_requested, exit>>

NoState == [uri |-> Nobody, text |-> Closed]
NoAnswer == [asked |-> Closed, text |-> Closed, compiled |-> Closed]

LspInit ==
  /\ editor = [u \in Uris |-> Closed]
  /\ inbox = << >> /\ sent = 0
  /\ input_ended = FALSE /\ unread = FALSE
  /\ documents = [u \in Uris |-> Closed]
  /\ latest_compile_state = NoState
  /\ published = [u \in Uris |-> [text |-> Closed, compiled |-> Closed]]
  /\ answer = NoAnswer
  /\ shutdown_requested = FALSE /\ exit = "running"

-----------------------------------------------------------------------------
(* The editor.                                                             *)

\* "screen" is what the editor shows after it sent a message; only the properties
\* look at it.
Send(method, u, texts, screen) ==
  /\ exit = "running" /\ ~ input_ended /\ sent < MaxMessages
  /\ inbox' = Append(inbox, [method |-> method, uri |-> u, texts |-> texts, screen |-> screen])
  /\ sent' = sent + 1
  /\ editor' = screen
  /\ UNCHANGED <<input_ended, unread, documents, latest_compile_state, published, answer,
                 shutdown_requested, exit>>

Open(u, text) ==
  /\ editor[u] = Closed
  /\ Send("didOpen", u, <<text>>, [editor EXCEPT ![u] = text])

\* A notification may hold several whole texts; each replaces the one before.
Change(u, texts) ==
  /\ editor[u] # Closed
  /\ Send("didChange", u, texts, [editor EXCEPT ![u] = texts[Len(texts)]])

Close(u) ==
  /\ editor[u] # Closed
  /\ Send("didClose", u, << >>, [editor EXCEPT ![u] = Closed])

\* A completion, a definition, a hover or a code action.
Ask(u) == Send("request", u, << >>, editor)

Other(method) == Send(method, Nobody, << >>, editor)

EndInput ==
  /\ exit = "running" /\ ~ input_ended
  /\ input_ended' = TRUE
  /\ UNCHANGED <<editor, inbox, sent, unread, documents, latest_compile_state, published,
                 answer, shutdown_requested, exit>>

StopReading ==
  /\ exit = "running" /\ ~ unread /\ unread' = TRUE
  /\ UNCHANGED <<editor, inbox, sent, input_ended, documents, latest_compile_state, published,
                 answer, shutdown_requested, exit>>

-----------------------------------------------------------------------------
(* The server.                                                             *)

\* MUTANT: the state of whichever document was compiled last.
state_of_any_uri(state, u) == state.text

compile_state_for_uri(state, u) == IF state.uri = u THEN state.text ELSE Closed

refresh_compile_state(u, text) ==
  IF u \in FileUris THEN [uri |-> u, text |-> text] ELSE NoState

\* A notification that cannot be written is forgotten.
Publish(u, made) ==
  published' = IF unread THEN published ELSE [published EXCEPT ![u] = made]

Reads(method) ==
  /\ exit = "running" /\ inbox # << >> /\ Head(inbox).method = method
  /\ inbox' = Tail(inbox)
  /\ UNCHANGED <<editor, sent, input_ended, unread>>

Keep(u, text) ==
  /\ documents' = [documents EXCEPT ![u] = text]
  /\ latest_compile_state' = refresh_compile_state(u, text)
  /\ Publish(u, [text |-> text, compiled |-> compile_state_for_uri(refresh_compile_state(u, text), u)])
  /\ UNCHANGED <<answer, shutdown_requested, exit>>

handle_did_open ==
  /\ Reads("didOpen")
  /\ Keep(Head(inbox).uri, Head(inbox).texts[1])

\* MUTANT: the first of several changes.
change_to_first ==
  /\ Reads("didChange")
  /\ documents[Head(inbox).uri] # Closed
  /\ Keep(Head(inbox).uri, Head(inbox).texts[1])

handle_did_change ==
  /\ Reads("didChange")
  /\ LET u == Head(inbox).uri
         texts == Head(inbox).texts
     IN IF documents[u] # Closed
          THEN Keep(u, texts[Len(texts)])
          ELSE UNCHANGED <<documents, latest_compile_state, published, answer,
                           shutdown_requested, exit>>

\* MUTANT: the state of the closed document is kept.
close_and_keep ==
  /\ Reads("didClose")
  /\ documents' = [documents EXCEPT ![Head(inbox).uri] = Closed]
  /\ Publish(Head(inbox).uri, [text |-> Closed, compiled |-> Closed])
  /\ UNCHANGED <<latest_compile_state, answer, shutdown_requested, exit>>

handle_did_close ==
  /\ Reads("didClose")
  /\ LET u == Head(inbox).uri
     IN IF documents[u] # Closed
          THEN /\ documents' = [documents EXCEPT ![u] = Closed]
               /\ latest_compile_state' =
                    IF latest_compile_state.uri = u THEN NoState ELSE latest_compile_state
               /\ Publish(u, [text |-> Closed, compiled |-> Closed])
          ELSE UNCHANGED <<documents, latest_compile_state, published>>
  /\ UNCHANGED <<answer, shutdown_requested, exit>>

\* A response that cannot be written ends the server.
Respond(reply) ==
  IF unread THEN exit' = "2" /\ UNCHANGED answer ELSE UNCHANGED exit /\ answer' = reply

\* A document that is not open has an empty answer.
handle_request ==
  /\ Reads("request")
  /\ LET u == Head(inbox).uri
         state == compile_state_for_uri(latest_compile_state, u)
         open == documents[u] # Closed
     IN Respond([asked |-> Head(inbox).screen[u], text |-> documents[u],
                 compiled |-> IF open THEN state ELSE Closed])
  /\ UNCHANGED <<documents, latest_compile_state, published, shutdown_requested>>

HandleShutdown ==
  /\ Reads("shutdown")
  /\ shutdown_requested' = TRUE
  /\ Respond(NoAnswer)
  /\ UNCHANGED <<documents, latest_compile_state, published>>

HandleExit ==
  /\ Reads("exit")
  /\ exit' = IF shutdown_requested THEN "0" ELSE "1"
  /\ UNCHANGED <<documents, latest_compile_state, published, answer, shutdown_requested>>

\* initialize, an unknown request, a notification without a handler or without
\* its parameters.
HandleUnknown ==
  /\ Reads("unknown")
  /\ \/ Respond(NoAnswer)
     \/ UNCHANGED <<answer, exit>>
  /\ UNCHANGED <<documents, latest_compile_state, published, shutdown_requested>>

EndOfInput ==
  /\ exit = "running" /\ inbox = << >> /\ input_ended
  /\ exit' \in {"2", IF shutdown_requested THEN "0" ELSE "1"}
  /\ UNCHANGED <<editor, inbox, sent, input_ended, unread, documents, latest_compile_state,
                 published, answer, shutdown_requested>>

run_lsp ==
  \/ handle_did_open \/ handle_did_change \/ handle_did_close \/ handle_request
  \/ HandleShutdown \/ HandleExit \/ HandleUnknown \/ EndOfInput

-----------------------------------------------------------------------------
LspNext ==
  \/ \E u \in Uris :
       \/ \E text \in Texts : Open(u, text)
       \/ \E texts \in Changes : Change(u, texts)
       \/ Close(u) \/ Ask(u)
  \/ \E method \in {"shutdown", "exit", "unknown"} : Other(method)
  \/ EndInput \/ StopReading
  \/ run_lsp

LspSpec == LspInit /\ [][LspNext]_lspVars /\ WF_lspVars(run_lsp)

-----------------------------------------------------------------------------
\* The compile state that is kept belongs to a document that is open and to the
\* text the server has of it.
StateIsCurrent ==
  latest_compile_state # NoState =>
    /\ latest_compile_state.uri \in FileUris
    /\ documents[latest_compile_state.uri] = latest_compile_state.text

\* When every message is handled, the server has the texts that are on the
\* screen, and the diagnostics on it were made from them; a closed document has
\* none.
EditorAndServerAgree ==
  exit = "running" /\ inbox = << >> =>
    /\ documents = editor
    /\ ~ unread => \A u \in Uris :
         published[u] = [text |-> editor[u],
                         compiled |-> IF u \in FileUris THEN editor[u] ELSE Closed]

\* Whatever messages are on their way, an answer is made from the text that was
\* on the screen when the question was asked, and with a compile of that very
\* text or of none.
AnswersAreOfTheirTime ==
  answer.text = answer.asked /\ answer.compiled \in {answer.asked, Closed}
=============================================================================

----------------------------- MODULE PreviewServer -----------------------------
(***************************************************************************)
(* The preview of `ferritex preview`: the publisher (on_compile of         *)
(* handle_preview, in main.rs), the PreviewSessionService behind its mutex *)
(* and the LoopbackPreviewTransport with one thread per connection         *)
(* (loopback_transport.rs), for the one session a process has.             *)
(*                                                                         *)
(* A connection is one WebSocket to the events endpoint; a client that     *)
(* connects again is another member of Connections.  A PDF is the number   *)
(* of the revision it is published as.  A frame is written to a socket in  *)
(* two parts, header and payload, as ws_write_text and ws_write_pong do.   *)
(* A step holds at most the locks the code holds, and each step that waits *)
(* for a lock is a step of its own.                                        *)
(***************************************************************************)
EXTENDS Naturals, Sequences, FiniteSets

CONSTANTS
    Connections,    \* events connections that can be made
    PagesOf,        \* the number of pages of every revision
    Pong,           \* the frame that answers a ping
    MaxRevisions,   \* BOUND on the successful compiles
    Settings        \* [clients, places, revisions, invalidates], see below

ASSUME SettingsAssumption ==
    Settings \subseteq [clients : SUBSET Connections, places : Nat \ {0},
                        revisions : 0..MaxRevisions, invalidates : BOOLEAN]
ASSUME PagesAssumption == PagesOf \in [1..MaxRevisions -> Nat \ {0}]
ASSUME PongAssumption == Pong \notin Nat
ASSUME BoundsAssumption == MaxRevisions \in Nat

VARIABLES
    setting,        \* who connects and what happens (never changes)
    \* PreviewSession
    revision,       \* revision
    page,           \* view_state.page_number
    active,         \* active
    \* LoopbackPreviewTransport
    document,       \* the revision in `documents`, 0 for none
    invalidated,    \* the session is in invalidated_sessions
    pending,        \* pending_events
    slots,          \* event_subscribers
    \* the publisher
    pc,             \* where on_compile is
    left,           \* subscribers the event has still to be written to
    delivered,      \* delivered_to_subscriber
    \* invalidate_session
    closing,        \* what notify_session_invalidated does next
    \* the threads of the connections, their sockets and clients
    conn,           \* where the thread is
    sending,        \* frames the thread has still to write
    half,           \* who has written a header and not yet its payload
    garbled,        \* the client can no longer read the stream
    reset,          \* the client has reset the connection
    got,            \* revisions written to the socket
    due,            \* the client has something to read
    shown           \* the revision of the PDF the client fetched last

sessionVars == <<revision, page, active>>
transportVars == <<document, invalidated, pending, slots>>
publisherVars == <<pc, left, delivered>>
socketVars == <<half, garbled, got, due>>
clientVars == <<reset, shown>>
threadVars == <<conn, sending>>
vars == <<setting, sessionVars, transportVars, publisherVars, closing, threadVars,
          socketVars, clientVars>>

Revisions == 1..MaxRevisions

Elements(s) == {s[i] : i \in DOMAIN s}

(* MAX_EVENT_SUBSCRIBERS_PER_SESSION                                       *)
MaxSubscribers == setting.places

TypeOK ==
    /\ revision \in 0..MaxRevisions /\ page \in {1} \cup UNION {1..PagesOf[r] : r \in Revisions} /\ active \in BOOLEAN
    /\ document \in 0..MaxRevisions
    /\ invalidated \in BOOLEAN
    /\ pending \in Seq(Revisions)
    /\ slots \in Seq(Connections) /\ Len(slots) <= MaxSubscribers
    /\ pc \in {"bootstrap", "idle", "clamp", "pdf", "advance", "check", "lock",
               "header", "payload", "queue"}
    /\ left \in Seq(Connections) /\ delivered \in BOOLEAN
    /\ closing \in {"no", "pending", "subscribers", "document", "done"}
    /\ conn \in [Connections -> {"new", "register", "upgrade", "drain", "send",
                                 "open", "remove", "abandoned", "ended"}]
    /\ sending \in [Connections -> Seq(Revisions \cup {Pong})]
    /\ half \in [Connections -> {"none", "publisher", "thread"}]
    /\ garbled \in [Connections -> BOOLEAN] /\ reset \in [Connections -> BOOLEAN]
    /\ got \in [Connections -> Seq(Revisions)]
    /\ due \in [Connections -> BOOLEAN]
    /\ shown \in [Connections -> 0..MaxRevisions]

(* The URLs of a new session have been printed.                            *)
Init ==
    /\ setting \in Settings
    /\ revision = 0 /\ page = 1 /\ active = TRUE
    /\ document = 0 /\ invalidated = FALSE
    /\ pending = <<>> /\ slots = <<>>
    /\ pc = "bootstrap" /\ left = <<>> /\ delivered = FALSE
    /\ closing = "no"
    /\ conn = [c \in Connections |-> "new"]
    /\ sending = [c \in Connections |-> <<>>]
    /\ half = [c \in Connections |-> "none"]
    /\ garbled = [c \in Connections |-> FALSE]
    /\ reset = [c \in Connections |-> FALSE]
    /\ got = [c \in Connections |-> <<>>]
    /\ due = [c \in Connections |-> FALSE]
    /\ shown = [c \in Connections |-> 0]

(* invalidate_session holds the service's mutex while it calls the         *)
(* transport; publish_revision_event holds event_subscribers while it      *)
(* writes to the subscribers.                                              *)
ServiceIsFree == closing \in {"no", "done"}
SubscribersAreFree == pc \notin {"header", "payload"}

-----------------------------------------------------------------------------
(* Writing to a socket.  A header that lands inside another frame, or      *)
(* before the 101 response, makes the rest of the stream unreadable.       *)

WriteHeader(c, who) ==
    /\ garbled' = [garbled EXCEPT ![c] = @ \/ half[c] # "none" \/ conn[c] = "upgrade"]
    /\ half' = [half EXCEPT ![c] = who]
    /\ UNCHANGED <<got, due>>

(* The connection is lost between the two.                                 *)
Abort(c) ==
    /\ half' = [half EXCEPT ![c] = "none"]
    /\ UNCHANGED <<garbled, got, due>>

WritePayload(c, frame) ==
    /\ half' = [half EXCEPT ![c] = "none"]
    /\ got' = [got EXCEPT ![c] = IF frame = Pong THEN @ ELSE Append(@, frame)]
    /\ due' = [due EXCEPT ![c] = TRUE]
    /\ UNCHANGED garbled

-----------------------------------------------------------------------------
(* The publisher: on_compile, one step per lock.                           *)

PublisherOnly(next) ==
    /\ pc' = next
    /\ UNCHANGED <<closing, threadVars, clientVars>>

(* set_view_state_handler, after the URLs have been printed.               *)
SetHandler ==
    /\ pc = "bootstrap"
    /\ PublisherOnly("idle")
    /\ UNCHANGED <<sessionVars, transportVars, left, delivered, socketVars>>

(* check_publish, after a successful compile.                              *)
Compiled ==
    /\ pc = "idle" /\ ServiceIsFree
    /\ revision < setting.revisions
    /\ active
    /\ PublisherOnly("clamp")
    /\ UNCHANGED <<sessionVars, transportVars, left, delivered, socketVars>>

(* apply_page_fallback                                                     *)
Clamp ==
    /\ pc = "clamp" /\ ServiceIsFree
    /\ page' = IF page > PagesOf[revision + 1] THEN PagesOf[revision + 1] ELSE page
    /\ PublisherOnly("pdf")
    /\ UNCHANGED <<revision, active, transportVars, left, delivered, socketVars>>

(* MUTANT of PublishPdf: the PDF of the revision before is kept.           *)
PublishPdfLate ==
    /\ pc = "pdf"
    /\ document' = revision
    /\ PublisherOnly("advance")
    /\ UNCHANGED <<sessionVars, invalidated, pending, slots, left, delivered, socketVars>>

PublishPdf ==
    /\ pc = "pdf"
    /\ document' = revision + 1
    /\ PublisherOnly("advance")
    /\ UNCHANGED <<sessionVars, invalidated, pending, slots, left, delivered, socketVars>>

AdvanceRevision ==
    /\ pc = "advance" /\ ServiceIsFree
    /\ revision' = revision + 1
    /\ PublisherOnly("check")
    /\ UNCHANGED <<page, active, transportVars, left, delivered, socketVars>>

(* publish_revision_event: check_events_session                            *)
CheckEvents ==
    /\ pc = "check"
    /\ PublisherOnly(IF invalidated THEN "idle" ELSE "lock")
    /\ UNCHANGED <<sessionVars, transportVars, left, delivered, socketVars>>

(* MUTANTS of AfterDelivery: the event is queued whether or not it was     *)
(* delivered; delivery stops at the first subscriber that takes it.        *)
AlwaysQueue(more, done) == IF more THEN "header" ELSE "queue"
StopAtFirst(more, done) ==
    IF more /\ ~done THEN "header" ELSE IF done THEN "idle" ELSE "queue"

(* The publisher goes on with the next subscriber; after the last one the  *)
(* event is queued if nobody has taken it.                                 *)
AfterDelivery(more, done) ==
    IF more THEN "header" ELSE IF done THEN "idle" ELSE "queue"

(* event_subscribers is locked and its streams drained.                    *)
LockSubscribers ==
    /\ pc = "lock"
    /\ left' = slots
    /\ slots' = <<>>
    /\ delivered' = FALSE
    /\ PublisherOnly(AfterDelivery(slots # <<>>, FALSE))
    /\ UNCHANGED <<sessionVars, document, invalidated, pending, socketVars>>

(* ws_write_text to the next subscriber, its first part.  A connection     *)
(* that was reset fails and is dropped.                                    *)
PublishHeader ==
    /\ pc = "header"
    /\ IF reset[Head(left)]
         THEN /\ left' = Tail(left)
              /\ PublisherOnly(AfterDelivery(Len(left) > 1, delivered))
              /\ UNCHANGED socketVars
         ELSE /\ WriteHeader(Head(left), "publisher")
              /\ PublisherOnly("payload")
              /\ UNCHANGED left
    /\ UNCHANGED <<sessionVars, transportVars, delivered>>

PublishPayload ==
    /\ pc = "payload"
    /\ left' = Tail(left)
    /\ IF reset[Head(left)]
         THEN Abort(Head(left)) /\ UNCHANGED <<slots, delivered>>
         ELSE /\ WritePayload(Head(left), revision)
              /\ slots' = Append(slots, Head(left))
              /\ delivered' = TRUE
    /\ PublisherOnly(AfterDelivery(Len(left) > 1, delivered'))
    /\ UNCHANGED <<sessionVars, document, invalidated, pending>>

QueueEvent ==
    /\ pc = "queue"
    /\ pending' = Append(pending, revision)
    /\ PublisherOnly("idle")
    /\ UNCHANGED <<sessionVars, document, invalidated, slots, left,
                   delivered, socketVars>>

-----------------------------------------------------------------------------
(* invalidate_session and notify_session_invalidated, one step per lock.   *)

Closing(next) ==
    /\ closing' = next
    /\ UNCHANGED <<revision, page, publisherVars, threadVars>>

Invalidate ==
    /\ setting.invalidates /\ closing = "no"
    /\ active' = FALSE
    /\ invalidated' = TRUE
    /\ Closing("pending")
    /\ UNCHANGED <<document, pending, slots, socketVars, clientVars>>

ClearPending ==
    /\ closing = "pending"
    /\ pending' = <<>>
    /\ Closing("subscribers")
    /\ UNCHANGED <<active, document, invalidated, slots, socketVars, clientVars>>

(* close_event_subscribers shuts the sockets down on both sides: their     *)
(* threads find them as if the client had reset them.                      *)
CloseSubscribers ==
    /\ closing = "subscribers" /\ SubscribersAreFree
    /\ slots' = <<>>
    /\ reset' = [c \in Connections |-> reset[c] \/ c \in Elements(slots)]
    /\ Closing("document")
    /\ UNCHANGED <<active, document, invalidated, pending, socketVars, shown>>

ClearDocument ==
    /\ closing = "document"
    /\ document' = 0
    /\ Closing("done")
    /\ UNCHANGED <<active, invalidated, pending, slots, socketVars, clientVars>>

-----------------------------------------------------------------------------
(* A connection's thread: handle_events_websocket.                         *)

Goto(c, next) == conn' = [conn EXCEPT ![c] = next]

ThreadOnly == UNCHANGED <<sessionVars, publisherVars, closing, clientVars>>

(* events_session_error for a new connection.                              *)
Ask(c) ==
    /\ conn[c] = "new"
    /\ Goto(c, IF invalidated THEN "ended" ELSE "register")
    /\ ThreadOnly /\ UNCHANGED <<transportVars, sending, socketVars>>

(* MUTANT of IsFull: one more than the limit.                              *)
IsOverfull == Len(slots) > MaxSubscribers

IsFull == Len(slots) >= MaxSubscribers

Register(c) ==
    /\ conn[c] = "register" /\ SubscribersAreFree
    /\ IF IsFull
         THEN Goto(c, "ended") /\ UNCHANGED slots
         ELSE Goto(c, "upgrade") /\ slots' = Append(slots, c)
    /\ ThreadOnly
    /\ UNCHANGED <<document, invalidated, pending, sending, socketVars>>

(* The 101 response; when it fails, the subscriber is removed.             *)
Upgrade(c) ==
    /\ conn[c] = "upgrade"
    /\ Goto(c, IF reset[c] THEN "remove" ELSE "drain")
    /\ due' = [due EXCEPT ![c] = ~reset[c]]
    /\ garbled' = [garbled EXCEPT ![c] = @ \/ half[c] # "none"]
    /\ ThreadOnly /\ UNCHANGED <<transportVars, sending, half, got>>

(* The queued events are taken.                                            *)
Drain(c) ==
    /\ conn[c] = "drain"
    /\ sending' = [sending EXCEPT ![c] = pending]
    /\ pending' = <<>>
    /\ Goto(c, IF pending = <<>> THEN "open" ELSE "send")
    /\ ThreadOnly
    /\ UNCHANGED <<document, invalidated, slots, socketVars>>

(* The frames are written.  A frame that fails ends the thread without     *)
(* remove_event_subscriber.                                                *)
SendHeader(c) ==
    /\ conn[c] = "send" /\ half[c] # "thread"
    /\ IF reset[c]
         THEN /\ Goto(c, "ended")
              /\ sending' = [sending EXCEPT ![c] = <<>>]
              /\ UNCHANGED socketVars
         ELSE WriteHeader(c, "thread") /\ UNCHANGED threadVars
    /\ ThreadOnly /\ UNCHANGED transportVars

SendPayload(c) ==
    /\ conn[c] = "send" /\ half[c] = "thread"
    /\ IF reset[c]
         THEN /\ Abort(c)
              /\ sending' = [sending EXCEPT ![c] = <<>>]
              /\ Goto(c, "ended")
         ELSE /\ WritePayload(c, Head(sending[c]))
              /\ sending' = [sending EXCEPT ![c] = Tail(@)]
              /\ Goto(c, IF Len(sending[c]) > 1 THEN "send" ELSE "open")
    /\ ThreadOnly /\ UNCHANGED transportVars

(* A ping of the client, answered by ws_write_pong.                        *)
Ping(c) ==
    /\ conn[c] = "open" /\ ~reset[c]
    /\ sending' = [sending EXCEPT ![c] = <<Pong>>]
    /\ Goto(c, "send")
    /\ ThreadOnly /\ UNCHANGED <<transportVars, socketVars>>

(* A view-state update for a page of the PDF shown: the handler, when  *)
(* it is set, updates the session; submit_view_update ends the connection  *)
(* when the session is gone.                                               *)
ViewUpdate(c, p) ==
    /\ conn[c] = "open" /\ ~reset[c] /\ ServiceIsFree
    /\ page' = IF pc = "bootstrap" THEN page ELSE p
    /\ Goto(c, IF invalidated THEN "remove" ELSE "open")
    /\ UNCHANGED <<revision, active, publisherVars, closing, clientVars,
                   transportVars, sending, socketVars>>

(* A text frame that is no view-state update ends the thread, without      *)
(* remove_event_subscriber: the socket stays open for the publisher.       *)
BadFrame(c) ==
    /\ conn[c] = "open" /\ ~reset[c]
    /\ Goto(c, "abandoned")
    /\ ThreadOnly /\ UNCHANGED <<transportVars, sending, socketVars>>

(* A close frame, or the end of the stream.                                *)
Close(c) ==
    /\ conn[c] = "open"
    /\ Goto(c, "remove")
    /\ ThreadOnly /\ UNCHANGED <<transportVars, sending, socketVars>>

(* MUTANT of Others: nothing is removed.                                   *)
Everyone(c) == slots

(* remove_event_subscriber compares addresses.  A connection has one entry *)
(* at most; one that was reset has no peer address any more, so its entry  *)
(* stays.                                                                  *)
Others(c) ==
    LET place == CHOOSE i \in DOMAIN slots : slots[i] = c
    IN IF reset[c] \/ c \notin Elements(slots)
         THEN slots
         ELSE SubSeq(slots, 1, place - 1) \o SubSeq(slots, place + 1, Len(slots))

Remove(c) ==
    /\ conn[c] = "remove" /\ SubscribersAreFree
    /\ slots' = Others(c)
    /\ Goto(c, "ended")
    /\ ThreadOnly
    /\ UNCHANGED <<document, invalidated, pending, sending, socketVars>>

-----------------------------------------------------------------------------
(* The clients.                                                            *)

(* The client reads what has arrived and fetches the document:             *)
(* serve_document.                                                         *)
Fetch(c) ==
    /\ shown' = [shown EXCEPT ![c] = IF invalidated \/ document = 0 THEN @ ELSE document]
    /\ due' = [due EXCEPT ![c] = FALSE]
    /\ UNCHANGED <<sessionVars, transportVars, publisherVars, closing,
                   threadVars, half, garbled, got, reset>>

(* The client resets the connection.                                       *)
Reset(c) ==
    /\ conn[c] \notin {"new", "ended"}
    /\ reset' = [reset EXCEPT ![c] = TRUE]
    /\ UNCHANGED <<sessionVars, transportVars, publisherVars, closing,
                   threadVars, socketVars, shown>>

-----------------------------------------------------------------------------
Publisher ==
    \/ SetHandler \/ Compiled \/ Clamp \/ PublishPdf
    \/ AdvanceRevision \/ CheckEvents \/ LockSubscribers \/ PublishHeader
    \/ PublishPayload \/ QueueEvent

Invalidation == Invalidate \/ ClearPending \/ CloseSubscribers \/ ClearDocument

Thread(c) ==
    \/ Ask(c) \/ Register(c) \/ Upgrade(c) \/ Drain(c) \/ SendHeader(c)
    \/ SendPayload(c) \/ Ping(c) \/ BadFrame(c) \/ Close(c) \/ Remove(c)
    \/ shown[c] # 0 /\ \E p \in 1..PagesOf[shown[c]] : ViewUpdate(c, p)

Next ==
    /\ UNCHANGED setting
    /\ \/ Publisher
       \/ Invalidation
       \/ \E c \in setting.clients : Thread(c) \/ Fetch(c) \/ Reset(c)

Spec == Init /\ [][Next]_vars

-----------------------------------------------------------------------------
(* Properties.                                                             *)

Quiet == pc = "idle" /\ closing = "no"
Serving(c) == conn[c] = "open" /\ ~reset[c] /\ ~garbled[c]

(* A client that fetches the document once it has the 101 response, and    *)
(* again after every frame, shows the newest PDF whenever nothing is under *)
(* way: no order of registration, publication and delivery loses it.  (It  *)
(* must not rely on the queued events: see QueuedEventsAreDrained.)        *)
FetchingClientIsCurrent ==
    \A c \in Connections :
      Quiet /\ Serving(c) /\ ~due[c] => shown[c] = document

(* No connection gets the event of a revision twice, however registering,  *)
(* draining the queue and publishing interleave.                           *)
AtMostOnce ==
    \A c \in Connections : \A i, j \in DOMAIN got[c] :
      got[c][i] = got[c][j] => i = j

(* No event runs ahead of its PDF: a client that fetches because of it     *)
(* gets that revision or a later one.                                      *)
DocumentBeforeEvent ==
    ~invalidated =>
      \A c \in Connections :
        \A k \in Elements(got[c]) \cup Elements(pending) : k <= document

(* A connection whose thread has ended keeps its place among the           *)
(* MaxSubscribers only if it was reset or sent a frame that is no          *)
(* view-state update: an orderly close always gives the place back.        *)
ClosedGivesPlaceBack ==
    \A c \in Elements(slots) : conn[c] = "ended" => reset[c]

(* What the test at loopback_transport.rs:1495 shows for one order of      *)
(* steps: an event queued for want of a subscriber goes to the client that *)
(* connects.  So once a client is served the queue is empty.               *)
QueuedEventsAreDrained ==
    Quiet /\ (\E c \in Connections : Serving(c)) => pending = <<>>

(* domain_model.md:1803 has publication in the order of the compiles, so a *)
(* client is told of revisions in increasing order.                        *)
RevisionsInOrder ==
    \A c \in Connections : \A i, j \in DOMAIN got[c] :
      i < j /\ ~garbled[c] => got[c][i] < got[c][j]

(* requirements.md:874: a connected client gets the notification, so its   *)
(* stream is one it can read.                                              *)
StreamIsReadable == \A c \in Connections : ~garbled[c]

(* requirements.md:876: once an update is done and every client shows it,  *)
(* the page kept for the session is one the PDF has.                       *)
PageIsInDocument ==
    Quiet /\ document # 0 /\ (\A c \in Connections : ~due[c]) =>
      page <= PagesOf[document]

(* requirements.md:877: an expired session has no connected client.        *)
ExpiredIsClosed ==
    closing = "done" => \A c \in Connections : conn[c] = "open" => reset[c]
=============================================================================

-------------------------- MODULE PreviewServer_proofs --------------------------
(***************************************************************************)
(* Proofs about PreviewServer: for any number of clients, places and       *)
(* revisions, no connection is told of a revision twice or before its PDF  *)
(* is there, an orderly close gives the place back, and a client that      *)
(* fetches after every frame shows the newest PDF when nothing is under    *)
(* way.                                                                    *)
(***************************************************************************)
EXTENDS PreviewServer, SequenceTheorems, TLAPS

-----------------------------------------------------------------------------
(* Sequences without duplicates.                                           *)

IsOnce(s) == \A i, j \in DOMAIN s : s[i] = s[j] => i = j

(* What appending does: nothing in the code, a fact about subscriber lists *)
(* and queues.                                                             *)
LEMMA Appended ==
    ASSUME NEW S, NEW s \in Seq(S), NEW x \in S
    PROVE  /\ Append(s, x) \in Seq(S)
           /\ Len(Append(s, x)) = Len(s) + 1
           /\ Elements(Append(s, x)) = Elements(s) \cup {x}
           /\ IsOnce(s) /\ x \notin Elements(s) => IsOnce(Append(s, x))
           /\ Append(s, x) # <<>>
<1> DEFINE t == Append(s, x)
<1>1. /\ t \in Seq(S) /\ Len(t) = Len(s) + 1 /\ t # <<>>
      /\ DOMAIN t = 1 .. Len(s) + 1 /\ DOMAIN s = 1 .. Len(s) /\ Len(s) \in Nat
      /\ \A i \in 1 .. Len(s) : t[i] = s[i]
      /\ t[Len(s) + 1] = x
  <2>1. Append(s, x) # <<>>
    BY AppendProperties
  <2> QED
    BY <2>1
<1> HIDE DEF t
<1>2. Elements(t) = Elements(s) \cup {x}
  BY <1>1 DEF Elements
<1>3. ASSUME IsOnce(s), x \notin Elements(s) PROVE IsOnce(t)
  BY <1>1, <1>3 DEF Elements, IsOnce
<1> QED
  BY <1>1, <1>2, <1>3 DEF t

(* What is left when the first entry is taken.                             *)
LEMMA Taken ==
    ASSUME NEW S, NEW s \in Seq(S), s # <<>>
    PROVE  /\ Head(s) \in S
           /\ Head(s) \in Elements(s)
           /\ Tail(s) \in Seq(S)
           /\ Len(Tail(s)) = Len(s) - 1
           /\ Tail(s) # <<>> <=> Len(s) > 1
           /\ Elements(s) = Elements(Tail(s)) \cup {Head(s)}
           /\ IsOnce(s) => IsOnce(Tail(s)) /\ Head(s) \notin Elements(Tail(s))
<1> DEFINE t == Tail(s)
<1>1. /\ t \in Seq(S) /\ Len(t) = Len(s) - 1 /\ Len(s) \in Nat \ {0}
      /\ DOMAIN t = 1 .. Len(s) - 1 /\ DOMAIN s = 1 .. Len(s)
      /\ \A i \in 1 .. Len(s) - 1 : t[i] = s[i + 1]
      /\ Head(s) = s[1] /\ Head(s) \in S
  OBVIOUS
<1> HIDE DEF t
<1>2. t # <<>> <=> Len(s) > 1
  <2>1. t = <<>> <=> Len(t) = 0
    BY <1>1
  <2> QED
    BY <1>1, <2>1
<1>3. Elements(t) \cup {s[1]} \subseteq Elements(s)
  <2>1. s[1] \in Elements(s)
    BY <1>1 DEF Elements
  <2>2. ASSUME NEW i \in DOMAIN t PROVE t[i] \in Elements(s)
    <3>1. i + 1 \in DOMAIN s /\ t[i] = s[i + 1]
      BY <1>1
    <3> QED
      BY <3>1 DEF Elements
  <2> QED
    BY <2>1, <2>2 DEF Elements
<1>4. ASSUME NEW i \in DOMAIN s PROVE s[i] \in Elements(t) \cup {s[1]}
  <2>1. CASE i = 1
    BY <2>1
  <2>2. CASE i # 1
    <3>1. i - 1 \in DOMAIN t /\ t[i - 1] = s[i]
      BY <1>1, <2>2
    <3> QED
      BY <3>1 DEF Elements
  <2> QED
    BY <2>1, <2>2
<1>5. Elements(s) = Elements(t) \cup {s[1]}
  BY <1>3, <1>4 DEF Elements
<1>6. ASSUME IsOnce(s) PROVE IsOnce(t) /\ s[1] \notin Elements(t)
  <2>1. ASSUME NEW i \in DOMAIN t PROVE t[i] # s[1]
    <3>1. i + 1 \in DOMAIN s /\ t[i] = s[i + 1] /\ 1 \in DOMAIN s /\ i + 1 # 1
      BY <1>1
    <3> QED
      BY <1>6, <3>1 DEF IsOnce
  <2>2. ASSUME NEW i \in DOMAIN t, NEW j \in DOMAIN t, t[i] = t[j] PROVE i = j
    <3>1. /\ i + 1 \in DOMAIN s /\ t[i] = s[i + 1]
          /\ j + 1 \in DOMAIN s /\ t[j] = s[j + 1]
          /\ i \in Nat /\ j \in Nat
      BY <1>1
    <3>2. i + 1 = j + 1
      BY <1>6, <2>2, <3>1 DEF IsOnce
    <3> QED
      BY <3>1, <3>2
  <2> QED
    BY <2>1, <2>2 DEF Elements, IsOnce
<1> QED
  BY <1>1, <1>2, <1>3, <1>5, <1>6 DEF t

(* The empty sequence.                                                     *)
LEMMA Empty ==
    /\ Elements(<<>>) = {} /\ IsOnce(<<>>) /\ Len(<<>>) = 0
    /\ \A S : <<>> \in Seq(S)
    /\ \A S : \A s \in Seq(S) : Len(s) \in Nat /\ (Elements(s) = {} <=> s = <<>>)
    /\ \A S : \A s \in Seq(S) : Elements(s) \subseteq S
<1>1. Elements(<<>>) = {} /\ IsOnce(<<>>) /\ Len(<<>>) = 0
  BY DEF Elements, IsOnce
<1>2. ASSUME NEW S
      PROVE  /\ <<>> \in Seq(S)
             /\ \A s \in Seq(S) : Len(s) \in Nat /\ (Elements(s) = {} <=> s = <<>>)
             /\ \A s \in Seq(S) : Elements(s) \subseteq S
  <2>1. \A s \in Seq(S) : s = <<>> <=> Len(s) = 0
    BY EmptySeq
  <2>2. \A s \in Seq(S) : Elements(s) = {} <=> Len(s) = 0
    BY DEF Elements
  <2> QED
    BY <2>1, <2>2, EmptySeq DEF Elements
<1> QED
  BY <1>1, <1>2

(* remove_event_subscriber: the others stay, each once.                    *)
LEMMA Removed ==
    ASSUME NEW c \in Connections, slots \in Seq(Connections), IsOnce(slots)
    PROVE  /\ Others(c) \in Seq(Connections)
           /\ Len(Others(c)) <= Len(slots)
           /\ Elements(Others(c)) \subseteq Elements(slots)
           /\ IsOnce(Others(c))
           /\ c \in Elements(Others(c)) => reset[c]
           /\ \A d \in Elements(slots) : d # c => d \in Elements(Others(c))
<1>1. CASE reset[c] \/ c \notin Elements(slots)
  BY <1>1 DEF Others
<1>2. CASE ~ reset[c] /\ c \in Elements(slots)
  <2> DEFINE place == CHOOSE i \in DOMAIN slots : slots[i] = c
             before == SubSeq(slots, 1, place - 1)
             after == SubSeq(slots, place + 1, Len(slots))
  <2>1. place \in 1 .. Len(slots) /\ slots[place] = c
    BY <1>2 DEF Elements
  <2>2. Others(c) = before \o after
    BY <1>2 DEF Others
  <2> HIDE DEF place
  <2>3. /\ before \in Seq(Connections) /\ Len(before) = place - 1
        /\ \A i \in 1 .. place - 1 : before[i] = slots[i]
    BY <2>1
  <2>4. /\ after \in Seq(Connections) /\ Len(after) = Len(slots) - place
        /\ \A i \in 1 .. Len(slots) - place : after[i] = slots[place + i]
    BY <2>1
  <2> HIDE DEF before, after
  <2>5. /\ Others(c) \in Seq(Connections)
        /\ Len(Others(c)) = Len(slots) - 1
        /\ \A i \in 1 .. Len(slots) - 1 :
             Others(c)[i] = IF i < place THEN slots[i] ELSE slots[i + 1]
    <3> DEFINE rest == before \o after
    <3>1. /\ rest \in Seq(Connections)
          /\ Len(rest) = Len(before) + Len(after)
          /\ \A i \in 1 .. Len(before) + Len(after) :
               rest[i] = IF i <= Len(before) THEN before[i] ELSE after[i - Len(before)]
      <4>1. before \in Seq(Connections) /\ after \in Seq(Connections)
        BY <2>3, <2>4
      <4> QED
        BY <4>1
    <3> HIDE DEF rest
    <3>2. Len(slots) \in Nat
      OBVIOUS
    <3>3. Len(rest) = Len(slots) - 1
      BY <2>1, <2>3, <2>4, <3>1, <3>2
    <3>4. ASSUME NEW i \in 1 .. Len(slots) - 1
          PROVE rest[i] = IF i < place THEN slots[i] ELSE slots[i + 1]
      <4>1. CASE i < place
        <5>1. /\ i \in 1 .. Len(before) + Len(after) /\ i <= Len(before)
              /\ i \in 1 .. place - 1
          BY <2>1, <2>3, <2>4, <3>2, <4>1
        <5>2. rest[i] = before[i]
          BY <3>1, <5>1
        <5> QED
          BY <2>3, <4>1, <5>1, <5>2
      <4>2. CASE i >= place
        <5>1. /\ i - (place - 1) \in 1 .. Len(slots) - place
              /\ place + (i - (place - 1)) = i + 1
          BY <2>1, <3>2, <4>2
        <5>2. rest[i] = after[i - (place - 1)]
          <6>1. i \in 1 .. Len(before) + Len(after) /\ ~ (i <= Len(before))
            BY <2>1, <2>3, <2>4, <3>2, <4>2
          <6>2. rest[i] = after[i - Len(before)]
            BY <3>1, <6>1
          <6> QED
            BY <2>3, <6>2
        <5> QED
          BY <2>4, <4>2, <5>1, <5>2, <2>1, <3>2
      <4> QED
        BY <2>1, <3>2, <4>1, <4>2
    <3> QED
      BY <2>2, <3>1, <3>3, <3>4 DEF rest
  <2>6. Elements(Others(c)) \subseteq Elements(slots) \ {c}
    BY <2>1, <2>5 DEF Elements, IsOnce
  <2>7. IsOnce(Others(c))
    <3>1. SUFFICES ASSUME NEW i \in 1 .. Len(slots) - 1, NEW j \in 1 .. Len(slots) - 1,
                          Others(c)[i] = Others(c)[j]
                   PROVE  i = j
      BY <2>5 DEF IsOnce
    <3> DEFINE old(k) == IF k < place THEN k ELSE k + 1
    <3>2. /\ old(i) \in DOMAIN slots /\ slots[old(i)] = Others(c)[i]
          /\ old(j) \in DOMAIN slots /\ slots[old(j)] = Others(c)[j]
      BY <2>1, <2>5
    <3>3. old(i) = old(j)
      BY <3>1, <3>2 DEF IsOnce
    <3> QED
      BY <2>1, <3>3
  <2>8. ASSUME NEW d \in Elements(slots), d # c PROVE d \in Elements(Others(c))
    <3>1. PICK i \in 1 .. Len(slots) : slots[i] = d
      BY DEF Elements
    <3>2. CASE i < place
      BY <2>1, <2>5, <3>1, <3>2 DEF Elements
    <3>3. CASE i > place
      <4>1. i - 1 \in 1 .. Len(slots) - 1 /\ Others(c)[i - 1] = d
        BY <2>1, <2>5, <3>1, <3>3
      <4> QED
        BY <2>5, <4>1 DEF Elements
    <3> QED
      BY <2>1, <2>8, <3>1, <3>2, <3>3
  <2> QED
    BY <2>5, <2>6, <2>7, <2>8
<1> QED
  BY <1>1, <1>2

-----------------------------------------------------------------------------
(* The invariant.                                                          *)

Subscribed == Elements(slots) \cup Elements(left)
Delivering == pc \in {"header", "payload"}
Connected(c) == conn[c] \in {"upgrade", "drain", "send", "open"} /\ ~reset[c]
Told(c) == Elements(got[c]) \cup Elements(sending[c])

(* A place is taken once, between the registration of a connection and its *)
(* end, and a connection that is served has one.                           *)
PlacesInv ==
    /\ IsOnce(slots) /\ IsOnce(left)
    /\ Elements(slots) \cap Elements(left) = {}
    /\ Delivering <=> left # <<>>
    /\ Len(slots) + Len(left) <= MaxSubscribers
    /\ \A c \in Connections :
         /\ conn[c] \in {"new", "register"} => c \notin Subscribed
         /\ conn[c] = "ended" /\ c \in Subscribed => reset[c]
         /\ Connected(c) => c \in Subscribed

(* A revision is in the queue, on its way to a client or known to it, and  *)
(* in one of these places only; the one being published is where the       *)
(* publisher has not been yet.                                             *)
QueueInv ==
    /\ IsOnce(pending)
    /\ \A k \in Elements(pending) : k <= revision
    /\ pc \in {"check", "lock", "header", "payload", "queue"} =>
         revision > 0 /\ revision \notin Elements(pending)
    /\ pc \in {"clamp", "pdf", "advance"} => revision < MaxRevisions

ToldInv(c) ==
    /\ IsOnce(got[c]) /\ IsOnce(sending[c])
    /\ Elements(got[c]) \cap Elements(sending[c]) = {}
    /\ Elements(pending) \cap Told(c) = {}
    /\ \A k \in Told(c) : k # Pong => k <= revision
    /\ conn[c] = "send" <=> sending[c] # <<>>
    /\ pc \in {"check", "lock", "queue"} => revision \notin Told(c)
    /\ Delivering =>
         /\ revision \notin Elements(sending[c])
         /\ revision \in Elements(got[c]) => delivered /\ c \notin Elements(left)

EventsInv == QueueInv /\ \A c \in Connections : ToldInv(c)

(* The document is that of the revision, or of the next one between two    *)
(* locks; a client that has fetched it since its last frame shows it, or   *)
(* the publisher is still to write to it.                                  *)
DocumentInv ==
    /\ invalidated <=> closing # "no"
    /\ ~invalidated =>
         /\ document = IF pc = "advance" THEN revision + 1 ELSE revision
         /\ \A c \in Connections :
              /\ document = 0 => shown[c] = 0
              /\ conn[c] \in {"drain", "send", "open"} /\ ~reset[c] /\ ~due[c] =>
                   \/ shown[c] = document
                   \/ pc \in {"advance", "check", "lock"}
                   \/ c \in Elements(left)

Inv == setting \in Settings /\ TypeOK /\ PlacesInv /\ EventsInv /\ DocumentInv

(* A setting has places, and clients that are connections.                 *)
LEMMA SettingType ==
    ASSUME setting \in Settings
    PROVE  /\ MaxSubscribers \in Nat \ {0}
           /\ setting.revisions \in 0..MaxRevisions
           /\ setting.clients \subseteq Connections
  BY SettingsAssumption DEF MaxSubscribers

THEOREM InitInv == Init => Inv
<1> SUFFICES ASSUME Init PROVE Inv
  OBVIOUS
<1>1. setting \in Settings /\ MaxSubscribers \in Nat \ {0}
  BY SettingType DEF Init
<1>2. TypeOK
  <2>1. /\ <<>> \in Seq(Revisions) /\ <<>> \in Seq(Connections)
        /\ <<>> \in Seq(Revisions \cup {Pong}) /\ Len(<<>>) <= MaxSubscribers
    BY <1>1
  <2>2. 0 \in 0..MaxRevisions
    BY BoundsAssumption
  <2> QED
    BY <2>1, <2>2 DEF Init, TypeOK
<1>3. PlacesInv
  BY <1>1, Empty DEF Init, PlacesInv, Subscribed, Delivering, Connected
<1>4. EventsInv
  BY Empty DEF Init, EventsInv, QueueInv, ToldInv, Told, Delivering
<1>5. DocumentInv
  BY DEF Init, DocumentInv
<1> QED
  BY <1>1, <1>2, <1>3, <1>4, <1>5 DEF Inv

(* A page number of some revision, or the first.                           *)
PageNumbers == {1} \cup UNION {1..PagesOf[r] : r \in Revisions}

(* The pages a client can be shown, and the last of them, are page numbers: *)
(* apply_page_fallback.                                                    *)
LEMMA PageNumber ==
    ASSUME NEW r \in Revisions
    PROVE  /\ PagesOf[r] \in PageNumbers
           /\ 1..PagesOf[r] \subseteq PageNumbers
<1>1. PagesOf[r] \in Nat \ {0}
  BY PagesAssumption DEF Revisions
<1>2. PagesOf[r] \in 1..PagesOf[r]
  BY <1>1
<1> QED
  BY <1>2 DEF PageNumbers

(* Every step keeps the types.                                             *)
LEMMA TypeStep == Inv /\ [Next]_vars => TypeOK'
<1> SUFFICES ASSUME Inv, [Next]_vars PROVE TypeOK'
  OBVIOUS
<1>1. /\ setting' = setting /\ MaxSubscribers' = MaxSubscribers
      /\ MaxSubscribers \in Nat \ {0} /\ setting.revisions \in 0..MaxRevisions
      /\ setting.clients \subseteq Connections
  BY SettingType DEF Inv, Next, vars, MaxSubscribers
<1>2. TypeOK /\ PlacesInv /\ EventsInv
  BY DEF Inv
<1>3. CASE SetHandler
  BY <1>1, <1>2, <1>3
     DEF SetHandler, PublisherOnly, threadVars, clientVars, sessionVars,
         transportVars, socketVars, TypeOK
<1>4. CASE Compiled
  BY <1>1, <1>2, <1>4
     DEF Compiled, PublisherOnly, threadVars, clientVars, sessionVars,
         transportVars, socketVars, TypeOK
<1>5. CASE Clamp
  <2>1. revision + 1 \in Revisions
    BY <1>2, <1>5, BoundsAssumption DEF Clamp, TypeOK, EventsInv, QueueInv, Revisions
  <2>2. PagesOf[revision + 1] \in PageNumbers
    BY <2>1, PageNumber
  <2>3. page' \in PageNumbers
    BY <1>2, <1>5, <2>2 DEF Clamp, TypeOK, PageNumbers
  <2> QED
    BY <1>1, <1>2, <1>5, <2>3
       DEF Clamp, PublisherOnly, threadVars, clientVars, transportVars,
           socketVars, TypeOK, Revisions, PageNumbers
<1>6. CASE PublishPdf
  <2>1. revision + 1 \in 0..MaxRevisions
    BY <1>2, <1>6, BoundsAssumption DEF PublishPdf, TypeOK, EventsInv, QueueInv
  <2> QED
    BY <1>1, <1>2, <1>6, <2>1
       DEF PublishPdf, PublisherOnly, threadVars, clientVars, sessionVars,
           socketVars, TypeOK, Revisions
<1>7. CASE AdvanceRevision
  <2>1. revision + 1 \in 0..MaxRevisions
    BY <1>2, <1>7, BoundsAssumption DEF AdvanceRevision, TypeOK, EventsInv, QueueInv
  <2> QED
    BY <1>1, <1>2, <1>7, <2>1
       DEF AdvanceRevision, PublisherOnly, threadVars, clientVars,
           transportVars, socketVars, TypeOK, Revisions
<1>8. CASE CheckEvents
  BY <1>1, <1>2, <1>8
     DEF CheckEvents, PublisherOnly, threadVars, clientVars, sessionVars,
         transportVars, socketVars, TypeOK
<1>9. CASE LockSubscribers
  <2>1. <<>> \in Seq(Connections) /\ Len(<<>>) <= MaxSubscribers
    BY <1>1, Empty
  <2> QED
    BY <1>1, <1>2, <1>9, <2>1
       DEF LockSubscribers, PublisherOnly, threadVars, clientVars,
           sessionVars, socketVars, AfterDelivery, TypeOK, Revisions
<1>10. CASE PublishHeader
  <2>1. left # <<>> /\ left \in Seq(Connections)
    BY <1>2, <1>10 DEF PublishHeader, TypeOK, PlacesInv, Delivering
  <2>2. Head(left) \in Connections /\ Tail(left) \in Seq(Connections)
    BY <2>1, Taken
  <2>3. /\ half' \in [Connections -> {"none", "publisher", "thread"}]
        /\ garbled' \in [Connections -> BOOLEAN]
    BY <1>2, <1>10, <2>2 DEF PublishHeader, WriteHeader, socketVars, TypeOK
  <2>4. left' \in Seq(Connections) /\ pc' \in {"header", "payload", "idle", "queue"}
    BY <1>2, <1>10, <2>2 DEF PublishHeader, PublisherOnly, AfterDelivery, TypeOK
  <2>5. got' = got /\ due' = due
    BY <1>10 DEF PublishHeader, WriteHeader, socketVars
  <2> QED
    BY <1>1, <1>2, <1>10, <2>3, <2>4, <2>5
       DEF PublishHeader, PublisherOnly, threadVars, clientVars, sessionVars,
           transportVars, TypeOK
<1>11. CASE PublishPayload
  <2>1. left # <<>> /\ left \in Seq(Connections)
    BY <1>2, <1>11 DEF PublishPayload, TypeOK, PlacesInv, Delivering
  <2>2. Head(left) \in Connections /\ Tail(left) \in Seq(Connections)
    BY <2>1, Taken
  <2>3. Append(slots, Head(left)) \in Seq(Connections) /\ Len(Append(slots, Head(left))) <= MaxSubscribers
    <3>1. Len(left) \in Nat \ {0}
      BY <2>1
    <3>2. Len(slots) \in Nat /\ slots \in Seq(Connections)
      BY <1>2 DEF TypeOK
    <3>3. Append(slots, Head(left)) \in Seq(Connections) /\ Len(Append(slots, Head(left))) = Len(slots) + 1
      BY <2>2, <3>2, Appended
    <3> QED
      BY <1>1, <1>2, <3>1, <3>2, <3>3 DEF PlacesInv
  <2>4. Append(got[Head(left)], revision) \in Seq(Revisions)
    <3>1. revision \in Revisions /\ got[Head(left)] \in Seq(Revisions)
      BY <1>2, <1>11, <2>2, BoundsAssumption
         DEF PublishPayload, TypeOK, EventsInv, QueueInv, Revisions
    <3> QED
      BY <3>1, Appended
  <2>5. revision # Pong
    BY <1>2, PongAssumption DEF TypeOK
  <2>6. /\ half' \in [Connections -> {"none", "publisher", "thread"}]
        /\ got' \in [Connections -> Seq(Revisions)]
        /\ due' \in [Connections -> BOOLEAN] /\ garbled' = garbled
    BY <1>2, <1>11, <2>2, <2>4, <2>5 DEF PublishPayload, WritePayload, Abort, TypeOK
  <2>7. left' \in Seq(Connections) /\ pc' \in {"header", "idle", "queue"}
    BY <1>2, <1>11, <2>2 DEF PublishPayload, PublisherOnly, AfterDelivery
  <2>8. slots' \in Seq(Connections) /\ Len(slots') <= MaxSubscribers /\ delivered' \in BOOLEAN
    BY <1>2, <1>11, <2>3 DEF PublishPayload, TypeOK
  <2> QED
    BY <1>1, <1>2, <1>11, <2>6, <2>7, <2>8
       DEF PublishPayload, PublisherOnly, threadVars, clientVars,
           sessionVars, TypeOK
<1>12. CASE QueueEvent
  <2>1. revision \in Revisions /\ pending \in Seq(Revisions)
    BY <1>2, <1>12, BoundsAssumption
       DEF QueueEvent, TypeOK, EventsInv, QueueInv, Revisions
  <2>2. Append(pending, revision) \in Seq(Revisions)
    BY <2>1, Appended
  <2> QED
    BY <1>1, <1>2, <1>12, <2>2
       DEF QueueEvent, PublisherOnly, threadVars, clientVars, sessionVars,
           socketVars, TypeOK
<1>13. CASE Invalidate
  BY <1>1, <1>2, <1>13
     DEF Invalidate, Closing, publisherVars, threadVars, socketVars,
         clientVars, TypeOK
<1>14. CASE ClearPending
  BY <1>1, <1>2, <1>14
     DEF ClearPending, Closing, publisherVars, threadVars, socketVars,
         clientVars, TypeOK
<1>15. CASE CloseSubscribers
  <2>1. slots' \in Seq(Connections) /\ Len(slots') <= MaxSubscribers'
    BY <1>1, <1>15, Empty DEF CloseSubscribers
  <2>2. reset' \in [Connections -> BOOLEAN] /\ shown' = shown
    BY <1>2, <1>15 DEF CloseSubscribers, TypeOK
  <2>3. /\ closing' \in {"no", "pending", "subscribers", "document", "done"}
        /\ revision' = revision /\ page' = page /\ active' = active
        /\ document' = document /\ invalidated' = invalidated /\ pending' = pending
    BY <1>15 DEF CloseSubscribers, Closing
  <2>4. /\ pc' = pc /\ left' = left /\ delivered' = delivered
        /\ conn' = conn /\ sending' = sending
        /\ half' = half /\ garbled' = garbled /\ got' = got /\ due' = due
    BY <1>15 DEF CloseSubscribers, Closing, publisherVars, threadVars, socketVars
  <2> QED
    BY <1>2, <2>1, <2>2, <2>3, <2>4 DEF TypeOK
<1>16. CASE ClearDocument
  BY <1>1, <1>2, <1>16, BoundsAssumption
     DEF ClearDocument, Closing, publisherVars, threadVars, socketVars,
         clientVars, TypeOK
<1>17. ASSUME NEW c \in Connections, Ask(c) PROVE TypeOK'
  BY <1>1, <1>2, <1>17
     DEF Ask, Goto, ThreadOnly, sessionVars, publisherVars, clientVars,
         transportVars, socketVars, TypeOK
<1>18. ASSUME NEW c \in Connections, Register(c) PROVE TypeOK'
  <2>1. Len(slots) \in Nat /\ slots \in Seq(Connections) /\ Len(slots) <= MaxSubscribers
    BY <1>2 DEF TypeOK
  <2>2. Append(slots, c) \in Seq(Connections) /\ Len(Append(slots, c)) = Len(slots) + 1
    BY <2>1, Appended
  <2>3. slots' \in Seq(Connections) /\ Len(slots') <= MaxSubscribers
    BY <1>1, <1>18, <2>1, <2>2 DEF Register, IsFull
  <2> QED
    BY <1>1, <1>2, <1>18, <2>3
       DEF Register, Goto, ThreadOnly, sessionVars, publisherVars,
           clientVars, socketVars, TypeOK
<1>19. ASSUME NEW c \in Connections, Upgrade(c) PROVE TypeOK'
  BY <1>1, <1>2, <1>19
     DEF Upgrade, Goto, ThreadOnly, sessionVars, publisherVars, clientVars,
         transportVars, TypeOK
<1>20. ASSUME NEW c \in Connections, Drain(c) PROVE TypeOK'
  <2>1. pending \in Seq(Revisions \cup {Pong}) /\ <<>> \in Seq(Revisions)
    BY <1>2, Empty DEF TypeOK
  <2> QED
    BY <1>1, <1>2, <1>20, <2>1
       DEF Drain, Goto, ThreadOnly, sessionVars, publisherVars, clientVars,
           socketVars, TypeOK
<1>21. ASSUME NEW c \in Connections, SendHeader(c) PROVE TypeOK'
  <2>1. <<>> \in Seq(Revisions \cup {Pong})
    BY Empty
  <2>2. /\ half' \in [Connections -> {"none", "publisher", "thread"}]
        /\ garbled' \in [Connections -> BOOLEAN] /\ got' = got /\ due' = due
    BY <1>2, <1>21 DEF SendHeader, WriteHeader, socketVars, TypeOK
  <2>3. /\ sending' \in [Connections -> Seq(Revisions \cup {Pong})]
        /\ conn' \in [Connections -> {"new", "register", "upgrade", "drain", "send",
                                     "open", "remove", "abandoned", "ended"}]
    BY <1>2, <1>21, <2>1 DEF SendHeader, Goto, threadVars, TypeOK
  <2> QED
    BY <1>1, <1>2, <1>21, <2>2, <2>3
       DEF SendHeader, ThreadOnly, sessionVars, publisherVars, clientVars,
           transportVars, TypeOK
<1>22. ASSUME NEW c \in Connections, SendPayload(c) PROVE TypeOK'
  <2>1. /\ sending[c] \in Seq(Revisions \cup {Pong}) /\ sending[c] # <<>>
        /\ got[c] \in Seq(Revisions)
    BY <1>2, <1>22 DEF SendPayload, TypeOK, EventsInv, ToldInv
  <2>2. /\ Head(sending[c]) \in Revisions \cup {Pong}
        /\ Tail(sending[c]) \in Seq(Revisions \cup {Pong})
        /\ <<>> \in Seq(Revisions \cup {Pong})
    BY <2>1, Taken, Empty
  <2>3. Head(sending[c]) # Pong => Append(got[c], Head(sending[c])) \in Seq(Revisions)
    BY <2>1, <2>2, Appended
  <2>4. /\ half' \in [Connections -> {"none", "publisher", "thread"}]
        /\ got' \in [Connections -> Seq(Revisions)]
        /\ due' \in [Connections -> BOOLEAN] /\ garbled' = garbled
    BY <1>2, <1>22, <2>3 DEF SendPayload, WritePayload, Abort, TypeOK
  <2>5. /\ sending' \in [Connections -> Seq(Revisions \cup {Pong})]
        /\ conn' \in [Connections -> {"new", "register", "upgrade", "drain", "send",
                                     "open", "remove", "abandoned", "ended"}]
    BY <1>2, <1>22, <2>2 DEF SendPayload, Goto, TypeOK
  <2> QED
    BY <1>1, <1>2, <1>22, <2>4, <2>5
       DEF SendPayload, ThreadOnly, sessionVars, publisherVars, clientVars,
           transportVars, TypeOK
<1>23. ASSUME NEW c \in Connections, Ping(c) PROVE TypeOK'
  <2>1. <<Pong>> \in Seq(Revisions \cup {Pong})
    OBVIOUS
  <2> QED
    BY <1>1, <1>2, <1>23, <2>1
       DEF Ping, Goto, ThreadOnly, sessionVars, publisherVars, clientVars,
           transportVars, socketVars, TypeOK
<1>24. ASSUME NEW c \in Connections, BadFrame(c) PROVE TypeOK'
  BY <1>1, <1>2, <1>24
     DEF BadFrame, Goto, ThreadOnly, sessionVars, publisherVars, clientVars,
         transportVars, socketVars, TypeOK
<1>25. ASSUME NEW c \in Connections, Close(c) PROVE TypeOK'
  BY <1>1, <1>2, <1>25
     DEF Close, Goto, ThreadOnly, sessionVars, publisherVars, clientVars,
         transportVars, socketVars, TypeOK
<1>26. ASSUME NEW c \in Connections, Remove(c) PROVE TypeOK'
  <2>1. slots \in Seq(Connections) /\ IsOnce(slots) /\ Len(slots) \in Nat /\ Len(slots) <= MaxSubscribers
    BY <1>2 DEF TypeOK, PlacesInv
  <2>2. Others(c) \in Seq(Connections) /\ Len(Others(c)) \in Nat /\ Len(Others(c)) <= Len(slots)
    BY <2>1, Removed
  <2>3. slots' \in Seq(Connections) /\ Len(slots') <= MaxSubscribers
    BY <1>1, <1>26, <2>1, <2>2 DEF Remove
  <2> QED
    BY <1>1, <1>2, <1>26, <2>3
       DEF Remove, Goto, ThreadOnly, sessionVars, publisherVars, clientVars,
           socketVars, TypeOK
<1>27. ASSUME NEW c \in Connections, Fetch(c) PROVE TypeOK'
  BY <1>1, <1>2, <1>27
     DEF Fetch, sessionVars, publisherVars, transportVars, threadVars, TypeOK
<1>28. ASSUME NEW c \in Connections, Reset(c) PROVE TypeOK'
  BY <1>1, <1>2, <1>28
     DEF Reset, sessionVars, publisherVars, transportVars, threadVars,
         socketVars, TypeOK
<1>29. ASSUME NEW c \in Connections, NEW p \in 1..PagesOf[shown[c]],
              shown[c] # 0, ViewUpdate(c, p)
       PROVE  TypeOK'
  <2>1. shown[c] \in Revisions
    BY <1>2, <1>29, BoundsAssumption DEF TypeOK, Revisions
  <2>2. page' \in PageNumbers
    BY <1>2, <1>29, <2>1, PageNumber DEF ViewUpdate, TypeOK, PageNumbers
  <2> QED
    BY <1>1, <1>2, <1>29, <2>2
       DEF ViewUpdate, Goto, publisherVars, clientVars, transportVars,
           socketVars, TypeOK, PageNumbers
<1>30. CASE UNCHANGED vars
  BY <1>1, <1>2, <1>30
     DEF vars, sessionVars, transportVars, publisherVars, threadVars,
         socketVars, clientVars, TypeOK, PlacesInv, EventsInv, QueueInv,
         Revisions
<1> QED
  BY <1>1, <1>3, <1>4, <1>5, <1>6, <1>7, <1>8, <1>9, <1>10, <1>11, <1>12, <1>13,
     <1>14, <1>15, <1>16, <1>17, <1>18, <1>19, <1>20, <1>21, <1>22, <1>23, <1>24,
     <1>25, <1>26, <1>27, <1>28, <1>29, <1>30
     DEF Next, Publisher, Invalidation, Thread

(* Every step keeps the places: each is taken once, by a connection that  *)
(* is still there or was reset.                                            *)
LEMMA PlacesStep == Inv /\ [Next]_vars => PlacesInv'
<1> SUFFICES ASSUME Inv, [Next]_vars PROVE PlacesInv'
  OBVIOUS
<1>1. /\ setting' = setting /\ MaxSubscribers' = MaxSubscribers
      /\ MaxSubscribers \in Nat \ {0} /\ setting.revisions \in 0..MaxRevisions
      /\ setting.clients \subseteq Connections
  BY SettingType DEF Inv, Next, vars, MaxSubscribers
<1>2. TypeOK /\ PlacesInv
  BY DEF Inv
<1>3. CASE SetHandler
  BY <1>1, <1>2, <1>3
     DEF SetHandler, PublisherOnly, threadVars, clientVars, sessionVars,
         transportVars, socketVars, PlacesInv, Subscribed, Delivering,
         Connected, TypeOK
<1>4. CASE Compiled
  BY <1>1, <1>2, <1>4
     DEF Compiled, PublisherOnly, threadVars, clientVars, sessionVars,
         transportVars, socketVars, PlacesInv, Subscribed, Delivering,
         Connected, TypeOK
<1>5. CASE Clamp
  BY <1>1, <1>2, <1>5
     DEF Clamp, PublisherOnly, threadVars, clientVars, transportVars,
         socketVars, PlacesInv, Subscribed, Delivering, Connected, TypeOK
<1>6. CASE PublishPdf
  BY <1>1, <1>2, <1>6
     DEF PublishPdf, PublisherOnly, threadVars, clientVars, sessionVars,
         socketVars, PlacesInv, Subscribed, Delivering, Connected, TypeOK
<1>7. CASE AdvanceRevision
  BY <1>1, <1>2, <1>7
     DEF AdvanceRevision, PublisherOnly, threadVars, clientVars, transportVars,
         socketVars, PlacesInv, Subscribed, Delivering, Connected, TypeOK
<1>8. CASE CheckEvents
  BY <1>1, <1>2, <1>8
     DEF CheckEvents, PublisherOnly, threadVars, clientVars, sessionVars,
         transportVars, socketVars, PlacesInv, Subscribed, Delivering,
         Connected, TypeOK
<1>9. CASE LockSubscribers
  <2>1. left = <<>> /\ slots \in Seq(Connections)
    BY <1>2, <1>9 DEF LockSubscribers, PlacesInv, Delivering, TypeOK
  <2>2. Len(slots) + Len(left) <= MaxSubscribers /\ Len(slots) \in Nat /\ Len(left) = 0
    BY <1>2, <2>1, Empty DEF PlacesInv
  <2>3. Len(<<>>) + Len(slots) <= MaxSubscribers
    BY <1>1, <2>2, Empty
  <2> QED
    BY <1>1, <1>2, <1>9, <2>1, <2>3, Empty
       DEF LockSubscribers, PublisherOnly, threadVars, clientVars,
           sessionVars, socketVars, AfterDelivery, PlacesInv, Subscribed,
           Delivering, Connected
<1>10. CASE PublishHeader
  <2>1. left # <<>> /\ left \in Seq(Connections) /\ slots \in Seq(Connections)
    BY <1>2, <1>10 DEF PublishHeader, TypeOK, PlacesInv, Delivering
  <2>2. /\ Head(left) \in Connections /\ IsOnce(Tail(left))
        /\ Len(Tail(left)) = Len(left) - 1
        /\ Tail(left) # <<>> <=> Len(left) > 1
        /\ Elements(left) = Elements(Tail(left)) \cup {Head(left)}
        /\ Head(left) \notin Elements(Tail(left))
    BY <1>2, <2>1, Taken DEF PlacesInv
  <2>3. Len(left) \in Nat \ {0} /\ Len(slots) \in Nat
    BY <2>1
  <2>4. CASE reset[Head(left)]
    <3>1. /\ left' = Tail(left) /\ slots' = slots /\ conn' = conn /\ reset' = reset
          /\ pc' \in {"header", "idle", "queue"} /\ (pc' = "header" <=> Len(left) > 1)
      BY <1>10, <2>4
         DEF PublishHeader, PublisherOnly, AfterDelivery, threadVars,
             clientVars, transportVars
    <3>2. Len(slots') + Len(left') <= MaxSubscribers'
      BY <1>1, <1>2, <2>2, <2>3, <3>1 DEF PlacesInv
    <3> QED
      BY <1>2, <2>2, <2>4, <3>1, <3>2 DEF PlacesInv, Subscribed, Delivering, Connected
  <2>5. CASE ~ reset[Head(left)]
    BY <1>1, <1>2, <1>10, <2>1, <2>5
       DEF PublishHeader, PublisherOnly, threadVars, clientVars,
           transportVars, PlacesInv, Subscribed, Delivering, Connected
  <2> QED
    BY <2>4, <2>5
<1>11. CASE PublishPayload
  <2>1. left # <<>> /\ left \in Seq(Connections) /\ slots \in Seq(Connections)
    BY <1>2, <1>11 DEF PublishPayload, TypeOK, PlacesInv, Delivering
  <2>2. /\ Head(left) \in Connections /\ IsOnce(Tail(left))
        /\ Len(Tail(left)) = Len(left) - 1
        /\ Tail(left) # <<>> <=> Len(left) > 1
        /\ Elements(left) = Elements(Tail(left)) \cup {Head(left)}
        /\ Head(left) \notin Elements(Tail(left))
    BY <1>2, <2>1, Taken DEF PlacesInv
  <2>3. Len(left) \in Nat \ {0} /\ Len(slots) \in Nat
    BY <2>1
  <2>4. /\ left' = Tail(left) /\ conn' = conn /\ reset' = reset
        /\ pc' \in {"header", "idle", "queue"} /\ (pc' = "header" <=> Len(left) > 1)
    BY <1>11 DEF PublishPayload, PublisherOnly, AfterDelivery, threadVars, clientVars
  <2>5. CASE reset[Head(left)]
    <3>1. slots' = slots
      BY <1>11, <2>5 DEF PublishPayload
    <3>2. Len(slots') + Len(left') <= MaxSubscribers'
      BY <1>1, <1>2, <2>2, <2>3, <2>4, <3>1 DEF PlacesInv
    <3> QED
      BY <1>2, <2>2, <2>4, <2>5, <3>1, <3>2
         DEF PlacesInv, Subscribed, Delivering, Connected
  <2>6. CASE ~ reset[Head(left)]
    <3>1. slots' = Append(slots, Head(left)) /\ Head(left) \notin Elements(slots)
      BY <1>2, <1>11, <2>2, <2>6 DEF PublishPayload, PlacesInv
    <3>2. /\ Len(slots') = Len(slots) + 1 /\ IsOnce(slots')
          /\ Elements(slots') = Elements(slots) \cup {Head(left)}
      BY <1>2, <2>1, <2>2, <3>1, Appended DEF PlacesInv
    <3>3. Len(slots') + Len(left') <= MaxSubscribers'
      BY <1>1, <1>2, <2>2, <2>3, <2>4, <3>2 DEF PlacesInv
    <3> QED
      BY <1>2, <2>2, <2>4, <3>1, <3>2, <3>3
         DEF PlacesInv, Subscribed, Delivering, Connected
  <2> QED
    BY <2>5, <2>6
<1>12. CASE QueueEvent
  BY <1>1, <1>2, <1>12
     DEF QueueEvent, PublisherOnly, threadVars, clientVars, sessionVars,
         socketVars, PlacesInv, Subscribed, Delivering, Connected, TypeOK
<1>13. CASE Invalidate
  BY <1>1, <1>2, <1>13
     DEF Invalidate, Closing, publisherVars, threadVars, socketVars,
         clientVars, PlacesInv, Subscribed, Delivering, Connected, TypeOK
<1>14. CASE ClearPending
  BY <1>1, <1>2, <1>14
     DEF ClearPending, Closing, publisherVars, threadVars, socketVars,
         clientVars, PlacesInv, Subscribed, Delivering, Connected, TypeOK
<1>15. CASE CloseSubscribers
  <2>1. left = <<>> /\ left' = left /\ slots \in Seq(Connections) /\ Elements(left) = {} /\ Len(left) = 0
    BY <1>2, <1>15, Empty
       DEF CloseSubscribers, PlacesInv, Delivering, SubscribersAreFree,
           TypeOK, Closing, publisherVars
  <2>2. Len(slots) \in Nat
    BY <2>1
  <2>3. Len(slots') + Len(left') <= MaxSubscribers' /\ slots' = <<>>
    BY <1>1, <1>15, <2>1, Empty DEF CloseSubscribers
  <2>4. Elements(slots') = {} /\ IsOnce(slots') /\ pc' = pc /\ conn' = conn
    BY <1>15, <2>3, Empty DEF CloseSubscribers, Closing, publisherVars, threadVars
  <2>5. \A c \in Connections : reset'[c] <=> reset[c] \/ c \in Elements(slots)
    BY <1>15 DEF CloseSubscribers
  <2> QED
    BY <1>2, <2>1, <2>3, <2>4, <2>5 DEF PlacesInv, Subscribed, Delivering, Connected
<1>16. CASE ClearDocument
  BY <1>1, <1>2, <1>16
     DEF ClearDocument, Closing, publisherVars, threadVars, socketVars,
         clientVars, PlacesInv, Subscribed, Delivering, Connected, TypeOK
<1>17. ASSUME NEW c \in Connections, Ask(c) PROVE PlacesInv'
  BY <1>1, <1>2, <1>17
     DEF Ask, Goto, ThreadOnly, sessionVars, publisherVars, clientVars,
         transportVars, socketVars, PlacesInv, Subscribed, Delivering,
         Connected, TypeOK
<1>18. ASSUME NEW c \in Connections, Register(c) PROVE PlacesInv'
  <2>1. left = <<>> /\ left' = left /\ slots \in Seq(Connections) /\ Elements(left) = {} /\ Len(left) = 0
    BY <1>2, <1>18, Empty
       DEF Register, PlacesInv, Delivering, SubscribersAreFree, TypeOK,
           ThreadOnly, publisherVars
  <2>2. Len(slots) \in Nat
    BY <2>1
  <2>3. /\ pc' = pc /\ reset' = reset
        /\ conn[c] = "register" /\ c \notin Elements(slots)
    BY <1>2, <1>18
       DEF Register, ThreadOnly, publisherVars, clientVars, PlacesInv,
           Subscribed, TypeOK
  <2>4. CASE IsFull
    <3>1. slots' = slots /\ \A d \in Connections : conn'[d] = IF d = c THEN "ended" ELSE conn[d]
      BY <1>2, <1>18, <2>4 DEF Register, Goto, TypeOK
    <3> QED
      BY <1>1, <1>2, <2>1, <2>3, <3>1 DEF PlacesInv, Subscribed, Delivering, Connected
  <2>5. CASE ~ IsFull
    <3>0. slots' = Append(slots, c) /\ IsOnce(slots)
      BY <1>2, <1>18, <2>5 DEF Register, PlacesInv
    <3>1. /\ Len(slots') = Len(slots) + 1 /\ IsOnce(slots')
          /\ Elements(slots') = Elements(slots) \cup {c}
      BY <2>1, <2>3, <3>0, Appended
    <3>2. Len(slots') + Len(left') <= MaxSubscribers'
      BY <1>1, <2>1, <2>2, <2>5, <3>1 DEF IsFull
    <3>3. \A d \in Connections : conn'[d] = IF d = c THEN "upgrade" ELSE conn[d]
      BY <1>2, <1>18, <2>5 DEF Register, Goto, TypeOK
    <3> QED
      BY <1>2, <2>1, <2>3, <3>1, <3>2, <3>3
         DEF PlacesInv, Subscribed, Delivering, Connected
  <2> QED
    BY <2>4, <2>5
<1>19. ASSUME NEW c \in Connections, Upgrade(c) PROVE PlacesInv'
  BY <1>1, <1>2, <1>19
     DEF Upgrade, Goto, ThreadOnly, sessionVars, publisherVars, clientVars,
         transportVars, PlacesInv, Subscribed, Delivering, Connected, TypeOK
<1>20. ASSUME NEW c \in Connections, Drain(c) PROVE PlacesInv'
  BY <1>1, <1>2, <1>20
     DEF Drain, Goto, ThreadOnly, sessionVars, publisherVars, clientVars,
         socketVars, PlacesInv, Subscribed, Delivering, Connected, TypeOK
<1>21. ASSUME NEW c \in Connections, SendHeader(c) PROVE PlacesInv'
  <2>1. /\ slots' = slots /\ left' = left /\ pc' = pc /\ reset' = reset
        /\ \A d \in Connections : d # c => conn'[d] = conn[d]
        /\ conn'[c] = conn[c] \/ (conn'[c] = "ended" /\ reset[c])
    BY <1>2, <1>21
       DEF SendHeader, Goto, ThreadOnly, publisherVars, clientVars,
           transportVars, threadVars, TypeOK
  <2> QED
    BY <1>1, <1>2, <2>1 DEF PlacesInv, Subscribed, Delivering, Connected
<1>22. ASSUME NEW c \in Connections, SendPayload(c) PROVE PlacesInv'
  <2>1. /\ slots' = slots /\ left' = left /\ pc' = pc /\ reset' = reset
        /\ \A d \in Connections : d # c => conn'[d] = conn[d]
        /\ conn[c] = "send"
        /\ IF reset[c] THEN conn'[c] = "ended" ELSE conn'[c] \in {"send", "open"}
    BY <1>2, <1>22
       DEF SendPayload, Goto, ThreadOnly, publisherVars, clientVars, transportVars, TypeOK
  <2> QED
    BY <1>1, <1>2, <2>1 DEF PlacesInv, Subscribed, Delivering, Connected
<1>23. ASSUME NEW c \in Connections, Ping(c) PROVE PlacesInv'
  BY <1>1, <1>2, <1>23
     DEF Ping, Goto, ThreadOnly, sessionVars, publisherVars, clientVars,
         transportVars, socketVars, PlacesInv, Subscribed, Delivering,
         Connected, TypeOK
<1>24. ASSUME NEW c \in Connections, BadFrame(c) PROVE PlacesInv'
  BY <1>1, <1>2, <1>24
     DEF BadFrame, Goto, ThreadOnly, sessionVars, publisherVars, clientVars,
         transportVars, socketVars, PlacesInv, Subscribed, Delivering,
         Connected, TypeOK
<1>25. ASSUME NEW c \in Connections, Close(c) PROVE PlacesInv'
  BY <1>1, <1>2, <1>25
     DEF Close, Goto, ThreadOnly, sessionVars, publisherVars, clientVars,
         transportVars, socketVars, PlacesInv, Subscribed, Delivering,
         Connected, TypeOK
<1>26. ASSUME NEW c \in Connections, Remove(c) PROVE PlacesInv'
  <2>1. left = <<>> /\ left' = left /\ slots \in Seq(Connections) /\ Elements(left) = {} /\ Len(left) = 0
    BY <1>2, <1>26, Empty
       DEF Remove, PlacesInv, Delivering, SubscribersAreFree, TypeOK,
           ThreadOnly, publisherVars
  <2>2. Len(slots) \in Nat
    BY <2>1
  <2>3. /\ pc' = pc /\ reset' = reset /\ slots' = Others(c)
        /\ conn[c] = "remove"
        /\ \A d \in Connections : conn'[d] = IF d = c THEN "ended" ELSE conn[d]
    BY <1>2, <1>26 DEF Remove, Goto, ThreadOnly, publisherVars, clientVars, TypeOK
  <2>4. /\ Others(c) \in Seq(Connections) /\ Len(Others(c)) <= Len(slots)
        /\ Elements(Others(c)) \subseteq Elements(slots)
        /\ IsOnce(Others(c)) /\ (c \in Elements(Others(c)) => reset[c])
        /\ \A d \in Elements(slots) : d # c => d \in Elements(Others(c))
    BY <1>2, <2>1, Removed DEF PlacesInv
  <2>5. Len(slots') + Len(left') <= MaxSubscribers'
    <3>1. Len(Others(c)) \in Nat
      BY <2>4
    <3> QED
      BY <1>1, <1>2, <2>1, <2>2, <2>3, <2>4, <3>1 DEF PlacesInv
  <2> QED
    BY <1>2, <2>1, <2>3, <2>4, <2>5 DEF PlacesInv, Subscribed, Delivering, Connected
<1>27. ASSUME NEW c \in Connections, Fetch(c) PROVE PlacesInv'
  BY <1>1, <1>2, <1>27
     DEF Fetch, sessionVars, publisherVars, transportVars, threadVars,
         PlacesInv, Subscribed, Delivering, Connected, TypeOK
<1>28. ASSUME NEW c \in Connections, Reset(c) PROVE PlacesInv'
  BY <1>1, <1>2, <1>28
     DEF Reset, sessionVars, publisherVars, transportVars, threadVars,
         socketVars, PlacesInv, Subscribed, Delivering, Connected, TypeOK
<1>29. ASSUME NEW c \in Connections, NEW p \in 1..PagesOf[shown[c]],
              shown[c] # 0, ViewUpdate(c, p)
       PROVE  PlacesInv'
  BY <1>1, <1>2, <1>29
     DEF ViewUpdate, Goto, publisherVars, clientVars, transportVars,
         socketVars, PlacesInv, Subscribed, Delivering, Connected, TypeOK
<1>30. CASE UNCHANGED vars
  BY <1>1, <1>2, <1>30
     DEF vars, sessionVars, transportVars, publisherVars, threadVars,
         socketVars, clientVars, PlacesInv, Subscribed, Delivering, Connected,
         TypeOK
<1> QED
  BY <1>1, <1>3, <1>4, <1>5, <1>6, <1>7, <1>8, <1>9, <1>10, <1>11, <1>12, <1>13,
     <1>14, <1>15, <1>16, <1>17, <1>18, <1>19, <1>20, <1>21, <1>22, <1>23, <1>24,
     <1>25, <1>26, <1>27, <1>28, <1>29, <1>30
     DEF Next, Publisher, Invalidation, Thread

(* Every step keeps the events apart: a revision is in the queue, on its  *)
(* way to a client or with it, and nobody has that of the publisher twice. *)
LEMMA EventsStep == Inv /\ [Next]_vars => EventsInv'
<1> SUFFICES ASSUME Inv, [Next]_vars PROVE EventsInv'
  OBVIOUS
<1>1. /\ setting' = setting /\ MaxSubscribers' = MaxSubscribers
      /\ MaxSubscribers \in Nat \ {0} /\ setting.revisions \in 0..MaxRevisions
      /\ setting.clients \subseteq Connections
  BY SettingType DEF Inv, Next, vars, MaxSubscribers
<1>2. TypeOK /\ PlacesInv /\ EventsInv
  BY DEF Inv
<1>31. /\ Elements(pending) \subseteq Revisions
       /\ \A c \in Connections : /\ Elements(got[c]) \subseteq Revisions
                                /\ Told(c) \subseteq Revisions \cup {Pong}
  BY <1>2, Empty DEF TypeOK, Told
<1>3. CASE SetHandler
  BY <1>1, <1>2, <1>3
     DEF SetHandler, PublisherOnly, threadVars, clientVars, sessionVars,
         transportVars, socketVars, EventsInv, QueueInv, ToldInv, Told,
         Delivering, TypeOK
<1>4. CASE Compiled
  <2>1. revision < MaxRevisions
    BY <1>1, <1>2, <1>4, BoundsAssumption DEF Compiled, TypeOK
  <2> QED
    BY <1>1, <1>2, <1>4, <2>1
       DEF Compiled, PublisherOnly, threadVars, clientVars, sessionVars,
           transportVars, socketVars, EventsInv, QueueInv, ToldInv, Told,
           Delivering
<1>5. CASE Clamp
  BY <1>1, <1>2, <1>5
     DEF Clamp, PublisherOnly, threadVars, clientVars, transportVars,
         socketVars, EventsInv, QueueInv, ToldInv, Told, Delivering, TypeOK
<1>6. CASE PublishPdf
  BY <1>1, <1>2, <1>6
     DEF PublishPdf, PublisherOnly, threadVars, clientVars, sessionVars,
         socketVars, EventsInv, QueueInv, ToldInv, Told, Delivering, TypeOK
<1>7. CASE AdvanceRevision
  <2>1. revision \in Nat /\ revision + 1 > 0 /\ Revisions \subseteq Nat
    BY <1>2, BoundsAssumption DEF TypeOK, Revisions
  <2>2. ASSUME NEW k, k # Pong, k <= revision, k \in Revisions \cup {Pong}
        PROVE  k <= revision + 1 /\ k # revision + 1
    BY <2>1, <2>2
  <2>3. \A c \in Connections : Pong # revision + 1
    BY <2>1, PongAssumption
  <2>4. \A k \in Elements(pending) : k <= revision + 1 /\ k # revision + 1
    BY <1>2, <1>31, <2>2, <2>1, PongAssumption DEF EventsInv, QueueInv
  <2>5. ASSUME NEW c \in Connections
        PROVE  revision + 1 \notin Told(c) /\ \A k \in Told(c) : k # Pong => k <= revision + 1
    BY <1>2, <1>31, <2>2, <2>3 DEF EventsInv, ToldInv
  <2>6. /\ revision' = revision + 1 /\ pc' = "check" /\ pending' = pending
        /\ got' = got /\ sending' = sending /\ conn' = conn
    BY <1>7 DEF AdvanceRevision, PublisherOnly, threadVars, transportVars, socketVars
  <2>7. QueueInv'
    BY <1>2, <2>1, <2>4, <2>6 DEF EventsInv, QueueInv
  <2>8. ASSUME NEW c \in Connections PROVE ToldInv(c)'
    BY <1>2, <2>5, <2>6 DEF EventsInv, ToldInv, Told, Delivering
  <2> QED
    BY <2>7, <2>8 DEF EventsInv
<1>8. CASE CheckEvents
  BY <1>1, <1>2, <1>8
     DEF CheckEvents, PublisherOnly, threadVars, clientVars, sessionVars,
         transportVars, socketVars, EventsInv, QueueInv, ToldInv, Told,
         Delivering, TypeOK
<1>9. CASE LockSubscribers
  <2>1. /\ pc = "lock" /\ pc' \in {"header", "queue"} /\ pending' = pending /\ revision' = revision
        /\ got' = got /\ sending' = sending /\ conn' = conn
    BY <1>9
       DEF LockSubscribers, PublisherOnly, AfterDelivery, threadVars,
           sessionVars, socketVars
  <2> QED
    BY <1>2, <2>1 DEF EventsInv, QueueInv, ToldInv, Told, Delivering
<1>10. CASE PublishHeader
  <2>1. left # <<>> /\ left \in Seq(Connections)
    BY <1>2, <1>10 DEF PublishHeader, TypeOK, PlacesInv, Delivering
  <2>2. /\ Head(left) \in Connections /\ Head(left) \in Elements(left)
        /\ Elements(Tail(left)) \subseteq Elements(left)
        /\ Head(left) \notin Elements(Tail(left))
    BY <1>2, <2>1, Taken DEF PlacesInv
  <2>3. /\ pc = "header" /\ pc' \in {"header", "payload", "idle", "queue"}
        /\ pc' = "queue" => ~ delivered
        /\ Elements(left') \subseteq Elements(left)
        /\ pending' = pending /\ revision' = revision /\ delivered' = delivered
        /\ got' = got /\ sending' = sending /\ conn' = conn
    BY <1>2, <1>10, <2>2
       DEF PublishHeader, PublisherOnly, AfterDelivery, WriteHeader,
           threadVars, sessionVars, socketVars, transportVars, TypeOK
  <2>4. QueueInv'
    BY <1>2, <2>3 DEF EventsInv, QueueInv
  <2>5. ASSUME NEW c \in Connections PROVE ToldInv(c)'
    BY <1>2, <2>3 DEF EventsInv, ToldInv, Told, Delivering
  <2> QED
    BY <2>4, <2>5 DEF EventsInv
<1>11. CASE PublishPayload
  <2>1. left # <<>> /\ left \in Seq(Connections)
    BY <1>2, <1>11 DEF PublishPayload, TypeOK, PlacesInv, Delivering
  <2>2. /\ Head(left) \in Connections /\ Head(left) \in Elements(left)
        /\ Elements(Tail(left)) \subseteq Elements(left)
        /\ Head(left) \notin Elements(Tail(left))
    BY <1>2, <2>1, Taken DEF PlacesInv
  <2>3. /\ pc = "payload" /\ pc' \in {"header", "idle", "queue"}
        /\ pc' = "queue" => ~ delivered'
        /\ left' = Tail(left)
        /\ pending' = pending /\ revision' = revision /\ sending' = sending /\ conn' = conn
    BY <1>11 DEF PublishPayload, PublisherOnly, AfterDelivery, threadVars, sessionVars
  <2>4. QueueInv'
    BY <1>2, <2>3 DEF EventsInv, QueueInv
  <2>5. CASE reset[Head(left)]
    <3>1. got' = got /\ delivered' = delivered
      BY <1>11, <2>5 DEF PublishPayload, Abort
    <3>2. ASSUME NEW c \in Connections PROVE ToldInv(c)'
      BY <1>2, <2>2, <2>3, <3>1 DEF EventsInv, ToldInv, Told, Delivering
    <3> QED
      BY <2>4, <3>2 DEF EventsInv
  <2>6. CASE ~ reset[Head(left)]
    <3>1. revision \in Nat /\ revision # Pong /\ revision \in Revisions
      BY <1>2, <2>3, BoundsAssumption, PongAssumption
         DEF TypeOK, Revisions, EventsInv, QueueInv
    <3>2. /\ delivered' = TRUE
          /\ \A d \in Connections : got'[d] = IF d = Head(left) THEN Append(got[d], revision) ELSE got[d]
      <4>1. /\ delivered' = TRUE
            /\ got' = [got EXCEPT ![Head(left)] = IF revision = Pong THEN @ ELSE Append(@, revision)]
        BY <1>11, <2>6 DEF PublishPayload, WritePayload
      <4> QED
        BY <1>2, <3>1, <4>1 DEF TypeOK
    <3>3. /\ revision \notin Elements(got[Head(left)])
          /\ revision \notin Elements(sending[Head(left)])
          /\ revision \notin Elements(pending)
          /\ IsOnce(got[Head(left)]) /\ got[Head(left)] \in Seq(Revisions)
      BY <1>2, <2>2, <2>3 DEF EventsInv, QueueInv, ToldInv, Told, Delivering, TypeOK
    <3>4. /\ IsOnce(got'[Head(left)])
          /\ Elements(got'[Head(left)]) = Elements(got[Head(left)]) \cup {revision}
      BY <2>2, <3>1, <3>2, <3>3, Appended
    <3>5. ASSUME NEW c \in Connections, c = Head(left) PROVE ToldInv(c)'
      <4>1. /\ IsOnce(got'[c]) /\ Elements(got'[c]) = Elements(got[c]) \cup {revision}
            /\ revision \notin Elements(sending[c]) /\ revision \notin Elements(pending)
        BY <3>3, <3>4, <3>5
      <4>2. c \notin Elements(left') /\ sending' = sending /\ conn' = conn
        BY <2>2, <2>3, <3>5
      <4>3. ToldInv(c)
        BY <1>2 DEF EventsInv
      <4>4. revision <= revision /\ revision' = revision /\ pending' = pending
        BY <2>3, <3>1
      <4>5. pc' \notin {"check", "lock", "queue"} /\ delivered'
        BY <2>3, <3>2
      <4> QED
        BY <4>1, <4>2, <4>3, <4>4, <4>5 DEF ToldInv, Told, Delivering
    <3>6. ASSUME NEW c \in Connections, c # Head(left) PROVE ToldInv(c)'
      BY <1>2, <2>2, <2>3, <3>2, <3>6 DEF EventsInv, ToldInv, Told, Delivering
    <3> QED
      BY <2>4, <3>5, <3>6 DEF EventsInv
  <2> QED
    BY <2>5, <2>6
<1>12. CASE QueueEvent
  <2>1. /\ pc = "queue" /\ pc' = "idle" /\ pending' = Append(pending, revision) /\ revision' = revision
        /\ got' = got /\ sending' = sending /\ conn' = conn
    BY <1>12 DEF QueueEvent, PublisherOnly, threadVars, sessionVars, socketVars
  <2>2. revision \in Revisions /\ pending \in Seq(Revisions) /\ revision <= revision
    BY <1>2, <2>1, BoundsAssumption DEF TypeOK, EventsInv, QueueInv, Revisions
  <2>3. IsOnce(pending') /\ Elements(pending') = Elements(pending) \cup {revision}
    BY <1>2, <2>1, <2>2, Appended DEF EventsInv, QueueInv
  <2>4. QueueInv'
    BY <1>2, <2>1, <2>2, <2>3 DEF EventsInv, QueueInv
  <2>5. ASSUME NEW c \in Connections PROVE ToldInv(c)'
    BY <1>2, <2>1, <2>3 DEF EventsInv, ToldInv, Told, Delivering
  <2> QED
    BY <2>4, <2>5 DEF EventsInv
<1>13. CASE Invalidate
  BY <1>1, <1>2, <1>13
     DEF Invalidate, Closing, publisherVars, threadVars, socketVars,
         clientVars, EventsInv, QueueInv, ToldInv, Told, Delivering, TypeOK
<1>14. CASE ClearPending
  <2>1. /\ pc' = pc /\ pending' = <<>> /\ revision' = revision /\ delivered' = delivered /\ left' = left
        /\ got' = got /\ sending' = sending /\ conn' = conn
    BY <1>14 DEF ClearPending, Closing, publisherVars, threadVars, socketVars
  <2> QED
    BY <1>2, <2>1, Empty DEF EventsInv, QueueInv, ToldInv, Told, Delivering
<1>15. CASE CloseSubscribers
  BY <1>1, <1>2, <1>15
     DEF CloseSubscribers, Closing, publisherVars, threadVars, socketVars,
         EventsInv, QueueInv, ToldInv, Told, Delivering, TypeOK
<1>16. CASE ClearDocument
  <2>1. UNCHANGED <<pending, revision, pc, got, sending, conn, left, delivered>>
    BY <1>16 DEF ClearDocument, Closing, publisherVars, threadVars, socketVars, clientVars
  <2>2. QueueInv'
    BY <1>1, <1>2, <2>1 DEF EventsInv, QueueInv
  <2>3. ASSUME NEW c \in Connections PROVE ToldInv(c)'
    BY <1>1, <1>2, <2>1 DEF EventsInv, ToldInv, Told, Delivering
  <2> QED
    BY <2>2, <2>3 DEF EventsInv
<1>17. ASSUME NEW c \in Connections, Ask(c) PROVE EventsInv'
  <2>1. UNCHANGED <<pending, revision, pc, got, sending, left, delivered>>
    BY <1>17 DEF Ask, ThreadOnly, sessionVars, publisherVars, clientVars, transportVars, socketVars
  <2>2. \A d \in Connections : conn'[d] = "send" <=> conn[d] = "send"
    BY <1>2, <1>17 DEF Ask, Goto, TypeOK
  <2>3. QueueInv'
    BY <1>1, <1>2, <2>1 DEF EventsInv, QueueInv
  <2>4. ASSUME NEW d \in Connections PROVE ToldInv(d)'
    BY <1>1, <1>2, <2>1, <2>2 DEF EventsInv, ToldInv, Told, Delivering
  <2> QED
    BY <2>3, <2>4 DEF EventsInv
<1>18. ASSUME NEW c \in Connections, Register(c) PROVE EventsInv'
  BY <1>1, <1>2, <1>18
     DEF Register, Goto, ThreadOnly, sessionVars, publisherVars, clientVars,
         socketVars, IsFull, EventsInv, QueueInv, ToldInv, Told, Delivering,
         TypeOK
<1>19. ASSUME NEW c \in Connections, Upgrade(c) PROVE EventsInv'
  BY <1>1, <1>2, <1>19
     DEF Upgrade, Goto, ThreadOnly, sessionVars, publisherVars, clientVars,
         transportVars, EventsInv, QueueInv, ToldInv, Told, Delivering, TypeOK
<1>20. ASSUME NEW c \in Connections, Drain(c) PROVE EventsInv'
  <2>1. /\ pc' = pc /\ revision' = revision /\ delivered' = delivered /\ left' = left
    BY <1>20 DEF Drain, ThreadOnly, sessionVars, publisherVars
  <2>2. /\ pending' = <<>> /\ got' = got
        /\ \A d \in Connections : sending'[d] = IF d = c THEN pending ELSE sending[d]
        /\ \A d \in Connections :
             conn'[d] = IF d = c THEN IF pending = <<>> THEN "open" ELSE "send" ELSE conn[d]
    BY <1>2, <1>20 DEF Drain, Goto, socketVars, TypeOK
  <2>3. QueueInv'
    BY <1>2, <2>1, <2>2, Empty DEF EventsInv, QueueInv
  <2>4. ASSUME NEW d \in Connections, d # c PROVE ToldInv(d)'
    BY <1>2, <2>1, <2>2, <2>4, Empty DEF EventsInv, ToldInv, Told, Delivering
  <2>5. ToldInv(c)'
    BY <1>2, <2>1, <2>2, Empty DEF EventsInv, QueueInv, ToldInv, Told, Delivering
  <2> QED
    BY <2>3, <2>4, <2>5 DEF EventsInv
<1>21. ASSUME NEW c \in Connections, SendHeader(c) PROVE EventsInv'
  <2>1. /\ pc' = pc /\ revision' = revision /\ delivered' = delivered /\ left' = left
    BY <1>21 DEF SendHeader, ThreadOnly, sessionVars, publisherVars
  <2>2. /\ pending' = pending /\ got' = got
        /\ \A d \in Connections : d # c => sending'[d] = sending[d] /\ conn'[d] = conn[d]
        /\ \/ sending'[c] = sending[c] /\ conn'[c] = conn[c]
           \/ sending'[c] = <<>> /\ conn'[c] = "ended"
    BY <1>2, <1>21
       DEF SendHeader, WriteHeader, Goto, threadVars, socketVars,
           transportVars, TypeOK
  <2>3. QueueInv'
    BY <1>2, <2>1, <2>2 DEF EventsInv, QueueInv
  <2>4. ASSUME NEW d \in Connections, d # c PROVE ToldInv(d)'
    BY <1>2, <2>1, <2>2, <2>4 DEF EventsInv, ToldInv, Told, Delivering
  <2>5. ToldInv(c)'
    BY <1>2, <2>1, <2>2, Empty DEF EventsInv, QueueInv, ToldInv, Told, Delivering
  <2> QED
    BY <2>3, <2>4, <2>5 DEF EventsInv
<1>22. ASSUME NEW c \in Connections, SendPayload(c) PROVE EventsInv'
  <2>1. /\ pc' = pc /\ revision' = revision /\ delivered' = delivered /\ left' = left
    BY <1>22 DEF SendPayload, ThreadOnly, sessionVars, publisherVars
  <2>2. /\ pending' = pending
        /\ \A d \in Connections : d # c => /\ sending'[d] = sending[d] /\ conn'[d] = conn[d]
                                       /\ got'[d] = got[d]
    BY <1>2, <1>22 DEF SendPayload, WritePayload, Abort, Goto, transportVars, TypeOK
  <2>3. QueueInv'
    BY <1>2, <2>1, <2>2 DEF EventsInv, QueueInv
  <2>4. ASSUME NEW d \in Connections, d # c PROVE ToldInv(d)'
    BY <1>2, <2>1, <2>2, <2>4 DEF EventsInv, ToldInv, Told, Delivering
  <2>5. /\ sending[c] \in Seq(Revisions \cup {Pong}) /\ sending[c] # <<>>
        /\ got[c] \in Seq(Revisions) /\ ToldInv(c)
    BY <1>2, <1>22 DEF SendPayload, TypeOK, EventsInv, ToldInv
  <2>6. /\ Head(sending[c]) \in Revisions \cup {Pong}
        /\ Tail(sending[c]) # <<>> <=> Len(sending[c]) > 1
        /\ Elements(sending[c]) = Elements(Tail(sending[c])) \cup {Head(sending[c])}
        /\ IsOnce(Tail(sending[c])) /\ Head(sending[c]) \notin Elements(Tail(sending[c]))
    BY <2>5, Taken DEF ToldInv
  <2>7. CASE reset[c]
    <3>1. sending'[c] = <<>> /\ conn'[c] = "ended" /\ got' = got
      BY <1>2, <1>22, <2>7 DEF SendPayload, Abort, Goto, TypeOK
    <3>2. ToldInv(c)'
      BY <2>1, <2>2, <2>5, <3>1, Empty DEF ToldInv, Told, Delivering
    <3> QED
      BY <2>3, <2>4, <3>2 DEF EventsInv
  <2>8. CASE ~ reset[c]
    <3>1. /\ sending'[c] = Tail(sending[c])
          /\ conn'[c] = IF Len(sending[c]) > 1 THEN "send" ELSE "open"
          /\ got'[c] = IF Head(sending[c]) = Pong THEN got[c] ELSE Append(got[c], Head(sending[c]))
      BY <1>2, <1>22, <2>8 DEF SendPayload, WritePayload, Goto, TypeOK
    <3>2. CASE Head(sending[c]) = Pong
      <4>1. got'[c] = got[c]
        BY <3>1, <3>2
      <4> QED
        BY <2>1, <2>2, <2>3, <2>4, <2>5, <2>6, <3>1, <4>1
           DEF EventsInv, ToldInv, Told, Delivering
    <3>3. CASE Head(sending[c]) # Pong
      <4>1. /\ got'[c] = Append(got[c], Head(sending[c])) /\ Head(sending[c]) \in Revisions
            /\ Head(sending[c]) \notin Elements(got[c])
        BY <2>5, <2>6, <3>1, <3>3 DEF ToldInv
      <4>2. IsOnce(got'[c]) /\ Elements(got'[c]) = Elements(got[c]) \cup {Head(sending[c])}
        BY <2>5, <4>1, Appended DEF ToldInv
      <4>3. ToldInv(c)'
        BY <2>1, <2>2, <2>5, <2>6, <3>1, <4>2 DEF ToldInv, Told, Delivering
      <4> QED
        BY <2>3, <2>4, <4>3 DEF EventsInv
    <3> QED
      BY <3>2, <3>3
  <2> QED
    BY <2>7, <2>8
<1>23. ASSUME NEW c \in Connections, Ping(c) PROVE EventsInv'
  <2>1. /\ pc' = pc /\ revision' = revision /\ delivered' = delivered /\ left' = left
    BY <1>23 DEF Ping, ThreadOnly, sessionVars, publisherVars
  <2>2. /\ pending' = pending /\ got' = got
        /\ \A d \in Connections : d # c => sending'[d] = sending[d] /\ conn'[d] = conn[d]
        /\ sending'[c] = <<Pong>> /\ conn'[c] = "send" /\ conn[c] = "open"
    BY <1>2, <1>23 DEF Ping, Goto, socketVars, transportVars, TypeOK
  <2>3. QueueInv'
    BY <1>2, <2>1, <2>2 DEF EventsInv, QueueInv
  <2>4. ASSUME NEW d \in Connections, d # c PROVE ToldInv(d)'
    BY <1>2, <2>1, <2>2, <2>4 DEF EventsInv, ToldInv, Told, Delivering
  <2>5. Elements(<<Pong>>) = {Pong} /\ IsOnce(<<Pong>>) /\ <<Pong>> # <<>>
    BY DEF Elements, IsOnce
  <2>6. /\ Pong \notin Elements(got[c]) /\ Pong \notin Elements(pending) /\ Pong # revision
    BY <1>2, <1>31, PongAssumption, BoundsAssumption DEF TypeOK, Revisions
  <2>7. ToldInv(c)'
    BY <1>2, <2>1, <2>2, <2>5, <2>6 DEF EventsInv, ToldInv, Told, Delivering
  <2> QED
    BY <2>3, <2>4, <2>7 DEF EventsInv
<1>24. ASSUME NEW c \in Connections, BadFrame(c) PROVE EventsInv'
  BY <1>1, <1>2, <1>24
     DEF BadFrame, Goto, ThreadOnly, sessionVars, publisherVars, clientVars,
         transportVars, socketVars, EventsInv, QueueInv, ToldInv, Told,
         Delivering, TypeOK
<1>25. ASSUME NEW c \in Connections, Close(c) PROVE EventsInv'
  BY <1>1, <1>2, <1>25
     DEF Close, Goto, ThreadOnly, sessionVars, publisherVars, clientVars,
         transportVars, socketVars, EventsInv, QueueInv, ToldInv, Told,
         Delivering, TypeOK
<1>26. ASSUME NEW c \in Connections, Remove(c) PROVE EventsInv'
  BY <1>1, <1>2, <1>26
     DEF Remove, Goto, ThreadOnly, sessionVars, publisherVars, clientVars,
         socketVars, EventsInv, QueueInv, ToldInv, Told, Delivering, TypeOK
<1>27. ASSUME NEW c \in Connections, Fetch(c) PROVE EventsInv'
  BY <1>1, <1>2, <1>27
     DEF Fetch, sessionVars, publisherVars, transportVars, threadVars,
         EventsInv, QueueInv, ToldInv, Told, Delivering, TypeOK
<1>28. ASSUME NEW c \in Connections, Reset(c) PROVE EventsInv'
  BY <1>1, <1>2, <1>28
     DEF Reset, sessionVars, publisherVars, transportVars, threadVars,
         socketVars, EventsInv, QueueInv, ToldInv, Told, Delivering, TypeOK
<1>29. ASSUME NEW c \in Connections, NEW p \in 1..PagesOf[shown[c]],
              shown[c] # 0, ViewUpdate(c, p)
       PROVE  EventsInv'
  BY <1>1, <1>2, <1>29
     DEF ViewUpdate, Goto, publisherVars, clientVars, transportVars,
         socketVars, EventsInv, QueueInv, ToldInv, Told, Delivering, TypeOK
<1>30. CASE UNCHANGED vars
  BY <1>1, <1>2, <1>30
     DEF vars, sessionVars, transportVars, publisherVars, threadVars,
         socketVars, clientVars, EventsInv, QueueInv, ToldInv, Told,
         Delivering, TypeOK
<1> QED
  BY <1>1, <1>3, <1>4, <1>5, <1>6, <1>7, <1>8, <1>9, <1>10, <1>11, <1>12, <1>13,
     <1>14, <1>15, <1>16, <1>17, <1>18, <1>19, <1>20, <1>21, <1>22, <1>23, <1>24,
     <1>25, <1>26, <1>27, <1>28, <1>29, <1>30
     DEF Next, Publisher, Invalidation, Thread

(* Every step keeps the document with the revision, and the clients that   *)
(* have fetched with the document or ahead of the publisher.               *)
LEMMA DocumentStep == Inv /\ [Next]_vars => DocumentInv'
<1> SUFFICES ASSUME Inv, [Next]_vars PROVE DocumentInv'
  OBVIOUS
<1>1. /\ setting' = setting /\ MaxSubscribers' = MaxSubscribers
      /\ MaxSubscribers \in Nat \ {0} /\ setting.revisions \in 0..MaxRevisions
      /\ setting.clients \subseteq Connections
  BY SettingType DEF Inv, Next, vars, MaxSubscribers
<1>2. TypeOK /\ PlacesInv /\ DocumentInv
  BY DEF Inv
<1>3. CASE SetHandler
  BY <1>1, <1>2, <1>3
     DEF SetHandler, PublisherOnly, threadVars, clientVars, sessionVars,
         transportVars, socketVars, DocumentInv, TypeOK
<1>4. CASE Compiled
  BY <1>1, <1>2, <1>4
     DEF Compiled, PublisherOnly, threadVars, clientVars, sessionVars,
         transportVars, socketVars, DocumentInv, TypeOK
<1>5. CASE Clamp
  BY <1>1, <1>2, <1>5
     DEF Clamp, PublisherOnly, threadVars, clientVars, transportVars,
         socketVars, DocumentInv, TypeOK
<1>6. CASE PublishPdf
  <2>1. revision \in Nat /\ revision + 1 # 0
    BY <1>2 DEF TypeOK
  <2> QED
    BY <1>2, <1>6, <2>1
       DEF PublishPdf, PublisherOnly, threadVars, clientVars, sessionVars,
           socketVars, DocumentInv
<1>7. CASE AdvanceRevision
  BY <1>1, <1>2, <1>7
     DEF AdvanceRevision, PublisherOnly, threadVars, clientVars, transportVars,
         socketVars, DocumentInv, TypeOK
<1>8. CASE CheckEvents
  BY <1>1, <1>2, <1>8
     DEF CheckEvents, PublisherOnly, threadVars, clientVars, sessionVars,
         transportVars, socketVars, DocumentInv, TypeOK
<1>9. CASE LockSubscribers
  <2>1. left = <<>> /\ Elements(left) = {}
    BY <1>2, <1>9, Empty DEF LockSubscribers, PlacesInv, Delivering
  <2>2. \A c \in Connections :
          conn[c] \in {"drain", "send", "open"} /\ ~ reset[c] => c \in Elements(slots)
    BY <1>2, <2>1 DEF PlacesInv, Connected, Subscribed
  <2> QED
    BY <1>2, <1>9, <2>2
       DEF LockSubscribers, PublisherOnly, threadVars, clientVars,
           sessionVars, socketVars, AfterDelivery, DocumentInv
<1>10. CASE PublishHeader
  <2>1. left # <<>> /\ left \in Seq(Connections)
    BY <1>2, <1>10 DEF PublishHeader, TypeOK, PlacesInv, Delivering
  <2>2. /\ Head(left) \in Connections
        /\ Elements(left) = Elements(Tail(left)) \cup {Head(left)}
    BY <2>1, Taken
  <2>3. /\ pc = "header"
        /\ IF reset[Head(left)] THEN left' = Tail(left) ELSE left' = left
        /\ due' = due
    BY <1>10 DEF PublishHeader, WriteHeader, socketVars
  <2> QED
    BY <1>2, <1>10, <2>2, <2>3
       DEF PublishHeader, PublisherOnly, AfterDelivery, threadVars,
           clientVars, sessionVars, transportVars, DocumentInv
<1>11. CASE PublishPayload
  <2>1. left # <<>> /\ left \in Seq(Connections)
    BY <1>2, <1>11 DEF PublishPayload, TypeOK, PlacesInv, Delivering
  <2>2. /\ Head(left) \in Connections
        /\ Elements(left) = Elements(Tail(left)) \cup {Head(left)}
    BY <2>1, Taken
  <2>3. /\ pc = "payload" /\ pc' \in {"header", "idle", "queue"} /\ left' = Tail(left)
        /\ \A c \in Connections : c # Head(left) => due'[c] = due[c]
        /\ ~ reset[Head(left)] => due'[Head(left)] = TRUE
    BY <1>2, <1>11, <2>2
       DEF PublishPayload, PublisherOnly, AfterDelivery, WritePayload, Abort,
           TypeOK
  <2> QED
    BY <1>2, <1>11, <2>2, <2>3
       DEF PublishPayload, PublisherOnly, threadVars, clientVars,
           sessionVars, DocumentInv
<1>12. CASE QueueEvent
  BY <1>1, <1>2, <1>12
     DEF QueueEvent, PublisherOnly, threadVars, clientVars, sessionVars,
         socketVars, DocumentInv, TypeOK
<1>13. CASE Invalidate
  BY <1>1, <1>2, <1>13
     DEF Invalidate, Closing, publisherVars, threadVars, socketVars,
         clientVars, DocumentInv, TypeOK
<1>14. CASE ClearPending
  BY <1>1, <1>2, <1>14
     DEF ClearPending, Closing, publisherVars, threadVars, socketVars,
         clientVars, DocumentInv, TypeOK
<1>15. CASE CloseSubscribers
  BY <1>1, <1>2, <1>15
     DEF CloseSubscribers, Closing, publisherVars, threadVars, socketVars,
         DocumentInv, TypeOK
<1>16. CASE ClearDocument
  BY <1>1, <1>2, <1>16
     DEF ClearDocument, Closing, publisherVars, threadVars, socketVars,
         clientVars, DocumentInv, TypeOK
<1>17. ASSUME NEW c \in Connections, Ask(c) PROVE DocumentInv'
  BY <1>1, <1>2, <1>17
     DEF Ask, Goto, ThreadOnly, sessionVars, publisherVars, clientVars,
         transportVars, socketVars, DocumentInv, TypeOK
<1>18. ASSUME NEW c \in Connections, Register(c) PROVE DocumentInv'
  BY <1>1, <1>2, <1>18
     DEF Register, Goto, ThreadOnly, sessionVars, publisherVars, clientVars,
         socketVars, IsFull, DocumentInv, TypeOK
<1>19. ASSUME NEW c \in Connections, Upgrade(c) PROVE DocumentInv'
  BY <1>1, <1>2, <1>19
     DEF Upgrade, Goto, ThreadOnly, sessionVars, publisherVars, clientVars,
         transportVars, DocumentInv, TypeOK
<1>20. ASSUME NEW c \in Connections, Drain(c) PROVE DocumentInv'
  BY <1>1, <1>2, <1>20
     DEF Drain, Goto, ThreadOnly, sessionVars, publisherVars, clientVars,
         socketVars, DocumentInv, TypeOK
<1>21. ASSUME NEW c \in Connections, SendHeader(c) PROVE DocumentInv'
  BY <1>1, <1>2, <1>21
     DEF SendHeader, Goto, ThreadOnly, sessionVars, publisherVars, clientVars,
         transportVars, threadVars, socketVars, WriteHeader, DocumentInv,
         TypeOK
<1>22. ASSUME NEW c \in Connections, SendPayload(c) PROVE DocumentInv'
  BY <1>1, <1>2, <1>22
     DEF SendPayload, Goto, ThreadOnly, sessionVars, publisherVars, clientVars,
         transportVars, WritePayload, Abort, DocumentInv, TypeOK
<1>23. ASSUME NEW c \in Connections, Ping(c) PROVE DocumentInv'
  BY <1>1, <1>2, <1>23
     DEF Ping, Goto, ThreadOnly, sessionVars, publisherVars, clientVars,
         transportVars, socketVars, DocumentInv, TypeOK
<1>24. ASSUME NEW c \in Connections, BadFrame(c) PROVE DocumentInv'
  BY <1>1, <1>2, <1>24
     DEF BadFrame, Goto, ThreadOnly, sessionVars, publisherVars, clientVars,
         transportVars, socketVars, DocumentInv, TypeOK
<1>25. ASSUME NEW c \in Connections, Close(c) PROVE DocumentInv'
  BY <1>1, <1>2, <1>25
     DEF Close, Goto, ThreadOnly, sessionVars, publisherVars, clientVars,
         transportVars, socketVars, DocumentInv, TypeOK
<1>26. ASSUME NEW c \in Connections, Remove(c) PROVE DocumentInv'
  BY <1>1, <1>2, <1>26
     DEF Remove, Goto, ThreadOnly, sessionVars, publisherVars, clientVars,
         socketVars, DocumentInv, TypeOK
<1>27. ASSUME NEW c \in Connections, Fetch(c) PROVE DocumentInv'
  BY <1>1, <1>2, <1>27
     DEF Fetch, sessionVars, publisherVars, transportVars, threadVars,
         DocumentInv, TypeOK
<1>28. ASSUME NEW c \in Connections, Reset(c) PROVE DocumentInv'
  BY <1>1, <1>2, <1>28
     DEF Reset, sessionVars, publisherVars, transportVars, threadVars,
         socketVars, DocumentInv, TypeOK
<1>29. ASSUME NEW c \in Connections, NEW p \in 1..PagesOf[shown[c]],
              shown[c] # 0, ViewUpdate(c, p)
       PROVE  DocumentInv'
  BY <1>1, <1>2, <1>29
     DEF ViewUpdate, Goto, publisherVars, clientVars, transportVars,
         socketVars, DocumentInv, TypeOK
<1>30. CASE UNCHANGED vars
  BY <1>1, <1>2, <1>30
     DEF vars, sessionVars, transportVars, publisherVars, threadVars,
         socketVars, clientVars, DocumentInv, TypeOK
<1> QED
  BY <1>1, <1>3, <1>4, <1>5, <1>6, <1>7, <1>8, <1>9, <1>10, <1>11, <1>12, <1>13,
     <1>14, <1>15, <1>16, <1>17, <1>18, <1>19, <1>20, <1>21, <1>22, <1>23, <1>24,
     <1>25, <1>26, <1>27, <1>28, <1>29, <1>30
     DEF Next, Publisher, Invalidation, Thread

-----------------------------------------------------------------------------
(* The theorems.                                                           *)

(* The invariant holds in every state of every run of the server.          *)
THEOREM Invariance == Spec => []Inv
<1>1. Init => Inv
  BY InitInv
<1>2. Inv /\ [Next]_vars => Inv'
  <2> SUFFICES ASSUME Inv, [Next]_vars PROVE Inv'
    OBVIOUS
  <2>1. setting' \in Settings
    BY DEF Inv, Next, vars
  <2> QED
    BY <2>1, TypeStep, PlacesStep, EventsStep, DocumentStep DEF Inv
<1> QED
  BY <1>1, <1>2, PTL DEF Spec

(* Every variable keeps its type; in particular no more connections hold a *)
(* place than MAX_EVENT_SUBSCRIBERS_PER_SESSION.                           *)
THEOREM TypeCorrect == Spec => []TypeOK
<1>1. Inv => TypeOK
  BY DEF Inv
<1> QED
  BY <1>1, Invariance, PTL

(* An orderly close gives the place back, whatever the publisher is doing: *)
(* remove_event_subscriber.                                                *)
THEOREM PlacesGivenBack == Spec => []ClosedGivesPlaceBack
<1>1. Inv => ClosedGivesPlaceBack
  <2> SUFFICES ASSUME Inv, NEW c \in Elements(slots), conn[c] = "ended" PROVE reset[c]
    BY DEF ClosedGivesPlaceBack
  <2>1. c \in Connections
    BY Empty DEF Inv, TypeOK
  <2> QED
    BY <2>1 DEF Inv, PlacesInv, Subscribed
<1> QED
  BY <1>1, Invariance, PTL

(* No connection gets the event of a revision twice, whether from the      *)
(* queue or from the publisher.                                            *)
THEOREM EventsAtMostOnce == Spec => []AtMostOnce
<1>1. Inv => AtMostOnce
  BY DEF Inv, EventsInv, ToldInv, IsOnce, AtMostOnce
<1> QED
  BY <1>1, Invariance, PTL

(* No event runs ahead of its PDF: publish_pdf before advance_revision,    *)
(* and the queue holds what has been published only.                       *)
THEOREM DocumentFirst == Spec => []DocumentBeforeEvent
<1>1. Inv => DocumentBeforeEvent
  <2> SUFFICES ASSUME Inv, ~invalidated, NEW c \in Connections,
                      NEW k \in Elements(got[c]) \cup Elements(pending)
               PROVE  k <= document
    BY DEF DocumentBeforeEvent
  <2>1. k \in Revisions /\ Elements(got[c]) \subseteq Told(c)
    BY Empty DEF Inv, TypeOK, Told
  <2>2. k \in Nat /\ k # Pong /\ revision \in Nat
    BY <2>1, PongAssumption, BoundsAssumption DEF Revisions, Inv, TypeOK
  <2>3. k <= revision
    BY <2>1, <2>2 DEF Inv, EventsInv, QueueInv, ToldInv
  <2>4. document = IF pc = "advance" THEN revision + 1 ELSE revision
    BY DEF Inv, DocumentInv
  <2> QED
    BY <2>2, <2>3, <2>4
<1> QED
  BY <1>1, Invariance, PTL

(* A served client that has fetched the document since its last frame      *)
(* shows the newest PDF whenever nothing is under way.                     *)
THEOREM ClientsAreCurrent == Spec => []FetchingClientIsCurrent
<1>1. Inv => FetchingClientIsCurrent
  <2> SUFFICES ASSUME Inv, Quiet, NEW c \in Connections, Serving(c), ~due[c]
               PROVE  shown[c] = document
    BY DEF FetchingClientIsCurrent
  <2>1. ~invalidated /\ left = <<>>
    BY DEF Inv, DocumentInv, PlacesInv, Quiet, Delivering
  <2>2. c \notin Elements(left)
    BY <2>1, Empty
  <2> QED
    BY <2>1, <2>2 DEF Inv, DocumentInv, Quiet, Serving
<1> QED
  BY <1>1, Invariance, PTL
=============================================================================

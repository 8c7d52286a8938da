---------------------------- MODULE FmdAdm_proofs ----------------------------
(***************************************************************************)
(* Proofs about the administration, for any number of modules, events and  *)
(* page and queue sizes: messages are conserved, so that nobody who waits  *)
(* is left without one, for any number of clients, while the server has    *)
(* destroyed no more than killed clients left behind; and what a lone      *)
(* client reports is true and complete.                                    *)
(***************************************************************************)
EXTENDS FmdAdm, FiniteSetTheorems, SequenceTheorems, TLAPS

-----------------------------------------------------------------------------
(* The invariants.                                                         *)

\* The messages of the queue and of the server.
Messages == ToSet(mq) \cup ({held} \ {NONE})

\* Whoever waits has put one message in and taken none: a message for each of
\* them and for each client killed, but for those the server has destroyed.
Held == IF held = NONE THEN 0 ELSE 1
Conserved == Cardinality(Waiting) + kills = Len(mq) + Held + lost

StrandInv ==
  /\ TypeOK
  /\ \A c \in Client : nextpage[c] # NONE => request[c] = NONE
  /\ Conserved

\* The server destroys the message it is at, with itself or not.
Destroyed ==
  /\ held # NONE /\ held' = NONE
  /\ lost' = lost + 1 /\ down' \in BOOLEAN
  /\ UNCHANGED <<mq, loaded, events, clivars, kills>>

\* A lone client has at most one message on its way, its request or an answer
\* to it that is true; it has nothing to report while it waits.
Fits(r, m) ==
  /\ r.op = "load" => \/ m = r
                      \/ m.op = "text" /\ (m.failed = TRUE \/ r.mod \in loaded)
  /\ r.op = "unload" => m = r \/ (m.op = "text" /\ r.mod \notin loaded)
  /\ r.op = "modlist" => m = r \/ m = Mods(loaded)
  /\ r.op = "config" => m.op \in {"config", "text"}
  /\ r.op = "caselist" => m = r \/ m.op = "cases"

Alone(c) ==
  /\ request[c] = NONE => mq = <<>> /\ held = NONE
  /\ request[c] # NONE => nextpage[c] = NONE /\ \A m \in Messages : Fits(request[c], m)
  /\ request[c] # NONE \/ nextpage[c] # NONE => report[c] = NONE
  /\ down => request[c] # NONE /\ mq = <<>> /\ held = NONE

OneMessage ==
  /\ mq = <<>> \/ (held = NONE /\ Len(mq) = 1)
  /\ \A c \in Client : Alone(c)

LoneInv == TypeOK /\ OneMessage /\ LoneClientTruth

\* What the pages got so far lack of the events that were there all the time
\* is on the page under way or after it.
After(n) == {events[i] : i \in n + 1 .. Len(events)}
Promised(c, m) ==
  /\ m.op = "caselist" => base[c] \subseteq got[c] \cup After(request[c].num)
  /\ m.op = "cases" => base[c] \subseteq got[c] \cup ToSet(m.secs)
                                     \cup (IF Len(m.secs) = FAF_NUM
                                             THEN After(request[c].num + FAF_NUM) ELSE {})

Follows(c) ==
  /\ request[c] # NONE /\ request[c].op = "caselist" => \A m \in Messages : Promised(c, m)
  /\ nextpage[c] # NONE => base[c] \subseteq got[c] \cup After(nextpage[c])
  /\ Reported(c, "caselist") => base[c] \subseteq got[c]

Listed == \A c \in Client : Follows(c)

ListInv == LoneInv /\ Listed

-----------------------------------------------------------------------------
(* Facts about the helpers.                                                *)

LEMMA AdmSizes ==
  /\ FAF_NUM \in Nat /\ FAF_NUM >= 1 /\ MQ_MAX \in Nat /\ MQ_MAX >= 1
  /\ MaxKills \in Nat /\ EchoMax \in Nat
  BY AdmAssumption

LEMMA NotNone == NONE \notin Message /\ NONE \notin Outcome /\ NONE \notin Nat
  BY MessageAssumption

LEMMA MessageParts ==
  ASSUME NEW m \in Message
  PROVE  /\ m # NONE
         /\ m.op \in {"load", "unload", "modlist", "config", "caselist", "text", "cases", "mods"}
         /\ m.op \in {"load", "unload"} => m.mod \in Module
         /\ m.op = "caselist" => m.num \in Nat
         /\ m.op = "text" => m.failed \in BOOLEAN /\ m.echo \in Nat
         /\ m.op = "cases" => m.secs \in Seq(Event)
         /\ m.op = "mods" => m.secs \subseteq Module
<1>1. m # NONE
  BY NotNone
<1>2. CASE m \in Request
  BY <1>1, <1>2 DEF Request
<1>3. CASE m \in Reply
  <2>1. CASE m \in [op : {"text"}, failed : BOOLEAN, echo : 0 .. EchoMax]
    <3>1. m.op = "text" /\ m.failed \in BOOLEAN /\ m.echo \in 0 .. EchoMax
      BY <2>1
    <3>2. m.echo \in Nat
      BY <3>1, AdmSizes
    <3>3. QED
      BY <1>1, <3>1, <3>2
  <2>2. CASE m \in [op : {"cases"}, secs : Seq(Event)] \cup [op : {"mods"}, secs : SUBSET Module]
    BY <1>1, <2>2
  <2>3. QED
    BY <1>3, <2>1, <2>2 DEF Reply
<1>4. QED
  BY <1>2, <1>3 DEF Message

LEMMA ReplyTypes ==
  /\ \A b \in BOOLEAN, n \in 0 .. EchoMax : Text(b, n) \in Message
  /\ \A p \in Seq(Event) : Cases(p) \in Message
  /\ \A s \in SUBSET Module : Mods(s) \in Message
  /\ \A n \in Nat : CaseList(n) \in Request
  BY DEF Text, Cases, Mods, CaseList, Message, Reply, Request

LEMMA MinOfTwo ==
  ASSUME NEW a \in Nat, NEW b \in Nat
  PROVE  Min({a, b}) = IF a <= b THEN a ELSE b
<1>1. \E x \in {a, b} : \A y \in {a, b} : x <= y
  OBVIOUS
<1>2. Min({a, b}) \in {a, b} /\ \A y \in {a, b} : Min({a, b}) <= y
  BY <1>1 DEF Min
<1>3. QED
  BY <1>2

\* A page, and what comes after it, are the events after the num-th.
LEMMA PageParts ==
  ASSUME events \in Seq(Event), NEW num \in Nat
  PROVE  /\ Page(num) \in Seq(Event)
         /\ After(num) \subseteq ToSet(Page(num)) \cup (IF Len(Page(num)) = FAF_NUM
                                                         THEN After(num + FAF_NUM) ELSE {})
<1>1. PICK k : k = Min({num + FAF_NUM, Len(events)})
  OBVIOUS
<1>2. Len(events) \in Nat /\ k \in Nat /\ k <= Len(events) /\ k <= num + FAF_NUM
      /\ (k = num + FAF_NUM \/ k = Len(events))
  BY <1>1, AdmSizes, MinOfTwo
<1>3. PICK p : p = SubSeq(events, num + 1, k)
  OBVIOUS
<1>4. Page(num) = p
  BY <1>1, <1>3 DEF Page
<1>5. p \in Seq(Event)
  BY <1>2, <1>3
<1>6. CASE num < k
  <2>1. Len(p) = k - num /\ \A i \in 1 .. k - num : p[i] = events[num + i]
    BY <1>2, <1>3, <1>6
  <2>2. ASSUME NEW j \in num + 1 .. Len(events), j <= k PROVE events[j] \in ToSet(p)
    <3>1. j - num \in 1 .. k - num /\ num + (j - num) = j
      BY <1>2, <2>2
    <3>2. p[j - num] = events[j]
      BY <2>1, <3>1
    <3>3. DOMAIN p = 1 .. k - num
      BY <1>5, <2>1
    <3>4. QED
      BY <3>1, <3>2, <3>3 DEF ToSet
  <2>3. ASSUME NEW j \in num + 1 .. Len(events), ~ (j <= k)
        PROVE  Len(p) = FAF_NUM /\ events[j] \in After(num + FAF_NUM)
    <3>1. k = num + FAF_NUM /\ j \in num + FAF_NUM + 1 .. Len(events)
      BY <1>2, <2>3, AdmSizes
    <3>2. Len(p) = FAF_NUM
      BY <2>1, <3>1, AdmSizes
    <3>3. QED
      BY <3>1, <3>2 DEF After
  <2>4. QED
    BY <1>4, <1>5, <2>2, <2>3 DEF After
<1>7. CASE ~ (num < k)
  <2>1. num + 1 .. Len(events) = {}
    BY <1>2, <1>7, AdmSizes
  <2>2. After(num) = {}
    BY <2>1 DEF After
  <2>3. QED
    BY <1>4, <1>5, <2>2
<1>8. QED
  BY <1>6, <1>7

\* InsertAt puts one element in and keeps the others, in their order.
LEMMA Inserted ==
  ASSUME NEW s \in Seq(Event), NEW e \in Event, NEW k \in 1 .. Len(s) + 1
  PROVE  /\ InsertAt(s, k, e) \in Seq(Event)
         /\ \A n \in Nat : \A j \in n + 1 .. Len(s) :
              \E i \in n + 1 .. Len(InsertAt(s, k, e)) : InsertAt(s, k, e)[i] = s[j]
<1>1. Len(s) \in Nat /\ k \in Nat /\ k >= 1 /\ k <= Len(s) + 1
  OBVIOUS
<1>2. SubSeq(s, 1, k - 1) \in Seq(Event) /\ SubSeq(s, k, Len(s)) \in Seq(Event)
  BY <1>1
<1>3. PICK u \in Seq(Event) : u = SubSeq(s, 1, k - 1)
  BY <1>2
<1>4. PICK v \in Seq(Event) : v = SubSeq(s, k, Len(s))
  BY <1>2
<1>5. /\ Len(u) = k - 1 /\ \A i \in 1 .. k - 1 : u[i] = s[i]
      /\ Len(v) = Len(s) - k + 1 /\ \A i \in 1 .. Len(s) - k + 1 : v[i] = s[i + k - 1]
  BY <1>1, <1>3, <1>4
<1>6. PICK w \in Seq(Event) : w = Append(u, e)
  BY AppendProperties
<1>7. Len(w) = k /\ \A i \in 1 .. k - 1 : w[i] = s[i]
  <2>1. Len(w) = Len(u) + 1 /\ \A i \in 1 .. Len(u) : w[i] = u[i]
    BY <1>6, AppendProperties
  <2>2. QED
    BY <1>1, <1>5, <2>1
<1>8. u \o <<e>> = w
  BY <1>6, AppendIsConcat
<1>9. PICK t : t = w \o v
  OBVIOUS
<1>10. /\ t \in Seq(Event) /\ Len(t) = Len(w) + Len(v)
       /\ \A i \in 1 .. Len(w) + Len(v) : t[i] = IF i <= Len(w) THEN w[i] ELSE v[i - Len(w)]
  BY <1>9, ConcatProperties
<1>11. InsertAt(s, k, e) = t
  BY <1>3, <1>4, <1>8, <1>9, Zenon DEF InsertAt
<1>12. Len(t) = Len(s) + 1
  BY <1>1, <1>5, <1>7, <1>10
<1>13. ASSUME NEW n \in Nat, NEW j \in n + 1 .. Len(s)
       PROVE  \E i \in n + 1 .. Len(t) : t[i] = s[j]
  <2>1. CASE j < k
    <3>1. j \in n + 1 .. Len(t) /\ j \in 1 .. k - 1
      BY <1>1, <1>12, <2>1
    <3>2. j \in 1 .. Len(w) + Len(v) /\ j <= Len(w)
      BY <1>1, <1>5, <1>7, <3>1
    <3>3. t[j] = w[j]
      BY <1>10, <3>2
    <3>4. w[j] = s[j]
      BY <1>7, <3>1
    <3>5. QED
      BY <3>1, <3>3, <3>4
  <2>2. CASE ~ (j < k)
    <3>1. j + 1 \in n + 1 .. Len(t) /\ j + 1 \in 1 .. Len(w) + Len(v) /\ ~ (j + 1 <= Len(w))
      BY <1>1, <1>5, <1>7, <1>12, <2>2
    <3>2. t[j + 1] = v[j + 1 - k]
      BY <1>7, <1>10, <3>1
    <3>3. j + 1 - k \in 1 .. Len(s) - k + 1 /\ j + 1 - k + k - 1 = j
      BY <1>1, <2>2
    <3>4. v[j + 1 - k] = s[j]
      BY <1>5, <3>3
    <3>5. QED
      BY <3>1, <3>2, <3>4
  <2>3. QED
    BY <2>1, <2>2
<1>14. QED
  BY <1>10, <1>11, <1>13, Zenon

\* An event more, wherever: the ones after the n-th stay after it.
LEMMA InsertedAfter ==
  ASSUME events \in Seq(Event), AddEvent
  PROVE  /\ events' \in Seq(Event)
         /\ \A n \in Nat : After(n) \subseteq After(n)'
<1>1. PICK e \in Event, k \in 1 .. Len(events) + 1 : events' = InsertAt(events, k, e)
  BY Zenon DEF AddEvent
<1>2. PICK t : t = events'
  OBVIOUS
<1>3. /\ t \in Seq(Event)
      /\ \A n \in Nat : \A j \in n + 1 .. Len(events) : \E i \in n + 1 .. Len(t) : t[i] = events[j]
  BY <1>1, <1>2, Inserted, Zenon
<1>4. \A n \in Nat : After(n)' = {t[i] : i \in n + 1 .. Len(t)}
  BY <1>2, Zenon DEF After
<1>5. ASSUME NEW n \in Nat PROVE {events[i] : i \in n + 1 .. Len(events)} \subseteq {t[i] : i \in n + 1 .. Len(t)}
  <2>1. ASSUME NEW x \in {events[i] : i \in n + 1 .. Len(events)} PROVE x \in {t[i] : i \in n + 1 .. Len(t)}
    <3>1. PICK j \in n + 1 .. Len(events) : x = events[j]
      BY <2>1, Zenon
    <3>2. PICK i \in n + 1 .. Len(t) : t[i] = events[j]
      BY <1>3, Zenon
    <3>3. QED
      BY <3>1, <3>2, Zenon
  <2>2. QED
    BY <2>1, Zenon
<1>6. QED
  BY <1>2, <1>3, <1>4, <1>5, Zenon DEF After

\* RemoveAt makes a sequence of the same events.
LEMMA RemovedType ==
  ASSUME NEW s \in Seq(Event), NEW k \in 1 .. Len(s)
  PROVE  RemoveAt(s, k) \in Seq(Event)
<1>1. SubSeq(s, 1, k - 1) \in Seq(Event) /\ SubSeq(s, k + 1, Len(s)) \in Seq(Event)
  OBVIOUS
<1>2. QED
  BY <1>1, ConcatProperties, Zenon DEF RemoveAt

\* mq_send and mq_receive.
LEMMA Appended ==
  ASSUME NEW s \in Seq(Message), NEW m \in Message
  PROVE  /\ Append(s, m) \in Seq(Message) /\ Len(Append(s, m)) = Len(s) + 1
         /\ ToSet(Append(s, m)) = ToSet(s) \cup {m}
<1>1. PICK t : t = Append(s, m)
  OBVIOUS
<1>2. /\ t \in Seq(Message) /\ Len(t) = Len(s) + 1
      /\ \A i \in 1 .. Len(s) : t[i] = s[i]
      /\ t[Len(s) + 1] = m
  BY <1>1, AppendProperties
<1>3. DOMAIN t = 1 .. Len(s) + 1 /\ DOMAIN s = 1 .. Len(s) /\ Len(s) \in Nat
  BY <1>2
<1>4. DOMAIN t = DOMAIN s \cup {Len(s) + 1}
  BY <1>3
<1>5. ToSet(t) = ToSet(s) \cup {m}
  BY <1>2, <1>3, <1>4 DEF ToSet
<1>6. QED
  BY <1>1, <1>2, <1>5

LEMMA Taken ==
  ASSUME NEW s \in Seq(Message), s # <<>>
  PROVE  /\ Head(s) \in Message /\ Head(s) \in ToSet(s)
         /\ Tail(s) \in Seq(Message) /\ Len(Tail(s)) = Len(s) - 1
         /\ ToSet(Tail(s)) \subseteq ToSet(s)
<1>1. PICK t : t = Tail(s)
  OBVIOUS
<1>2. PICK h : h = Head(s)
  OBVIOUS
<1>3. Len(s) \in Nat /\ Len(s) >= 1 /\ DOMAIN s = 1 .. Len(s) /\ h = s[1]
  BY <1>2
<1>4. /\ h \in Message /\ t \in Seq(Message) /\ Len(t) = Len(s) - 1
      /\ \A i \in 1 .. Len(t) : t[i] = s[i + 1]
  BY <1>1, <1>2, HeadTailProperties
<1>5. DOMAIN t = 1 .. Len(s) - 1
  BY <1>3, <1>4
<1>6. ToSet(t) \subseteq ToSet(s)
  <2>1. ASSUME NEW x \in ToSet(t) PROVE x \in ToSet(s)
    <3>1. PICK i \in 1 .. Len(s) - 1 : x = t[i]
      BY <1>5, <2>1 DEF ToSet
    <3>2. i + 1 \in 1 .. Len(s) /\ t[i] = s[i + 1]
      BY <1>3, <1>4
    <3>3. QED
      BY <1>3, <3>1, <3>2 DEF ToSet
  <2>2. QED
    BY <2>1
<1>7. h \in ToSet(s)
  BY <1>3 DEF ToSet
<1>8. QED
  BY <1>1, <1>2, <1>4, <1>6, <1>7

\* The queue after a message was put in, or taken out.
LEMMA QueuePut ==
  ASSUME mq \in Seq(Message), Len(mq) <= MQ_MAX, NEW m \in Message, Len(mq) < MQ_MAX, mq' = Append(mq, m)
  PROVE  /\ mq' \in Seq(Message) /\ Len(mq)' = Len(mq) + 1 /\ Len(mq') <= MQ_MAX
         /\ ToSet(mq') = ToSet(mq) \cup {m}
<1>1. /\ mq' \in Seq(Message) /\ Len(mq)' = Len(mq) + 1 /\ ToSet(mq') = ToSet(mq) \cup {m}
  BY Appended, Zenon
<1>2. Len(mq) \in Nat
  OBVIOUS
<1>3. ASSUME NEW n \in Nat, n < MQ_MAX PROVE n + 1 <= MQ_MAX
  BY <1>3, AdmSizes
<1>4. Len(mq) + 1 <= MQ_MAX
  BY <1>2, <1>3, Zenon
<1>5. QED
  BY <1>1, <1>4, Zenon

LEMMA QueueTaken ==
  ASSUME mq \in Seq(Message), Len(mq) <= MQ_MAX, mq # <<>>, mq' = Tail(mq)
  PROVE  /\ mq' \in Seq(Message) /\ Len(mq)' = Len(mq) - 1 /\ Len(mq') <= MQ_MAX
         /\ ToSet(mq') \subseteq ToSet(mq) /\ Head(mq) \in Message /\ Head(mq) \in ToSet(mq)
<1>1. /\ mq' \in Seq(Message) /\ Len(mq)' = Len(mq) - 1 /\ ToSet(mq') \subseteq ToSet(mq)
      /\ Head(mq) \in Message /\ Head(mq) \in ToSet(mq)
  BY Taken, Zenon
<1>2. Len(mq) \in Nat
  OBVIOUS
<1>3. ASSUME NEW n \in Nat, n <= MQ_MAX PROVE n - 1 <= MQ_MAX
  BY <1>3, AdmSizes
<1>4. Len(mq) - 1 <= MQ_MAX
  BY <1>2, <1>3, Zenon
<1>5. QED
  BY <1>1, <1>4, Zenon


-----------------------------------------------------------------------------
(* The types.                                                              *)

\* The message the server is at, and what it sends.
LEMMA Sent ==
  ASSUME TypeOK, NEW m \in Message, Send(m)
  PROVE  /\ mq' \in Seq(Message) /\ Len(mq)' = Len(mq) + 1 /\ Len(mq') <= MQ_MAX
         /\ ToSet(mq') = ToSet(mq) \cup {m} /\ held' = NONE
<1>1. mq \in Seq(Message) /\ Len(mq) <= MQ_MAX
  BY DEF TypeOK
<1>2. Len(mq) < MQ_MAX /\ mq' = Append(mq, m) /\ held' = NONE
  BY DEF Send
<1>3. QED
  BY <1>1, <1>2, QueuePut, Zenon

LEMMA HeldMessage ==
  ASSUME TypeOK, held # NONE
  PROVE  held \in Message
  BY DEF TypeOK

\* What the server is at when it handles something.
LEMMA AtMessage ==
  ASSUME TypeOK, Handle
  PROVE  held # NONE /\ held \in Message /\ UNCHANGED <<events, clivars, kills>>
<1>1. held # NONE /\ UNCHANGED <<events, clivars, kills>>
  BY DEF Handle, DoCaseList, OwnCaseList, DoModList, DoLoad, DoUnload, DoIllegal, Illegal
<1>2. QED
  BY <1>1, HeldMessage

\* "illegal cmd" keeps the verdict of the text it echoes.
LEMMA EchoSent ==
  ASSUME TypeOK, DoIllegal, ~ Destroyed
  PROVE  /\ held.op \in {"config", "text"} /\ UNCHANGED <<down, loaded, events, clivars, kills, lost>>
         /\ \E b \in BOOLEAN, n \in 0 .. EchoMax :
              Send(Text(b, n)) /\ b = (held.op = "text" /\ held.failed = TRUE)
<1>1. held # NONE /\ held \in Message /\ held.op \in {"config", "text"}
      /\ UNCHANGED <<loaded, events, clivars, kills>>
  BY HeldMessage DEF DoIllegal, Illegal
<1>2. (held.op = "text" => held.failed \in BOOLEAN) /\ EchoMax \in 0 .. EchoMax
  BY <1>1, MessageParts, AdmSizes
<1>3. PICK b \in BOOLEAN : b = (held.op = "text" /\ held.failed = TRUE)
  OBVIOUS
<1>4. b = Failed
  BY <1>2, <1>3 DEF Failed
<1>5. Echo \in Nat
  BY <1>1, MessageParts DEF Echo
<1>6. CASE Echo <= EchoMax /\ Send(Text(Failed, Echo)) /\ UNCHANGED <<down, lost>>
  <2>1. Echo \in 0 .. EchoMax
    BY <1>5, <1>6, AdmSizes
  <2>2. QED
    BY <1>1, <1>3, <1>4, <1>6, <2>1, Zenon
<1>7. CASE Echo > EchoMax /\ Send(Text(Failed, EchoMax)) /\ UNCHANGED <<down, lost>>
  BY <1>1, <1>2, <1>3, <1>4, <1>7, Zenon
<1>8. CASE held' = NONE /\ lost' = lost + 1 /\ down' \in BOOLEAN /\ UNCHANGED mq
  <2>1. Destroyed
    BY <1>1, <1>8 DEF Destroyed
  <2>2. QED
    BY <2>1
<1>9. QED
  BY <1>6, <1>7, <1>8 DEF DoIllegal

\* Each answer of the server is a message.
LEMMA Answer ==
  ASSUME TypeOK, Handle, ~ Destroyed
  PROVE  /\ \E m \in Reply : Send(m)
         /\ loaded' \in SUBSET Module
         /\ UNCHANGED <<down, events, clivars, kills, lost>>
<1>1. held \in Message /\ held # NONE
  BY AtMessage
<1>2. loaded \in SUBSET Module
  BY DEF TypeOK
<1>3. \A b \in BOOLEAN, n \in 0 .. EchoMax : Text(b, n) \in Reply
  BY DEF Text, Reply
<1> 0 \in 0 .. EchoMax
  BY AdmSizes
<1>4. CASE DoCaseList
  <2>1. held.num \in Nat
    BY <1>1, <1>4, MessageParts DEF DoCaseList
  <2>2. Page(held.num) \in Seq(Event)
    BY <2>1, PageParts DEF TypeOK
  <2>3. Cases(Page(held.num)) \in Reply
    BY <2>2 DEF Cases, Reply
  <2>4. QED
    BY <1>2, <1>4, <2>3 DEF DoCaseList
<1>5. CASE DoModList
  <2>1. Mods(loaded) \in Reply
    BY <1>2 DEF Mods, Reply
  <2>2. QED
    BY <1>2, <1>5, <2>1 DEF DoModList
<1>6. CASE DoLoad
  <2>1. held.mod \in Module
    BY <1>1, <1>6, MessageParts DEF DoLoad
  <2>2. QED
    BY <1>2, <1>3, <1>6, <2>1 DEF DoLoad
<1>7. CASE DoUnload
  <2>1. (held.mod \notin loaded) \in BOOLEAN
    OBVIOUS
  <2>2. PICK b \in BOOLEAN : b = (held.mod \notin loaded)
    BY <2>1
  <2>3. Send(Text(b, 0))
    BY <1>7, <2>2 DEF DoUnload
  <2>4. QED
    BY <1>2, <1>3, <1>7, <2>3 DEF DoUnload
<1>8. CASE DoIllegal
  <2>1. PICK b \in BOOLEAN, n \in 0 .. EchoMax : Send(Text(b, n))
    BY <1>8, EchoSent
  <2>2. UNCHANGED <<down, loaded, events, clivars, kills, lost>>
    BY <1>8, EchoSent
  <2>3. QED
    BY <1>2, <1>3, <2>1, <2>2
<1>9. CASE OwnCaseList
  <2>1. Destroyed
    BY <1>9 DEF OwnCaseList, Destroyed
  <2>2. QED
    BY <2>1
<1>10. QED
  BY <1>4, <1>5, <1>6, <1>7, <1>8, <1>9 DEF Handle

\* The client takes a message.
LEMMA TakeParts ==
  ASSUME TypeOK, NEW c \in Client, Take(c)
  PROVE  /\ request[c] \in Request /\ request[c] # NONE
         /\ mq # <<>> /\ mq' = Tail(mq) /\ Head(mq) \in Message /\ Head(mq) \in ToSet(mq)
         /\ mq' \in Seq(Message) /\ Len(mq)' = Len(mq) - 1 /\ Len(mq') <= MQ_MAX
         /\ ToSet(mq') \subseteq ToSet(mq)
         /\ request' = [request EXCEPT ![c] = NONE]
         /\ UNCHANGED <<srvvars, events, base, kills, lost>>
<1>1. mq \in Seq(Message) /\ Len(mq) <= MQ_MAX /\ request[c] \in Request \cup {NONE}
  BY DEF TypeOK
<1>2. request[c] # NONE /\ mq # <<>> /\ mq' = Tail(mq)
  BY DEF Take, TakeLoad, TakeText, TakeMods, TakeCases, Answered
<1>3. request' = [request EXCEPT ![c] = NONE] /\ UNCHANGED <<srvvars, events, base, kills, lost>>
  BY DEF Take, TakeLoad, TakeText, TakeMods, TakeCases, Done
<1>4. QED
  BY <1>1, <1>2, <1>3, QueueTaken, Zenon


LEMMA TakeTypes ==
  ASSUME TypeOK, NEW c \in Client, Take(c)
  PROVE  /\ report' \in [Client -> Outcome \cup {NONE}]
         /\ nextpage' \in [Client -> Nat \cup {NONE}]
         /\ got' \in [Client -> SUBSET Event]
<1>1. /\ request[c] \in Request /\ Head(mq) \in Message
      /\ report \in [Client -> Outcome \cup {NONE}] /\ nextpage \in [Client -> Nat \cup {NONE}]
      /\ got \in [Client -> SUBSET Event]
  BY TakeParts DEF TypeOK
<1>2. \A b \in BOOLEAN : [cmd |-> request[c], ok |-> b, answer |-> Head(mq)] \in Outcome
  BY <1>1 DEF Outcome
<1>3. ASSUME NEW b \in BOOLEAN, Done(c, b) PROVE report' \in [Client -> Outcome \cup {NONE}]
  BY <1>1, <1>2, <1>3 DEF Done
<1>4. CASE TakeLoad(c)
  <2>1. PICK b \in BOOLEAN : b = (/\ Head(mq).op \notin {"load", "unload"}
                                  /\ ~(Head(mq).op = "text" /\ Head(mq).failed))
    OBVIOUS
  <2>2. Done(c, b)
    BY <1>4, <2>1 DEF TakeLoad
  <2>3. QED
    BY <1>1, <1>3, <1>4, <2>2 DEF TakeLoad
<1>5. CASE TakeText(c)
  <2>1. PICK b \in BOOLEAN : b = (/\ Head(mq).op # "unload"
                                  /\ ~(Head(mq).op = "text" /\ Head(mq).failed))
    OBVIOUS
  <2>2. Done(c, b)
    BY <1>5, <2>1 DEF TakeText
  <2>3. QED
    BY <1>1, <1>3, <1>5, <2>2 DEF TakeText
<1>6. CASE TakeMods(c)
  <2>1. PICK b \in BOOLEAN : b = (\/ Head(mq).op = "mods" /\ Head(mq).secs # {}
                                  \/ Head(mq).op = "cases" /\ Head(mq).secs # <<>>)
    OBVIOUS
  <2>2. Done(c, b)
    BY <1>6, <2>1 DEF TakeMods
  <2>3. QED
    BY <1>1, <1>3, <1>6, <2>2 DEF TakeMods
<1>7. CASE TakeCases(c)
  <2>1. PICK page : page = IF Head(mq).op = "cases" THEN Head(mq).secs ELSE <<>>
    OBVIOUS
  <2>2. page \in Seq(Event)
    BY <1>1, <2>1, MessageParts
  <2>3. ToSet(page) \subseteq Event
    BY <2>2 DEF ToSet
  <2>4. got' = [got EXCEPT ![c] = got[c] \cup ToSet(page)]
    BY <1>7, <2>1 DEF TakeCases
  <2>5. got' \in [Client -> SUBSET Event]
    BY <1>1, <2>3, <2>4
  <2>6. request[c].num \in Nat
    BY <1>1, <1>7, MessageParts DEF TakeCases, Answered, Message
  <2>7. CASE Len(page) = FAF_NUM
    <3>1. UNCHANGED report /\ nextpage' = [nextpage EXCEPT ![c] = request[c].num + FAF_NUM]
      BY <1>7, <2>1, <2>7 DEF TakeCases
    <3>2. request[c].num + FAF_NUM \in Nat
      BY <2>6, AdmSizes
    <3>3. QED
      BY <1>1, <2>5, <3>1, <3>2
  <2>8. CASE Len(page) # FAF_NUM
    <3>1. PICK b \in BOOLEAN : b = (page # <<>> \/ (Head(mq).op = "mods" /\ Head(mq).secs # {}))
      OBVIOUS
    <3>2. Done(c, b) /\ UNCHANGED nextpage
      BY <1>7, <2>1, <2>8, <3>1 DEF TakeCases
    <3>3. QED
      BY <1>1, <1>3, <2>5, <3>2
  <2>9. QED
    BY <2>7, <2>8
<1>8. QED
  BY <1>4, <1>5, <1>6, <1>7 DEF Take

\* A client asks.
LEMMA AskParts ==
  ASSUME TypeOK, NEW c \in Client, NEW r \in Request, Ask(c, r)
  PROVE  /\ mq' \in Seq(Message) /\ Len(mq)' = Len(mq) + 1 /\ Len(mq') <= MQ_MAX
         /\ ToSet(mq') = ToSet(mq) \cup {r}
         /\ request' = [request EXCEPT ![c] = r]
         /\ request' \in [Client -> Request \cup {NONE}]
<1>1. mq \in Seq(Message) /\ Len(mq) <= MQ_MAX /\ r \in Message
      /\ request \in [Client -> Request \cup {NONE}]
  BY DEF TypeOK, Message
<1>2. Len(mq) < MQ_MAX /\ mq' = Append(mq, r) /\ request' = [request EXCEPT ![c] = r]
  BY DEF Ask
<1>3. request' \in [Client -> Request \cup {NONE}]
  BY <1>1, <1>2
<1>4. QED
  BY <1>1, <1>2, <1>3, QueuePut, Zenon

\* A command that asks the daemon is a request.
LEMMA RunParts ==
  ASSUME NEW c \in Client, NEW r \in Command, Main(c, r)
  PROVE  \/ /\ r \in Request /\ Run(c, r)
            /\ r.op = "caselist" => r = CaseList(0)
         \/ FaultyFails(c, r)
<1>1. r \in Request \cup {[op |-> "repaired"]} /\ (r.op = "caselist" => r = CaseList(0))
  BY MessageAssumption
<1>2. [op |-> "repaired"].op = "repaired"
  OBVIOUS
<1>3. QED
  BY <1>1, <1>2 DEF Main, LoadModule, UnloadModule, GetModuleInfo, ConfigModule, CmdFaulty


LEMMA InitTypes == Init => TypeOK
<1> SUFFICES ASSUME Init PROVE TypeOK
  OBVIOUS
<1>1. events \in Seq(Event)
  <2>1. PICK n \in 0 .. Cardinality(Event) : events \in [1 .. n -> Event]
    BY DEF Init, SeqOf
  <2>2. n \in Nat
    BY <2>1
  <2>3. QED
    BY <2>1, <2>2, SeqDef
<1>2. mq \in Seq(Message) /\ Len(mq) <= MQ_MAX
  BY AdmSizes DEF Init
<1>3. kills \in 0 .. MaxKills
  BY AdmSizes DEF Init
<1>4. QED
  BY <1>1, <1>2, <1>3 DEF Init, TypeOK

LEMMA TypeNext == TypeOK /\ [Next]_vars => TypeOK'
<1> SUFFICES ASSUME TypeOK, [Next]_vars PROVE TypeOK'
  OBVIOUS
<1>1. CASE Receive
  <2>1. mq \in Seq(Message) /\ Len(mq) <= MQ_MAX /\ mq # <<>> /\ mq' = Tail(mq) /\ held' = Head(mq)
    BY <1>1 DEF TypeOK, Receive
  <2>2. mq' \in Seq(Message) /\ Len(mq') <= MQ_MAX /\ held' \in Message
    BY <2>1, QueueTaken, Zenon
  <2>3. QED
    BY <1>1, <2>2 DEF TypeOK, Receive, clivars
<1>2. CASE Handle
  <2>1. CASE Destroyed
    <3>1. lost' \in Nat
      BY <2>1 DEF TypeOK, Destroyed
    <3>2. QED
      BY <2>1, <3>1 DEF TypeOK, Destroyed, clivars
  <2>2. CASE ~ Destroyed
    <3>1. PICK m \in Reply : Send(m)
      BY <1>2, <2>2, Answer
    <3>2. mq' \in Seq(Message) /\ Len(mq') <= MQ_MAX /\ held' = NONE
      BY <3>1, Sent DEF Message
    <3>3. loaded' \in SUBSET Module /\ UNCHANGED <<down, events, clivars, kills, lost>>
      BY <1>2, <2>2, Answer
    <3>4. QED
      BY <3>2, <3>3 DEF TypeOK, clivars
  <2>3. QED
    BY <2>1, <2>2
<1>3. CASE Restart
  <2>. <<>> \in Seq(Event)
    OBVIOUS
  <2>1. events' \in Seq(Event) /\ loaded' \in SUBSET Module /\ down' \in BOOLEAN
    BY <1>3, Zenon DEF Restart
  <2>2. base' \in [Client -> SUBSET Event]
    BY <1>3 DEF Restart
  <2>3. UNCHANGED <<mq, held, request, nextpage, got, report, kills, lost>>
    BY <1>3 DEF Restart
  <2>4. QED
    BY <2>1, <2>2, <2>3 DEF TypeOK
<1>4. CASE AddEvent
  <2>1. events' \in Seq(Event)
    BY <1>4, InsertedAfter DEF TypeOK
  <2>2. QED
    BY <1>4, <2>1 DEF TypeOK, AddEvent, srvvars, clivars
<1>5. CASE DropEvent
  <2>1. PICK i \in DOMAIN events : events' = RemoveAt(events, i)
                                   /\ base' = [c \in Client |-> base[c] \ {events[i]}]
    BY <1>5, Zenon DEF DropEvent
  <2>2. events \in Seq(Event) /\ i \in 1 .. Len(events)
    BY DEF TypeOK
  <2>3. events' \in Seq(Event)
    BY <2>1, <2>2, RemovedType, Zenon
  <2>4. base \in [Client -> SUBSET Event]
    BY DEF TypeOK
  <2>5. base' \in [Client -> SUBSET Event]
    BY <2>1, <2>4
  <2>6. QED
    BY <1>5, <2>3, <2>5 DEF TypeOK, DropEvent, srvvars
<1>6. ASSUME NEW c \in Client, NEW r \in Command, Main(c, r) PROVE TypeOK'
  <2>1. CASE r \in Request /\ Run(c, r)
    <3>1. /\ mq' \in Seq(Message) /\ Len(mq') <= MQ_MAX
          /\ request' \in [Client -> Request \cup {NONE}]
      BY <2>1, AskParts DEF Run
    <3>2. ToSet(events) \subseteq Event
      BY DEF TypeOK, ToSet
    <3>3. QED
      BY <2>1, <3>1, <3>2 DEF TypeOK, Run, srvvars
  <2>2. CASE FaultyFails(c, r)
    <3>1. r \in Request \cup {[op |-> "repaired"]}
      BY MessageAssumption
    <3>2. [cmd |-> r, ok |-> FALSE, answer |-> NONE] \in Outcome
      BY <3>1 DEF Outcome
    <3>3. QED
      BY <2>2, <3>2 DEF TypeOK, FaultyFails, srvvars
  <2>3. QED
    BY <1>6, <2>1, <2>2, RunParts
<1>7. ASSUME NEW c \in Client, NextPage(c) PROVE TypeOK'
  <2>1. nextpage[c] \in Nat
    BY <1>7 DEF NextPage, TypeOK
  <2>2. CaseList(nextpage[c]) \in Request
    BY <2>1, ReplyTypes
  <2>3. /\ mq' \in Seq(Message) /\ Len(mq') <= MQ_MAX
        /\ request' \in [Client -> Request \cup {NONE}]
    BY <1>7, <2>2, AskParts DEF NextPage
  <2>4. QED
    BY <1>7, <2>3 DEF TypeOK, NextPage, srvvars
<1>8. ASSUME NEW c \in Client, Take(c) PROVE TypeOK'
  <2>1. /\ mq' \in Seq(Message) /\ Len(mq') <= MQ_MAX
        /\ request' = [request EXCEPT ![c] = NONE]
        /\ UNCHANGED <<srvvars, events, base, kills, lost>>
    BY <1>8, TakeParts
  <2>2. request' \in [Client -> Request \cup {NONE}]
    BY <2>1 DEF TypeOK
  <2>3. QED
    BY <1>8, <2>1, <2>2, TakeTypes DEF TypeOK, srvvars
<1>9. ASSUME NEW c \in Client, Kill(c) PROVE TypeOK'
  <2>1. kills' \in 0 .. MaxKills
    BY <1>9, AdmSizes DEF TypeOK, Kill
  <2>2. request' \in [Client -> Request \cup {NONE}]
    BY <1>9 DEF TypeOK, Kill
  <2>3. QED
    BY <1>9, <2>1, <2>2 DEF TypeOK, Kill, srvvars
<1>10. CASE UNCHANGED vars
  BY <1>10 DEF TypeOK, vars
<1>11. QED
  BY <1>1, <1>2, <1>3, <1>4, <1>5, <1>6, <1>7, <1>8, <1>9, <1>10 DEF Next

\* Every variable keeps its type; the queue never holds more than MQ_MAX messages.
THEOREM TypeCorrect == Spec => []TypeOK
  BY InitTypes, TypeNext, PTL DEF Spec


-----------------------------------------------------------------------------
(* Nobody is stranded: every step that takes a message out of the queue    *)
(* puts one back, ends somebody's waiting or counts it as destroyed.       *)

LEMMA WaitingSize ==
  /\ IsFiniteSet(Waiting) /\ Cardinality(Waiting) \in Nat
  /\ \A c \in Client : c \notin Waiting => Cardinality(Waiting \cup {c}) = Cardinality(Waiting) + 1
  /\ \A c \in Waiting : Cardinality(Waiting \ {c}) = Cardinality(Waiting) - 1
<1>1. IsFiniteSet(Client)
  BY AdmAssumption
<1>2. Waiting \in SUBSET Client
  BY DEF Waiting
<1>3. IsFiniteSet(Waiting)
  BY <1>1, <1>2, FS_Subset
<1>4. Cardinality(Waiting) \in Nat
  BY <1>3, FS_CardinalityType
<1>5. ASSUME NEW c \in Client, c \notin Waiting PROVE Cardinality(Waiting \cup {c}) = Cardinality(Waiting) + 1
  BY <1>3, <1>5, FS_AddElement
<1>6. ASSUME NEW c \in Waiting PROVE Cardinality(Waiting \ {c}) = Cardinality(Waiting) - 1
  BY <1>3, FS_RemoveElement
<1>7. QED
  BY <1>3, <1>4, <1>5, <1>6

\* What the counts are made of.
LEMMA StrandParts ==
  ASSUME StrandInv
  PROVE  /\ TypeOK /\ Conserved /\ Cardinality(Waiting) \in Nat /\ Len(mq) \in Nat
         /\ Held \in 0 .. 1 /\ kills \in Nat /\ lost \in Nat
         /\ request \in [Client -> Request \cup {NONE}] /\ nextpage \in [Client -> Nat \cup {NONE}]
         /\ \A c \in Client : nextpage[c] # NONE => request[c] = NONE
<1>1. mq \in Seq(Message) /\ kills \in 0 .. MaxKills
  BY DEF StrandInv, TypeOK
<1>2. Len(mq) \in Nat /\ kills \in Nat
  BY <1>1, AdmSizes
<1>3. QED
  BY <1>2, WaitingSize DEF StrandInv, TypeOK, Held

\* Client c begins to wait, and has put its request in.
LEMMA BeginsToWait ==
  ASSUME StrandInv, NEW c \in Client, NEW r \in Request, Ask(c, r), request[c] = NONE,
         UNCHANGED <<held, kills, lost>>
  PROVE  Conserved'
<1>1. Len(mq)' = Len(mq) + 1 /\ request' = [request EXCEPT ![c] = r]
  BY StrandParts, AskParts
<1>2. r # NONE
  BY NotNone DEF Message
<1>3. c \notin Waiting /\ Waiting' = Waiting \cup {c}
  BY <1>1, <1>2, StrandParts DEF Waiting
<1>4. Cardinality(Waiting') = Cardinality(Waiting) + 1
  BY <1>3, WaitingSize
<1>5. Cardinality(Waiting)' = Cardinality(Waiting')
  OBVIOUS
<1>6. Held' = Held
  BY DEF Held
<1>7. QED
  BY <1>1, <1>4, <1>5, <1>6, StrandParts DEF Conserved

\* Client c waits no longer.
LEMMA EndsToWait ==
  ASSUME StrandInv, NEW c \in Client, request[c] # NONE, request' = [request EXCEPT ![c] = NONE]
  PROVE  Cardinality(Waiting)' = Cardinality(Waiting) - 1
<1>1. c \in Waiting /\ Waiting' = Waiting \ {c}
  BY StrandParts DEF Waiting
<1>2. QED
  BY <1>1, WaitingSize

\* A step that touches none of the counts.
LEMMA SameCounts ==
  ASSUME StrandInv, UNCHANGED <<mq, held, request, kills, lost>>
  PROVE  Conserved'
<1>1. Waiting' = Waiting /\ Held' = Held
  BY DEF Waiting, Held
<1>2. QED
  BY <1>1, StrandParts DEF Conserved

LEMMA StrandNext ==
  ASSUME StrandInv, [Next]_vars
  PROVE  Conserved' /\ \A c \in Client : (nextpage[c] # NONE => request[c] = NONE)'
<1> DEFINE Paged == \A c \in Client : nextpage[c] # NONE => request[c] = NONE
<1>1. TypeOK /\ Conserved /\ Paged /\ mq \in Seq(Message) /\ Len(mq) <= MQ_MAX
      /\ request \in [Client -> Request \cup {NONE}] /\ nextpage \in [Client -> Nat \cup {NONE}]
  BY StrandParts DEF TypeOK
<1>2. UNCHANGED <<request, nextpage>> => Paged'
  BY <1>1
<1>3. CASE Receive
  <2>1. mq # <<>> /\ mq' = Tail(mq) /\ held' = Head(mq) /\ held = NONE
        /\ UNCHANGED <<request, nextpage, kills, lost>>
    BY <1>3 DEF Receive, clivars
  <2>2. Len(mq)' = Len(mq) - 1 /\ held' \in Message
    BY <1>1, <2>1, QueueTaken, Zenon
  <2>3. Held = 0 /\ Held' = 1
    BY <2>1, <2>2, NotNone DEF Held
  <2>4. Waiting' = Waiting
    BY <2>1 DEF Waiting
  <2>5. Conserved'
    BY <2>1, <2>2, <2>3, <2>4, StrandParts DEF Conserved
  <2>6. QED
    BY <1>2, <2>1, <2>5
<1>4. CASE Handle
  <2>1. held # NONE /\ UNCHANGED <<request, nextpage, kills>>
    BY <1>1, <1>4, AtMessage DEF clivars
  <2>2. Waiting' = Waiting /\ Held = 1
    BY <2>1 DEF Waiting, Held
  <2>3. CASE Destroyed
    <3>1. mq' = mq /\ lost' = lost + 1 /\ held' = NONE
      BY <2>3 DEF Destroyed
    <3>2. Held' = 0
      BY <3>1 DEF Held
    <3>3. Conserved'
      BY <2>1, <2>2, <3>1, <3>2, StrandParts DEF Conserved
    <3>4. QED
      BY <1>2, <2>1, <3>3
  <2>4. CASE ~ Destroyed
    <3>1. PICK m \in Reply : Send(m)
      BY <1>1, <1>4, <2>4, Answer
    <3>2. Len(mq)' = Len(mq) + 1 /\ held' = NONE /\ lost' = lost
      BY <1>1, <1>4, <2>4, <3>1, Sent, Answer DEF Message
    <3>3. Held' = 0
      BY <3>2 DEF Held
    <3>4. Conserved'
      BY <2>1, <2>2, <3>2, <3>3, StrandParts DEF Conserved
    <3>5. QED
      BY <1>2, <2>1, <3>4
  <2>5. QED
    BY <2>3, <2>4
<1>5. CASE Restart \/ AddEvent \/ DropEvent \/ UNCHANGED vars
  <2>1. UNCHANGED <<mq, held, request, nextpage, kills, lost>>
    BY <1>5 DEF Restart, AddEvent, DropEvent, vars, srvvars, clivars
  <2>2. QED
    BY <1>2, <2>1, SameCounts
<1>6. ASSUME NEW c \in Client, NEW r \in Command, Main(c, r) PROVE Conserved' /\ Paged'
  <2>1. CASE r \in Request /\ Run(c, r)
    <3>1. Ask(c, r) /\ request[c] = NONE /\ nextpage[c] = NONE /\ UNCHANGED <<held, nextpage, kills, lost>>
      BY <2>1 DEF Run, srvvars
    <3>2. request' = [request EXCEPT ![c] = r]
      BY <3>1 DEF Ask
    <3>3. Paged'
      BY <1>1, <3>1, <3>2
    <3>4. QED
      BY <2>1, <3>1, <3>3, BeginsToWait
  <2>2. CASE FaultyFails(c, r)
    <3>1. UNCHANGED <<mq, held, request, nextpage, kills, lost>>
      BY <2>2 DEF FaultyFails, srvvars
    <3>2. QED
      BY <1>2, <3>1, SameCounts
  <2>3. QED
    BY <1>6, <2>1, <2>2, RunParts
<1>7. ASSUME NEW c \in Client, NextPage(c) PROVE Conserved' /\ Paged'
  <2>1. nextpage[c] # NONE /\ Ask(c, CaseList(nextpage[c]))
        /\ nextpage' = [nextpage EXCEPT ![c] = NONE] /\ UNCHANGED <<held, kills, lost>>
    BY <1>7 DEF NextPage, srvvars
  <2>2. request[c] = NONE /\ nextpage[c] \in Nat
    BY <1>1, <2>1
  <2>3. PICK r \in Request : r = CaseList(nextpage[c])
    BY <2>2, ReplyTypes
  <2>4. Conserved'
    BY <2>1, <2>2, <2>3, BeginsToWait
  <2>5. request' = [request EXCEPT ![c] = r]
    BY <2>1, <2>3 DEF Ask
  <2>6. Paged'
    BY <1>1, <2>1, <2>5
  <2>7. QED
    BY <2>4, <2>6
<1>8. ASSUME NEW c \in Client, Take(c) PROVE Conserved' /\ Paged'
  <2>1. /\ request[c] # NONE /\ Len(mq)' = Len(mq) - 1
        /\ request' = [request EXCEPT ![c] = NONE] /\ UNCHANGED <<held, kills, lost>>
    BY <1>1, <1>8, TakeParts DEF srvvars
  <2>2. Cardinality(Waiting)' = Cardinality(Waiting) - 1
    BY <2>1, EndsToWait
  <2>3. Held' = Held
    BY <2>1 DEF Held
  <2>4. Conserved'
    BY <2>1, <2>2, <2>3, StrandParts DEF Conserved
  <2>5. nextpage' = nextpage \/ \E x : nextpage' = [nextpage EXCEPT ![c] = x]
    BY <1>8 DEF Take, TakeLoad, TakeText, TakeMods, TakeCases
  <2>6. Paged'
    BY <1>1, <2>1, <2>5
  <2>7. QED
    BY <2>4, <2>6
<1>9. ASSUME NEW c \in Client, Kill(c) PROVE Conserved' /\ Paged'
  <2>1. request[c] # NONE /\ request' = [request EXCEPT ![c] = NONE] /\ kills' = kills + 1
        /\ UNCHANGED <<mq, held, nextpage, lost>>
    BY <1>9 DEF Kill, srvvars
  <2>2. Cardinality(Waiting)' = Cardinality(Waiting) - 1
    BY <2>1, EndsToWait
  <2>3. Held' = Held /\ Len(mq)' = Len(mq)
    BY <2>1 DEF Held
  <2>4. Conserved'
    BY <2>1, <2>2, <2>3, StrandParts DEF Conserved
  <2>5. Paged'
    BY <1>1, <2>1
  <2>6. QED
    BY <2>4, <2>5
<1>10. QED
  BY <1>3, <1>4, <1>5, <1>6, <1>7, <1>8, <1>9 DEF Next

LEMMA StrandInit == Init => StrandInv
<1> SUFFICES ASSUME Init PROVE StrandInv
  OBVIOUS
<1>1. Waiting = {} /\ Held = 0 /\ Len(mq) = 0 /\ kills = 0 /\ lost = 0
  BY DEF Init, Waiting, Held
<1>2. Conserved
  BY <1>1, FS_EmptySet DEF Conserved
<1>3. QED
  BY <1>2, InitTypes DEF Init, StrandInv

LEMMA StrandStep == StrandInv /\ [Next]_vars => StrandInv'
<1> SUFFICES ASSUME StrandInv, [Next]_vars PROVE StrandInv'
  OBVIOUS
<1>1. TypeOK'
  BY TypeNext, StrandParts
<1>2. QED
  BY <1>1, StrandNext DEF StrandInv

\* For everyone who waits in mq_receive there is a message in the queue or one
\* at the server, for any number of clients that give any commands, take each
\* other's answers and are killed while they wait, any queue and any room for
\* echoes; until the server has destroyed more messages (a case list it took
\* back, an echo past its buffer) than killed clients have left.
THEOREM NobodyIsStranded == Spec => []NobodyStranded
<1>1. StrandInv => NobodyStranded
  BY StrandParts DEF Conserved, Held, NobodyStranded
<1>2. QED
  BY <1>1, StrandInit, StrandStep, PTL DEF Spec

\* Server and clients block each other in mq_send for good, with nobody left to
\* receive, only after more than MQ_MAX clients were killed while they waited.
THEOREM JamTakesKills == Spec => [](Jammed => kills > MQ_MAX)
<1>1. ASSUME StrandInv, Jammed PROVE kills > MQ_MAX
  <2>1. Waiting = {} /\ Len(mq) = MQ_MAX /\ Held = 1
    BY <1>1 DEF Jammed, Held
  <2>2. Cardinality(Waiting) = 0
    BY <2>1, FS_EmptySet
  <2>3. QED
    BY <1>1, <2>1, <2>2, StrandParts, AdmSizes DEF Conserved
<1>2. StrandInv => (Jammed => kills > MQ_MAX)
  BY <1>1
<1>3. QED
  BY <1>2, StrandInit, StrandStep, PTL DEF Spec


-----------------------------------------------------------------------------
(* A lone client: the only message is its own, on the way there or back.   *)

LEMMA LoneParts ==
  ASSUME NEW me, Client = {me}, LoneInv
  PROVE  /\ TypeOK /\ me \in Client /\ Alone(me)
         /\ mq \in Seq(Message) /\ Len(mq) \in Nat /\ Len(mq) <= MQ_MAX
         /\ mq = <<>> \/ (held = NONE /\ Len(mq) = 1)
         /\ request[me] \in Request \cup {NONE} /\ nextpage[me] \in Nat \cup {NONE}
         /\ request \in [Client -> Request \cup {NONE}] /\ nextpage \in [Client -> Nat \cup {NONE}]
         /\ report \in [Client -> Outcome \cup {NONE}]
  BY DEF LoneInv, OneMessage, TypeOK

\* What report says is so, of this client.
Truth(c) ==
  /\ Reported(c, "load") => report[c].cmd.mod \in loaded
  /\ Reported(c, "unload") => report[c].cmd.mod \notin loaded
  /\ Reported(c, "modlist") => report[c].answer = Mods(loaded)

LEMMA LoneGoal ==
  ASSUME NEW me, Client = {me}, Alone(me)', Truth(me)',
         mq' = <<>> \/ (held' = NONE /\ Len(mq') = 1)
  PROVE  OneMessage' /\ LoneClientTruth'
  BY DEF OneMessage, LoneClientTruth, Truth

LEMMA NoReport ==
  ASSUME NEW me, report[me]' = NONE
  PROVE  Truth(me)'
  BY DEF Truth, Reported

LEMMA SameFits ==
  ASSUME NEW r, NEW m, loaded' = loaded, Fits(r, m)
  PROVE  Fits(r, m)'
  BY DEF Fits

LEMMA EmptyQueue ==
  ASSUME NEW s \in Seq(Message)
  PROVE  /\ Len(s) = 0 <=> s = <<>>
         /\ s = <<>> => ToSet(s) = {}
  BY DEF ToSet

LEMMA LoneReceive ==
  ASSUME NEW me, Client = {me}, LoneInv, Receive
  PROVE  OneMessage' /\ LoneClientTruth' /\ Messages' \subseteq Messages
<1>1. /\ mq \in Seq(Message) /\ Len(mq) \in Nat /\ Len(mq) <= MQ_MAX /\ Alone(me)
      /\ mq = <<>> \/ (held = NONE /\ Len(mq) = 1)
  BY LoneParts
<1>2. mq # <<>> /\ mq' = Tail(mq) /\ held' = Head(mq)
      /\ ~ down /\ UNCHANGED <<down, loaded, request, nextpage, report>>
  BY DEF Receive, clivars
<1>3. /\ mq' \in Seq(Message) /\ Len(mq)' = Len(mq) - 1 /\ ToSet(mq') \subseteq ToSet(mq)
      /\ held' \in ToSet(mq)
  BY <1>1, <1>2, QueueTaken, Zenon
<1>4. Messages' \subseteq Messages
  BY <1>1, <1>2, <1>3 DEF Messages
<1>5. mq' = <<>>
  <2>1. Len(mq)' = 0
    BY <1>1, <1>2, <1>3
  <2>2. QED
    BY <1>3, <2>1, EmptyQueue
<1>6. request[me] # NONE
  BY <1>1, <1>2 DEF Alone
<1>7. PICK q : q = request[me]
  OBVIOUS
<1>8. \A m \in Messages' : Fits(q, m)'
  BY <1>1, <1>2, <1>4, <1>6, <1>7, SameFits DEF Alone
<1>9. Alone(me)'
  BY <1>1, <1>2, <1>6, <1>7, <1>8 DEF Alone
<1>10. Truth(me)'
  BY <1>1, <1>2, <1>6, NoReport DEF Alone
<1>11. QED
  BY <1>4, <1>5, <1>9, <1>10, LoneGoal

\* The answer of the server fits the request it has got.
LEMMA AnswerFits ==
  ASSUME TypeOK, Handle, ~ Destroyed, NEW r \in Request, Fits(r, held)
  PROVE  \E m \in Message : /\ Send(m) /\ Fits(r, m)'
                            /\ r.op = "caselist" => /\ held = r /\ held.op = "caselist"
                                                    /\ m = Cases(Page(held.num))
<1>1. held \in Message /\ held # NONE
  BY AtMessage
<1>2. r.op \in {"load", "unload", "modlist", "config", "caselist"}
  BY DEF Request
<1>3. \A b, n : Text(b, n).op = "text" /\ Text(b, n).failed = b
  BY DEF Text
<1>4. \A s : Mods(s).op = "mods"
  BY DEF Mods
<1>5. \A b \in BOOLEAN, n \in 0 .. EchoMax : Text(b, n) \in Message
  BY ReplyTypes
<1> 0 \in 0 .. EchoMax
  BY AdmSizes
<1>6. loaded \subseteq Module
  BY DEF TypeOK
<1>7. CASE DoCaseList
  <2>1. held.op = "caselist" /\ Send(Cases(Page(held.num)))
    BY <1>7 DEF DoCaseList
  <2>2. r.op = "caselist" /\ held = r
    BY <1>2, <1>3, <1>4, <2>1 DEF Fits
  <2>3. held.num \in Nat
    BY <1>1, <2>1, MessageParts
  <2>4. Page(held.num) \in Seq(Event)
    BY <2>3, PageParts DEF TypeOK
  <2>5. PICK m : m = Cases(Page(held.num))
    OBVIOUS
  <2>6. m \in Message /\ m.op = "cases"
    BY <2>4, <2>5, ReplyTypes DEF Cases
  <2>7. Fits(r, m)'
    BY <2>2, <2>6 DEF Fits
  <2>8. QED
    BY <2>1, <2>2, <2>5, <2>6, <2>7
<1>8. CASE DoModList
  <2>1. held.op \in {"modlist", "mods"} /\ Send(Mods(loaded)) /\ loaded' = loaded
    BY <1>8 DEF DoModList
  <2>2. r.op = "modlist"
    BY <1>2, <1>3, <1>4, <2>1 DEF Fits
  <2>3. PICK m : m = Mods(loaded)
    OBVIOUS
  <2>4. m \in Message
    BY <1>6, <2>3, ReplyTypes
  <2>5. Fits(r, m)'
    BY <2>1, <2>2, <2>3 DEF Fits
  <2>6. QED
    BY <2>1, <2>2, <2>3, <2>4, <2>5
<1>9. CASE DoLoad
  <2>1. held.op = "load"
    BY <1>9 DEF DoLoad
  <2>2. r.op = "load" /\ held = r
    BY <1>2, <1>3, <1>4, <2>1 DEF Fits
  <2>3. CASE Send(Text(FALSE, 0)) /\ loaded' = loaded \cup {held.mod}
    <3>1. Fits(r, Text(FALSE, 0))'
      BY <1>3, <2>2, <2>3 DEF Fits
    <3>2. QED
      BY <1>5, <2>2, <2>3, <3>1
  <2>4. CASE Send(Text(TRUE, 0))
    <3>1. Fits(r, Text(TRUE, 0))'
      BY <1>3, <2>2 DEF Fits
    <3>2. QED
      BY <1>5, <2>2, <2>4, <3>1
  <2>5. QED
    BY <1>9, <2>3, <2>4 DEF DoLoad
<1>10. CASE DoUnload
  <2>1. held.op = "unload" /\ loaded' = loaded \ {held.mod}
    BY <1>10 DEF DoUnload
  <2>2. r.op = "unload" /\ held = r
    BY <1>2, <1>3, <1>4, <2>1 DEF Fits
  <2>3. PICK b \in BOOLEAN : b = (held.mod \notin loaded)
    OBVIOUS
  <2>4. Send(Text(b, 0))
    BY <1>10, <2>3 DEF DoUnload
  <2>5. Fits(r, Text(b, 0))'
    BY <1>3, <2>1, <2>2 DEF Fits
  <2>6. QED
    BY <1>5, <2>2, <2>4, <2>5
<1>11. CASE DoIllegal
  <2>1. held.op \in {"config", "text"} /\ loaded' = loaded
    BY <1>11, EchoSent
  <2>2. PICK b \in BOOLEAN, n \in 0 .. EchoMax :
               Send(Text(b, n)) /\ b = (held.op = "text" /\ held.failed = TRUE)
    BY <1>11, EchoSent
  <2>3. PICK m \in Message : m = Text(b, n)
    BY <1>5
  <2>4. Send(m) /\ m.op = "text" /\ m.failed = b
    BY <1>3, <2>2, <2>3
  <2>5. r.op # "caselist" /\ r.op # "modlist"
    BY <1>4, <2>1 DEF Fits
  <2>6. r.op = "load" => m.failed = TRUE \/ r.mod \in loaded
    BY <2>1, <2>2, <2>4 DEF Fits
  <2>7. r.op = "unload" => r.mod \notin loaded
    BY <2>1 DEF Fits
  <2>8. Fits(r, m)'
    BY <2>1, <2>4, <2>5, <2>6, <2>7 DEF Fits
  <2>9. QED
    BY <2>4, <2>5, <2>8
<1>12. CASE OwnCaseList
  <2>1. Destroyed
    BY <1>12 DEF OwnCaseList, Destroyed
  <2>2. QED
    BY <2>1
<1>13. QED
  BY <1>7, <1>8, <1>9, <1>10, <1>11, <1>12 DEF Handle


\* The server is at the lone client's message.
LEMMA LoneHeld ==
  ASSUME NEW me, Client = {me}, LoneInv, held # NONE
  PROVE  /\ mq = <<>> /\ ToSet(mq) = {} /\ request[me] \in Request /\ request[me] # NONE
         /\ held \in Messages /\ Fits(request[me], held) /\ report[me] = NONE /\ ~ down
<1>1. /\ mq \in Seq(Message) /\ Alone(me) /\ request[me] \in Request \cup {NONE}
      /\ mq = <<>>
  BY LoneParts
<1>2. ToSet(mq) = {}
  BY <1>1, EmptyQueue
<1>3. request[me] # NONE /\ ~ down /\ report[me] = NONE
  BY <1>1 DEF Alone
<1>4. held \in Messages
  BY DEF Messages
<1>5. QED
  BY <1>1, <1>2, <1>3, <1>4 DEF Alone

LEMMA LoneHandle ==
  ASSUME NEW me, Client = {me}, LoneInv, Handle
  PROVE  OneMessage' /\ LoneClientTruth'
<1>1. TypeOK /\ me \in Client /\ Alone(me)
  BY LoneParts
<1>2. held # NONE
  BY <1>1, AtMessage
<1>3. /\ mq = <<>> /\ ToSet(mq) = {} /\ request[me] \in Request /\ request[me] # NONE
      /\ Fits(request[me], held) /\ report[me] = NONE /\ ~ down /\ nextpage[me] = NONE
  BY <1>1, <1>2, LoneHeld DEF Alone
<1>4. UNCHANGED <<request, nextpage, report>>
  BY <1>1, AtMessage DEF clivars
<1>5. PICK q \in Request : q = request[me]
  BY <1>3
<1>6. Truth(me)'
  BY <1>3, <1>4, NoReport
<1>7. CASE Destroyed
  <2>1. mq' = <<>> /\ held' = NONE
    BY <1>3, <1>7 DEF Destroyed
  <2>2. Messages' = {}
    BY <2>1 DEF Messages, ToSet
  <2>3. Alone(me)'
    BY <1>3, <1>4, <2>1, <2>2 DEF Alone
  <2>4. QED
    BY <1>6, <2>1, <2>3, LoneGoal
<1>8. CASE ~ Destroyed
  <2>1. PICK m \in Message : Send(m) /\ Fits(q, m)'
    BY <1>1, <1>3, <1>5, <1>8, AnswerFits
  <2>2. Len(mq)' = Len(mq) + 1 /\ ToSet(mq') = ToSet(mq) \cup {m} /\ held' = NONE
    BY <1>1, <2>1, Sent
  <2>3. Len(mq)' = 1
    BY <1>3, <2>2
  <2>4. Messages' = {m}
    BY <1>3, <2>2 DEF Messages
  <2>5. down' = down
    BY <1>1, <1>8, Answer
  <2>6. Alone(me)'
    BY <1>3, <1>4, <1>5, <2>1, <2>4, <2>5 DEF Alone
  <2>7. QED
    BY <1>6, <2>2, <2>3, <2>6, LoneGoal
<1>9. QED
  BY <1>7, <1>8

LEMMA LoneRestart ==
  ASSUME NEW me, Client = {me}, LoneInv, Restart
  PROVE  OneMessage' /\ LoneClientTruth'
<1>1. Alone(me) /\ down /\ ~ down' /\ UNCHANGED <<mq, held, request, nextpage, report>>
  BY LoneParts DEF Restart
<1>2. request[me] # NONE /\ mq = <<>> /\ held = NONE /\ report[me] = NONE /\ nextpage[me] = NONE
  BY <1>1 DEF Alone
<1>3. Messages' = {}
  BY <1>1, <1>2 DEF Messages, ToSet
<1>4. Alone(me)'
  BY <1>1, <1>2, <1>3 DEF Alone
<1>5. Truth(me)'
  BY <1>1, <1>2, NoReport
<1>6. QED
  BY <1>1, <1>2, <1>4, <1>5, LoneGoal

\* The cases change, or nothing does.
LEMMA LoneSame ==
  ASSUME NEW me, Client = {me}, LoneInv, UNCHANGED <<mq, held, down, loaded, request, nextpage, report>>
  PROVE  OneMessage' /\ LoneClientTruth' /\ Messages' = Messages
<1>1. Messages' = Messages
  BY DEF Messages
<1>2. OneMessage'
  BY <1>1 DEF LoneInv, OneMessage, Alone, Fits
<1>3. LoneClientTruth'
  BY DEF LoneInv, LoneClientTruth, Reported
<1>4. QED
  BY <1>1, <1>2, <1>3

\* The client sends a request: there is no other message.
LEMMA LoneAsk ==
  ASSUME NEW me, Client = {me}, LoneInv, NEW r \in Request, Ask(me, r),
         request[me] = NONE, UNCHANGED <<held, down, loaded>>,
         nextpage[me]' = NONE, report[me]' = NONE
  PROVE  OneMessage' /\ LoneClientTruth' /\ Messages' = {r} /\ request'[me] = r
<1>1. TypeOK /\ me \in Client /\ Alone(me) /\ mq \in Seq(Message)
      /\ request \in [Client -> Request \cup {NONE}]
  BY LoneParts
<1>2. mq = <<>> /\ held = NONE /\ ~ down
  BY <1>1 DEF Alone
<1>3. ToSet(mq) = {}
  BY <1>1, <1>2, EmptyQueue
<1>4. Len(mq)' = Len(mq) + 1 /\ ToSet(mq') = ToSet(mq) \cup {r} /\ request' = [request EXCEPT ![me] = r]
  BY <1>1, AskParts
<1>5. Len(mq)' = 1
  BY <1>2, <1>4
<1>6. Messages' = {r} /\ request'[me] = r
  BY <1>1, <1>2, <1>3, <1>4 DEF Messages
<1>7. r # NONE
  BY NotNone DEF Message
<1>8. Fits(r, r)'
  <2>1. r.op \in {"load", "unload", "modlist", "config", "caselist"}
    BY DEF Request
  <2>2. Fits(r, r)
    BY <2>1 DEF Fits
  <2>3. QED
    BY <2>2, SameFits
<1>9. Alone(me)'
  BY <1>2, <1>6, <1>7, <1>8 DEF Alone
<1>10. Truth(me)'
  BY NoReport
<1>11. QED
  BY <1>2, <1>5, <1>6, <1>9, <1>10, LoneGoal

LEMMA LoneMain ==
  ASSUME NEW me, Client = {me}, LoneInv, NEW r \in Command, Main(me, r)
  PROVE  /\ OneMessage' /\ LoneClientTruth'
         /\ \/ /\ r \in Request /\ Run(me, r) /\ (r.op = "caselist" => r = CaseList(0))
               /\ Messages' = {r} /\ request'[me] = r
            \/ FaultyFails(me, r)
<1>1. TypeOK /\ me \in Client /\ Alone(me) /\ report \in [Client -> Outcome \cup {NONE}]
      /\ request[me] \in Request \cup {NONE}
  BY LoneParts
<1>2. CASE r \in Request /\ Run(me, r) /\ (r.op = "caselist" => r = CaseList(0))
  <2>1. /\ Ask(me, r) /\ request[me] = NONE /\ UNCHANGED <<held, down, loaded>>
        /\ nextpage[me]' = NONE /\ report[me]' = NONE
    BY <1>1, <1>2 DEF Run, srvvars
  <2>2. QED
    BY <1>2, <2>1, LoneAsk
<1>3. CASE FaultyFails(me, r)
  <2>1. UNCHANGED <<mq, held, down, loaded, request, nextpage>> /\ request[me] = NONE /\ nextpage[me] = NONE
        /\ report'[me].ok = FALSE
    BY <1>1, <1>3 DEF FaultyFails, srvvars
  <2>2. mq = <<>> /\ held = NONE /\ ~ down
    BY <1>1, <2>1 DEF Alone
  <2>3. Alone(me)'
    BY <2>1, <2>2 DEF Alone
  <2>4. Truth(me)'
    BY <2>1 DEF Truth, Reported
  <2>5. QED
    BY <1>3, <2>1, <2>2, <2>3, <2>4, LoneGoal
<1>4. QED
  BY <1>1, <1>2, <1>3, RunParts


LEMMA LoneNextPage ==
  ASSUME NEW me, Client = {me}, LoneInv, NextPage(me)
  PROVE  /\ OneMessage' /\ LoneClientTruth'
         /\ nextpage[me] \in Nat /\ nextpage'[me] = NONE
         /\ request'[me] = CaseList(nextpage[me]) /\ Messages' = {CaseList(nextpage[me])}
<1>1. TypeOK /\ me \in Client /\ Alone(me) /\ nextpage \in [Client -> Nat \cup {NONE}]
  BY LoneParts
<1>2. /\ nextpage[me] # NONE /\ Ask(me, CaseList(nextpage[me]))
      /\ nextpage' = [nextpage EXCEPT ![me] = NONE] /\ UNCHANGED <<held, down, loaded, report>>
  BY DEF NextPage, srvvars
<1>3. nextpage[me] \in Nat /\ nextpage'[me] = NONE
  BY <1>1, <1>2
<1>4. request[me] = NONE /\ report[me] = NONE
  BY <1>1, <1>2 DEF Alone
<1>5. PICK r \in Request : r = CaseList(nextpage[me])
  BY <1>3, ReplyTypes
<1>6. OneMessage' /\ LoneClientTruth' /\ Messages' = {r} /\ request'[me] = r
  BY <1>2, <1>3, <1>4, <1>5, LoneAsk
<1>7. QED
  BY <1>3, <1>5, <1>6

\* The message the lone client takes fits its request.
LEMMA LoneHead ==
  ASSUME NEW me, Client = {me}, LoneInv, Take(me)
  PROVE  /\ Head(mq) \in Message /\ Head(mq) \in Messages /\ Fits(request[me], Head(mq))
         /\ request[me] \in Request /\ request[me] # NONE /\ request'[me] = NONE
         /\ mq' = <<>> /\ held' = NONE /\ Messages' = {} /\ ~ down'
         /\ nextpage[me] = NONE /\ report[me] = NONE /\ loaded' = loaded /\ base' = base
<1>1. /\ TypeOK /\ me \in Client /\ Alone(me) /\ mq \in Seq(Message) /\ Len(mq) \in Nat
      /\ mq = <<>> \/ (held = NONE /\ Len(mq) = 1)
      /\ request \in [Client -> Request \cup {NONE}]
  BY LoneParts
<1>2. /\ request[me] \in Request /\ request[me] # NONE /\ mq # <<>>
      /\ Head(mq) \in Message /\ Head(mq) \in ToSet(mq)
      /\ mq' \in Seq(Message) /\ Len(mq)' = Len(mq) - 1
      /\ request' = [request EXCEPT ![me] = NONE] /\ UNCHANGED <<srvvars, base>>
  BY <1>1, TakeParts
<1>3. held = NONE /\ Len(mq)' = 0
  BY <1>1, <1>2
<1>4. mq' = <<>>
  BY <1>2, <1>3, EmptyQueue
<1>5. held' = NONE /\ loaded' = loaded /\ down' = down /\ base' = base
  BY <1>2, <1>3 DEF srvvars
<1>6. Messages' = {}
  BY <1>4, <1>5 DEF Messages, ToSet
<1>7. Head(mq) \in Messages
  BY <1>2 DEF Messages
<1>8. Fits(request[me], Head(mq)) /\ ~ down /\ nextpage[me] = NONE /\ report[me] = NONE
  BY <1>1, <1>2, <1>7 DEF Alone
<1>9. request'[me] = NONE
  BY <1>1, <1>2
<1>10. QED
  BY <1>2, <1>4, <1>5, <1>6, <1>7, <1>8, <1>9

\* The end of a command makes no false report.
LEMMA TruthGoal ==
  ASSUME NEW me, NEW r, NEW m, NEW b \in BOOLEAN, loaded' = loaded,
         report'[me] = [cmd |-> r, ok |-> b, answer |-> m],
         b = TRUE /\ r.op = "load" => r.mod \in loaded,
         b = TRUE /\ r.op = "unload" => r.mod \notin loaded,
         b = TRUE /\ r.op = "modlist" => m = Mods(loaded)
  PROVE  Truth(me)'
<1>1. CASE b = FALSE
  <2>1. report'[me].ok = FALSE
    BY <1>1
  <2>2. QED
    BY <2>1 DEF Truth, Reported
<1>2. CASE b = TRUE
  <2>1. report'[me].cmd = r /\ report'[me].answer = m
    OBVIOUS
  <2>2. QED
    BY <1>2, <2>1 DEF Truth, Reported, Mods
<1>3. QED
  BY <1>1, <1>2

LEMMA LoneTake ==
  ASSUME NEW me, Client = {me}, LoneInv, Take(me)
  PROVE  OneMessage' /\ LoneClientTruth'
<1>1. me \in Client /\ report \in [Client -> Outcome \cup {NONE}] /\ nextpage \in [Client -> Nat \cup {NONE}]
  BY LoneParts
<1>2. PICK m \in Message, r \in Request : m = Head(mq) /\ r = request[me] /\ Fits(r, m)
  BY LoneHead
<1>3. /\ request'[me] = NONE /\ mq' = <<>> /\ held' = NONE /\ ~ down'
      /\ nextpage[me] = NONE /\ report[me] = NONE /\ loaded' = loaded
  BY LoneHead
<1>4. m.op = "text" => m.failed \in BOOLEAN
  BY MessageParts
<1>5. ASSUME NEW b, Done(me, b) PROVE report'[me] = [cmd |-> r, ok |-> b, answer |-> m]
  BY <1>1, <1>2, <1>5 DEF Done
<1>6. /\ TakeLoad(me) \/ TakeText(me) \/ TakeMods(me) => nextpage'[me] = NONE
      /\ TakeCases(me) => nextpage'[me] = NONE \/ report'[me] = NONE
  BY <1>3 DEF TakeLoad, TakeText, TakeMods, TakeCases
<1>7. nextpage'[me] # NONE => report'[me] = NONE
  BY <1>6 DEF Take
<1>8. Alone(me)'
  BY <1>3, <1>7 DEF Alone
<1>9. Truth(me)'
  <2>1. CASE TakeLoad(me)
    <3>1. PICK b \in BOOLEAN : b = (/\ m.op \notin {"load", "unload"} /\ ~(m.op = "text" /\ m.failed))
      OBVIOUS
    <3>2. Done(me, b) /\ r.op = "load"
      BY <1>2, <2>1, <3>1 DEF TakeLoad, Answered
    <3>3. b = TRUE => r.mod \in loaded
      BY <1>2, <1>4, <3>1, <3>2 DEF Fits
    <3>4. QED
      BY <1>3, <1>5, <3>2, <3>3, TruthGoal
  <2>2. CASE TakeText(me)
    <3>1. PICK b \in BOOLEAN : b = (/\ m.op # "unload" /\ ~(m.op = "text" /\ m.failed))
      OBVIOUS
    <3>2. Done(me, b) /\ r.op \in {"unload", "config"}
      BY <1>2, <2>2, <3>1 DEF TakeText, Answered
    <3>3. b = TRUE /\ r.op = "unload" => r.mod \notin loaded
      BY <1>2, <1>4, <3>1, <3>2 DEF Fits
    <3>4. QED
      BY <1>3, <1>5, <3>2, <3>3, TruthGoal
  <2>3. CASE TakeMods(me)
    <3>1. PICK b \in BOOLEAN : b = (\/ m.op = "mods" /\ m.secs # {}
                                    \/ m.op = "cases" /\ m.secs # <<>>)
      OBVIOUS
    <3>2. Done(me, b) /\ r.op = "modlist"
      BY <1>2, <2>3, <3>1 DEF TakeMods, Answered
    <3>3. b = TRUE => m = Mods(loaded)
      BY <1>2, <3>1, <3>2 DEF Fits
    <3>4. QED
      BY <1>3, <1>5, <3>2, <3>3, TruthGoal
  <2>4. CASE TakeCases(me)
    <3>1. report'[me] = NONE \/ \E b \in BOOLEAN : Done(me, b)
      BY <1>3, <2>4 DEF TakeCases
    <3>2. r.op = "caselist"
      BY <1>2, <2>4 DEF TakeCases, Answered
    <3>3. CASE report'[me] = NONE
      BY <3>3, NoReport
    <3>4. CASE \E b \in BOOLEAN : Done(me, b)
      BY <1>3, <1>5, <3>2, <3>4, TruthGoal
    <3>5. QED
      BY <3>1, <3>3, <3>4
  <2>5. QED
    BY <2>1, <2>2, <2>3, <2>4 DEF Take
<1>10. QED
  BY <1>3, <1>8, <1>9, LoneGoal

LEMMA LoneNext ==
  ASSUME NEW me, Client = {me}, MaxKills = 0, LoneInv, [Next]_vars
  PROVE  LoneInv'
<1>1. TypeOK'
  BY TypeNext DEF LoneInv
<1>2. CASE AddEvent \/ DropEvent \/ UNCHANGED vars
  <2>1. UNCHANGED <<mq, held, down, loaded, request, nextpage, report>>
    BY <1>2 DEF AddEvent, DropEvent, vars, srvvars, clivars
  <2>2. QED
    BY <1>1, <2>1, LoneSame DEF LoneInv
<1>3. ASSUME Kill(me) PROVE FALSE
  BY <1>3 DEF Kill, LoneInv, TypeOK
<1>4. CASE Receive \/ Handle \/ Restart
  BY <1>1, <1>4, LoneReceive, LoneHandle, LoneRestart DEF LoneInv
<1>5. ASSUME (\E r \in Command : Main(me, r)) \/ NextPage(me) \/ Take(me) PROVE LoneInv'
  BY <1>1, <1>5, LoneMain, LoneNextPage, LoneTake DEF LoneInv
<1>6. QED
  BY <1>2, <1>3, <1>4, <1>5 DEF Next

LEMMA LoneInit == Init => LoneInv
<1> SUFFICES ASSUME Init PROVE LoneInv
  OBVIOUS
<1>1. Messages = {}
  BY DEF Init, Messages, ToSet
<1>2. OneMessage
  BY <1>1 DEF Init, OneMessage, Alone
<1>3. LoneClientTruth
  BY DEF Init, LoneClientTruth, Reported
<1>4. QED
  BY <1>2, <1>3, InitTypes DEF LoneInv

\* With one client that is not killed, fmadm never lies: a module reported as
\* loaded is loaded, one reported as unloaded is not, and a module list names the
\* modules, also when the client or the server takes its own message back.
THEOREM LoneClientIsToldTruth ==
  ASSUME NEW me, Client = {me}, MaxKills = 0
  PROVE  Spec => []LoneClientTruth
<1>1. LoneInv /\ [Next]_vars => LoneInv'
  BY LoneNext
<1>2. LoneInv => LoneClientTruth
  BY DEF LoneInv
<1>3. QED
  BY <1>1, <1>2, LoneInit, PTL DEF Spec


-----------------------------------------------------------------------------
(* A listing of a lone client is complete, if no event is deleted.         *)

\* A step that takes no event out of the listing keeps what a page promises.
LEMMA PromiseKept ==
  ASSUME NEW me, NEW m, request[me].num \in Nat, Promised(me, m),
         \A n \in Nat : After(n) \subseteq After(n)',
         base'[me] = base[me], got'[me] = got[me], request'[me] = request[me]
  PROVE  Promised(me, m)'
<1>1. PICK n \in Nat : n = request[me].num
  OBVIOUS
<1>2. n + FAF_NUM \in Nat /\ request'[me].num = n
  BY <1>1, AdmSizes
<1>3. After(n) \subseteq After(n)' /\ After(n + FAF_NUM) \subseteq After(n + FAF_NUM)'
  BY <1>2
<1>4. After(request[me].num) = After(n) /\ After(request[me].num)' = After(n)'
      /\ After(request[me].num + FAF_NUM) = After(n + FAF_NUM)
      /\ After(request[me].num + FAF_NUM)' = After(n + FAF_NUM)'
  BY <1>1, <1>2 DEF After
<1>5. PICK e : e = ToSet(m.secs)
  OBVIOUS
<1>6. PICK k : k = Len(m.secs)
  OBVIOUS
<1>7. QED
  BY <1>3, <1>4, <1>5, <1>6 DEF Promised

LEMMA ListParts ==
  ASSUME NEW me, Client = {me}, ListInv
  PROVE  LoneInv /\ Follows(me) /\ TypeOK /\ me \in Client /\ Alone(me)
  BY LoneParts DEF ListInv, Listed

\* The same messages, or fewer, and no event out of the listing.
LEMMA FollowsKept ==
  ASSUME NEW me, Client = {me}, ListInv, Messages' \subseteq Messages,
         UNCHANGED <<request, nextpage, report, base, got>>,
         \A n \in Nat : After(n) \subseteq After(n)'
  PROVE  Follows(me)'
<1>1. Follows(me) /\ TypeOK /\ me \in Client
  BY ListParts
<1>2. request[me] \in Request \cup {NONE} /\ nextpage[me] \in Nat \cup {NONE}
  BY <1>1 DEF TypeOK
<1>3. ASSUME request[me] # NONE, request[me].op = "caselist", NEW m \in Messages'
      PROVE  Promised(me, m)'
  <2>1. request[me].num \in Nat
    BY <1>2, <1>3, MessageParts DEF Message
  <2>2. Promised(me, m)
    BY <1>1, <1>3 DEF Follows
  <2>3. QED
    BY <2>1, <2>2, PromiseKept
<1>4. nextpage[me] # NONE => base[me] \subseteq got[me] \cup After(nextpage[me])'
  <2>1. SUFFICES ASSUME nextpage[me] # NONE PROVE base[me] \subseteq got[me] \cup After(nextpage[me])'
    OBVIOUS
  <2>2. PICK n \in Nat : n = nextpage[me]
    BY <1>2, <2>1
  <2>3. base[me] \subseteq got[me] \cup After(n)'
    BY <1>1, <2>1, <2>2 DEF Follows
  <2>4. After(nextpage[me])' = After(n)'
    BY <2>2 DEF After
  <2>5. QED
    BY <2>3, <2>4
<1>5. Reported(me, "caselist")' => base[me] \subseteq got[me]
  BY <1>1 DEF Follows, Reported
<1>6. QED
  BY <1>3, <1>4, <1>5 DEF Follows


LEMMA SameAfter ==
  ASSUME events' = events
  PROVE  \A n \in Nat : After(n) \subseteq After(n)'
  BY DEF After

\* The server answers a listing with the page asked for: what comes after the
\* num-th event is on it, or after it if it is full.
LEMMA ListHandle ==
  ASSUME NEW me, Client = {me}, ListInv, Handle
  PROVE  Follows(me)'
<1>1. LoneInv /\ Follows(me) /\ TypeOK /\ me \in Client /\ Alone(me)
  BY ListParts
<1>2. held # NONE
  BY <1>1, AtMessage
<1>3. /\ mq = <<>> /\ ToSet(mq) = {} /\ request[me] \in Request /\ request[me] # NONE
      /\ Fits(request[me], held) /\ held \in Messages /\ report[me] = NONE /\ nextpage[me] = NONE
  BY <1>1, <1>2, LoneHeld DEF Alone
<1>4. UNCHANGED <<request, nextpage, report, base, got, events>>
  BY <1>1, AtMessage DEF clivars
<1>5. ~ Reported(me, "caselist")' /\ nextpage'[me] = NONE
  BY <1>3, <1>4 DEF Reported
<1>6. SUFFICES ASSUME request[me].op = "caselist" PROVE \A x \in Messages' : Promised(me, x)'
  BY <1>4, <1>5 DEF Follows
<1>7. CASE Destroyed
  <2>1. mq' = <<>> /\ held' = NONE
    BY <1>3, <1>7 DEF Destroyed
  <2>2. Messages' = {}
    BY <2>1 DEF Messages, ToSet
  <2>3. QED
    BY <2>2
<1>8. CASE ~ Destroyed
  <2>1. PICK m \in Message : /\ Send(m) /\ held = request[me] /\ held.op = "caselist"
                             /\ m = Cases(Page(held.num))
    BY <1>1, <1>3, <1>6, <1>8, AnswerFits
  <2>2. ToSet(mq') = ToSet(mq) \cup {m} /\ held' = NONE
    BY <1>1, <2>1, Sent
  <2>3. Messages' = {m}
    BY <1>3, <2>2 DEF Messages
  <2>4. PICK n \in Nat : n = request[me].num
    BY <1>3, <1>6, MessageParts DEF Message
  <2>5. base[me] \subseteq got[me] \cup After(n)
    <3>1. Promised(me, held)
      BY <1>1, <1>3, <1>6 DEF Follows
    <3>2. base[me] \subseteq got[me] \cup After(request[me].num)
      BY <2>1, <3>1 DEF Promised
    <3>3. QED
      BY <2>4, <3>2
  <2>6. PICK p \in Seq(Event) : p = Page(n)
    BY <1>1, PageParts DEF TypeOK
  <2>7. After(n) \subseteq ToSet(p) \cup (IF Len(p) = FAF_NUM THEN After(n + FAF_NUM) ELSE {})
    BY <1>1, <2>6, PageParts DEF TypeOK
  <2>8. m.op = "cases" /\ m.secs = p
    BY <2>1, <2>4, <2>6 DEF Cases
  <2>9. base[me] \subseteq got[me] \cup ToSet(p) \cup (IF Len(p) = FAF_NUM THEN After(n + FAF_NUM) ELSE {})
    BY <2>5, <2>7
  <2>10. After(request[me].num + FAF_NUM)' = After(n + FAF_NUM)
    BY <1>4, <2>4 DEF After
  <2>11. Promised(me, m)'
    BY <1>4, <2>8, <2>9, <2>10 DEF Promised
  <2>12. QED
    BY <2>3, <2>11
<1>9. QED
  BY <1>7, <1>8

LEMMA ListRestart ==
  ASSUME NEW me, Client = {me}, ListInv, Restart
  PROVE  Follows(me)'
<1>1. me \in Client /\ base' = [c \in Client |-> {}]
  BY ListParts DEF Restart
<1>2. base'[me] = {}
  BY <1>1
<1>3. QED
  BY <1>2 DEF Follows, Promised

\* The first page: nothing is got, and all events come after the 0-th.
LEMMA ListMain ==
  ASSUME NEW me, Client = {me}, ListInv, NEW r \in Command, Main(me, r)
  PROVE  Follows(me)'
<1>1. LoneInv /\ TypeOK /\ me \in Client
  BY ListParts
<1>2. base \in [Client -> SUBSET Event] /\ got \in [Client -> SUBSET Event] /\ events \in Seq(Event)
      /\ report \in [Client -> Outcome \cup {NONE}]
  BY <1>1 DEF TypeOK
<1>3. CASE /\ r \in Request /\ Run(me, r) /\ (r.op = "caselist" => r = CaseList(0))
           /\ Messages' = {r} /\ request'[me] = r
  <2>1. base'[me] = ToSet(events) /\ report'[me] = NONE /\ nextpage'[me] = NONE /\ events' = events
    BY <1>1, <1>2, <1>3 DEF Run
  <2>2. After(0)' = ToSet(events)
    <3>1. DOMAIN events = 0 + 1 .. Len(events)
      BY <1>2
    <3>2. QED
      BY <2>1, <3>1 DEF After, ToSet
  <2>3. ASSUME r.op = "caselist" PROVE Promised(me, r)'
    <3>1. r = CaseList(0) /\ r.num = 0
      BY <1>3, <2>3 DEF CaseList
    <3>2. After(request[me].num)' = After(0)'
      BY <1>3, <3>1 DEF After
    <3>3. QED
      BY <2>1, <2>2, <2>3, <3>2 DEF Promised
  <2>4. ~ Reported(me, "caselist")'
    BY <2>1 DEF Reported
  <2>5. QED
    BY <1>3, <2>1, <2>3, <2>4 DEF Follows
<1>4. CASE FaultyFails(me, r)
  <2>1. request'[me] = NONE /\ nextpage'[me] = NONE /\ report'[me].ok = FALSE
    BY <1>1, <1>2, <1>4 DEF FaultyFails
  <2>2. QED
    BY <2>1 DEF Follows, Reported
<1>5. QED
  BY <1>1, <1>3, <1>4, LoneMain

LEMMA ListNextPage ==
  ASSUME NEW me, Client = {me}, ListInv, NextPage(me)
  PROVE  Follows(me)'
<1>1. LoneInv /\ Follows(me) /\ me \in Client /\ Alone(me)
  BY ListParts
<1>2. /\ nextpage[me] \in Nat /\ nextpage'[me] = NONE
      /\ request'[me] = CaseList(nextpage[me]) /\ Messages' = {CaseList(nextpage[me])}
  BY <1>1, LoneNextPage
<1>3. nextpage[me] # NONE /\ UNCHANGED <<base, got, events, report>>
  BY DEF NextPage
<1>4. PICK n \in Nat : n = nextpage[me]
  BY <1>2
<1>5. base[me] \subseteq got[me] \cup After(n)
  BY <1>1, <1>3, <1>4 DEF Follows
<1>6. report'[me] = NONE
  BY <1>1, <1>3 DEF Alone
<1>7. request'[me] = CaseList(n) /\ Messages' = {CaseList(n)} /\ CaseList(n).num = n
      /\ CaseList(n).op = "caselist"
  BY <1>2, <1>4 DEF CaseList
<1>8. After(request[me].num)' = After(n)
  BY <1>3, <1>7 DEF After
<1>9. Promised(me, CaseList(n))'
  BY <1>3, <1>5, <1>7, <1>8 DEF Promised
<1>10. QED
  BY <1>2, <1>6, <1>7, <1>9 DEF Follows, Reported

\* A full page leads to the next, any other holds all that was left; without
\* a page the command fails.
LEMMA ListTake ==
  ASSUME NEW me, Client = {me}, ListInv, Take(me)
  PROVE  Follows(me)'
<1>1. LoneInv /\ Follows(me) /\ TypeOK /\ me \in Client
  BY ListParts
<1>2. /\ report \in [Client -> Outcome \cup {NONE}] /\ nextpage \in [Client -> Nat \cup {NONE}]
      /\ got \in [Client -> SUBSET Event]
  BY <1>1 DEF TypeOK
<1>3. /\ Head(mq) \in Message /\ Head(mq) \in Messages /\ Fits(request[me], Head(mq))
      /\ request[me] \in Request /\ request[me] # NONE /\ request'[me] = NONE
      /\ nextpage[me] = NONE /\ report[me] = NONE /\ base' = base
  BY <1>1, LoneHead
<1>4. PICK m \in Message : m = Head(mq)
  BY <1>3
<1>5. ASSUME NEW b \in BOOLEAN, Done(me, b)
      PROVE  report'[me].cmd = request[me] /\ report'[me].ok = b
  <2>1. report'[me] = [cmd |-> request[me], ok |-> b, answer |-> m]
    BY <1>1, <1>2, <1>4, <1>5 DEF Done
  <2>2. QED
    BY <2>1
<1>6. CASE ~ TakeCases(me)
  <2>1. request[me].op # "caselist" /\ nextpage' = nextpage /\ \E b \in BOOLEAN : Done(me, b)
    BY <1>6 DEF Take, TakeLoad, TakeText, TakeMods, Answered
  <2>2. report'[me].cmd.op # "caselist"
    <3>1. PICK b \in BOOLEAN : Done(me, b)
      BY <2>1
    <3>2. report'[me].cmd = request[me]
      BY <1>5, <3>1
    <3>3. QED
      BY <2>1, <3>2
  <2>3. QED
    BY <1>3, <2>1, <2>2 DEF Follows, Reported
<1>7. CASE TakeCases(me)
  <2>1. request[me].op = "caselist" /\ events' = events
    BY <1>7 DEF TakeCases, Answered
  <2>2. PICK n \in Nat : n = request[me].num
    BY <1>3, <2>1, MessageParts DEF Message
  <2>3. PICK page : page = IF m.op = "cases" THEN m.secs ELSE <<>>
    OBVIOUS
  <2>4. got'[me] = got[me] \cup ToSet(page)
    BY <1>1, <1>2, <1>4, <1>7, <2>3 DEF TakeCases
  <2>5. Promised(me, m)
    BY <1>1, <1>3, <1>4, <2>1 DEF Follows
  <2>6. m.op = "cases" \/ m.op = "caselist"
    BY <1>3, <1>4, <2>1 DEF Fits
  <2>7. CASE Len(page) = FAF_NUM
    <3>1. report'[me] = NONE /\ nextpage'[me] = n + FAF_NUM
      BY <1>1, <1>2, <1>3, <1>4, <1>7, <2>2, <2>3, <2>7 DEF TakeCases
    <3>2. m.op = "cases"
      <4>1. ASSUME m.op # "cases" PROVE FALSE
        <5>1. page = <<>>
          BY <2>3, <4>1
        <5>2. QED
          BY <2>7, <5>1, AdmSizes
      <4>2. QED
        BY <4>1
    <3>3. base[me] \subseteq got[me] \cup ToSet(page) \cup After(n + FAF_NUM)
      BY <2>2, <2>3, <2>5, <2>7, <3>2 DEF Promised
    <3>4. After(nextpage[me])' = After(n + FAF_NUM)
      BY <2>1, <3>1 DEF After
    <3>5. QED
      BY <1>3, <2>4, <3>1, <3>3, <3>4 DEF Follows, Reported
  <2>8. CASE Len(page) # FAF_NUM
    <3>1. PICK b \in BOOLEAN : b = (page # <<>> \/ (m.op = "mods" /\ m.secs # {}))
      OBVIOUS
    <3>2. Done(me, b) /\ UNCHANGED nextpage
      BY <1>4, <1>7, <2>3, <2>8, <3>1 DEF TakeCases
    <3>3. report'[me].ok = b
      BY <1>5, <3>2
    <3>4. b = TRUE => m.op = "cases" /\ page = m.secs
      BY <2>3, <2>6, <3>1
    <3>5. b = TRUE => base[me] \subseteq got[me] \cup ToSet(page)
      BY <2>5, <2>8, <3>4 DEF Promised
    <3>6. nextpage'[me] = NONE
      BY <1>3, <3>2
    <3>7. Reported(me, "caselist")' => b = TRUE
      BY <3>3 DEF Reported
    <3>8. QED
      BY <1>3, <2>4, <3>5, <3>6, <3>7 DEF Follows
  <2>9. QED
    BY <2>7, <2>8
<1>8. QED
  BY <1>6, <1>7

LEMMA ListNext ==
  ASSUME NEW me, Client = {me}, MaxKills = 0, Removes = FALSE, ListInv, [Next]_vars
  PROVE  ListInv'
<1>1. LoneInv /\ TypeOK /\ LoneInv'
  BY LoneNext, ListParts
<1>2. SUFFICES Follows(me)'
  BY <1>1 DEF ListInv, Listed
<1>3. CASE Receive
  <2>1. Messages' \subseteq Messages
    BY <1>1, <1>3, LoneReceive
  <2>2. UNCHANGED <<request, nextpage, report, base, got>> /\ events' = events
    BY <1>3 DEF Receive, clivars
  <2>3. QED
    BY <2>1, <2>2, SameAfter, FollowsKept
<1>4. CASE AddEvent
  <2>1. UNCHANGED <<mq, held, request, nextpage, report, base, got>>
    BY <1>4 DEF AddEvent, srvvars, clivars
  <2>2. Messages' = Messages
    BY <2>1 DEF Messages
  <2>3. \A n \in Nat : After(n) \subseteq After(n)'
    BY <1>1, <1>4, InsertedAfter DEF TypeOK
  <2>4. QED
    BY <2>1, <2>2, <2>3, FollowsKept
<1>5. CASE UNCHANGED vars
  <2>1. UNCHANGED <<mq, held, request, nextpage, report, base, got>> /\ events' = events
    BY <1>5 DEF vars
  <2>2. Messages' = Messages
    BY <2>1 DEF Messages
  <2>3. QED
    BY <2>1, <2>2, SameAfter, FollowsKept
<1>6. ASSUME Kill(me) PROVE FALSE
  BY <1>1, <1>6 DEF Kill, TypeOK
<1>7. ASSUME DropEvent PROVE FALSE
  BY <1>7 DEF DropEvent
<1>8. ASSUME (\E r \in Command : Main(me, r)) \/ NextPage(me) \/ Take(me) PROVE Follows(me)'
  BY <1>8, ListMain, ListNextPage, ListTake
<1>9. QED
  BY <1>3, <1>4, <1>5, <1>6, <1>7, <1>8, ListHandle, ListRestart DEF Next

\* With one client that is not killed, a case list that succeeds shows every event
\* that was there from its first page to its last, although the daemon inserts
\* events before, on and after the page under way, as long as it deletes none.
THEOREM NoneIsMissed ==
  ASSUME NEW me, Client = {me}, MaxKills = 0, Removes = FALSE
  PROVE  Spec => []NoneMissed
<1>1. Init => ListInv
  BY LoneInit DEF Init, ListInv, Listed, Follows, Reported
<1>2. ListInv /\ [Next]_vars => ListInv'
  BY ListNext
<1>3. ListInv => NoneMissed
  BY DEF ListInv, Listed, Follows, NoneMissed, Shown
<1>4. QED
  BY <1>1, <1>2, <1>3, PTL DEF Spec
=============================================================================

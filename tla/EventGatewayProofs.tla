------------------------- MODULE EventGatewayProofs -------------------------
(***************************************************************************)
(* Proofs about EventGateway for any number of requests and contents, any  *)
(* lease, window and limit.                                                *)
(***************************************************************************)
EXTENDS EventGateway, SequenceTheorems, TLAPS

\* A request past accept works on the record of its own content, and one that
\* is about to mark it has put it on the topic.
RequestsHoldRecord ==
  \A r \in Requests :
    /\ req[r].pc \in InFlight \cup {"published"} => req[r].content \in Contents
    /\ req[r].pc \in {"reserve", "publish", "mark", "unmark"} =>
         inbox # NoRecord /\ inbox.content = req[r].content
    /\ req[r].pc = "mark" => topic[req[r].content] > 0

\* The limiter's window is the tail of the admissions, and every admission
\* before it is a window or longer ago.
WindowIsTail ==
  /\ Len(window) <= Len(served)
  /\ \A i \in 1..Len(window) : window[i] = served[Len(served) - Len(window) + i]
  /\ \A i \in 1..(Len(served) - Len(window)) : served[i] <= clock - Window

\* The part of the invariant about the limiter ...
LimiterInv ==
  /\ window \in Seq(Nat) /\ served \in Seq(Nat)
  /\ WindowIsTail
  /\ RateIsLimited

\* ... and the part about the inbox and the topic.
InboxInv ==
  /\ clock \in Nat
  /\ inbox \in InboxRecord \cup {NoRecord}
  /\ topic \in [Contents -> Nat]
  /\ req \in [Requests -> Request]
  /\ RequestsHoldRecord
  /\ PublishedMeansOnTopic
  /\ OneContent

\* A request that holds, or once held, the publish reservation.
Publisher(r) == req[r].pc \in {"publish", "mark"}

\* A publisher failed or died; no step forgets it.
Faulty == \E r \in Requests : req[r].pc \in {"unmark", "unavailable", "crashed"}

\* A publisher lost its reservation to a request that found the lease over; it
\* can only fail from here.
Overrun ==
  \E r \in Requests :
    /\ Publisher(r)
    /\ req[r].version < inbox.version
    /\ clock - req[r].at >= Lease

\* Until one of these happens there is at most one publisher, a PUBLISHING
\* record has one, and nothing is on the topic before it has published.
SinglePublisher ==
  /\ inbox.status # "PUBLISH_FAILED"
  /\ inbox.status = "PUBLISHING" => \E r \in Requests : Publisher(r)
  /\ \A r, s \in Requests : Publisher(r) /\ Publisher(s) => r = s
  /\ \A r \in Requests :
       Publisher(r) => /\ inbox.status = "PUBLISHING"
                       /\ req[r].version = inbox.version
                       /\ req[r].at <= inbox.at
  /\ \A c \in Contents :
       /\ topic[c] <= 1
       /\ inbox.status \in {"NONE", "PENDING"} => topic[c] = 0
       /\ (\E r \in Requests : req[r].pc = "publish") => topic[c] = 0

\* Requests carry the time they started.
StartedInThePast == \A r \in Requests : req[r].at <= clock

PublisherInv == StartedInThePast /\ (Faulty \/ Overrun \/ SinglePublisher)

IInv == LimiterInv /\ InboxInv

-----------------------------------------------------------------------------
USE NoContentAssumption, LeaseAssumption, WindowAssumption, LimitAssumption,
    MaxTimeAssumption

\* Replacing one request by a well-formed one keeps the table well-formed and
\* the other requests as they are.
LEMMA RequestUpdate ==
  ASSUME NEW r \in Requests, NEW q \in Request, TypeOK,
         req' = [req EXCEPT ![r] = q]
  PROVE  /\ req' \in [Requests -> Request]
         /\ req'[r] = q
         /\ \A s \in Requests \ {r} : req'[s] = req[s]
  BY DEF TypeOK

\* The same for a step that only moves a request.
LEMMA Moved ==
  ASSUME NEW r \in Requests, TypeOK,
         NEW pc \in {"idle", "crashed"} \cup InFlight \cup Answered, Goto(r, pc)
  PROVE  /\ req' \in [Requests -> Request]
         /\ req'[r].pc = pc /\ req'[r].content = req[r].content
         /\ req'[r].at = req[r].at /\ req'[r].version = req[r].version
         /\ \A s \in Requests \ {r} : req'[s] = req[s]
<1> DEFINE q == [req[r] EXCEPT !.pc = pc]
<1>1. req[r] \in Request
  BY DEF TypeOK
<1>2. q \in Request /\ q.pc = pc /\ q.content = req[r].content
      /\ q.at = req[r].at /\ q.version = req[r].version
  BY <1>1 DEF Request
<1>3. req' = [req EXCEPT ![r] = q]
  BY DEF Goto
<1> HIDE DEF q
<1> QED BY <1>2, <1>3, RequestUpdate

\* Every write leaves an existing, well-typed record.
LEMMA Written ==
  ASSUME TypeOK, NEW status \in {"PENDING", "PUBLISHING", "PUBLISHED", "PUBLISH_FAILED"},
         NEW content \in Contents, NEW at \in Nat, Write(status, content, at)
  PROVE  /\ inbox' \in InboxRecord
         /\ inbox' # NoRecord
         /\ inbox'.status = status /\ inbox'.content = content
<1>1. inbox.version \in Nat
  BY DEF TypeOK, InboxRecord, NoRecord
<1> QED BY <1>1 DEF Write, InboxRecord, NoRecord

\* Popping the expired admissions keeps the window the tail of all admissions.
LEMMA Popped ==
  ASSUME TypeOK, WindowIsTail, NEW popped \in 0..Len(window), Expired(popped)
  PROVE  /\ Recent(popped) \in Seq(Nat)
         /\ Len(Recent(popped)) = Len(window) - popped
         /\ \A i \in 1..Len(Recent(popped)) :
              Recent(popped)[i] = served[Len(served) - Len(Recent(popped)) + i]
         /\ \A i \in 1..(Len(served) - Len(Recent(popped))) :
              served[i] <= clock - Window
<1>0. window \in Seq(Nat) /\ served \in Seq(Nat) /\ clock \in Nat
  BY DEF TypeOK
<1>0a. Len(window) \in Nat /\ Len(served) \in Nat
  BY <1>0
<1>1. /\ Recent(popped) \in Seq(Nat)
      /\ Len(Recent(popped)) = Len(window) - popped
      /\ \A i \in 1..(Len(window) - popped) : Recent(popped)[i] = window[popped + i]
  BY <1>0, <1>0a, SubSeqProperties DEF Recent
<1>2. \A i \in 1..(Len(window) - popped) :
         window[popped + i] = served[Len(served) - Len(window) + (popped + i)]
  BY <1>0a DEF WindowIsTail
<1>3. ASSUME NEW i \in 1..(Len(served) - (Len(window) - popped))
      PROVE  served[i] <= clock - Window
  <2>1. CASE i <= Len(served) - Len(window)
    BY <2>1, <1>0a DEF WindowIsTail
  <2>2. CASE i > Len(served) - Len(window)
    <3> DEFINE j == i - (Len(served) - Len(window))
    <3>1. j \in 1..popped /\ j \in 1..Len(window)
      BY <2>2, <1>0a DEF WindowIsTail
    <3>2. window[j] <= clock - Window
      BY <3>1 DEF Expired
    <3>3. window[j] = served[Len(served) - Len(window) + j]
      BY <3>1 DEF WindowIsTail
    <3>4. Len(served) - Len(window) + j = i
      BY <1>0a
    <3> QED BY <3>2, <3>3, <3>4
  <2> QED BY <2>1, <2>2, <1>0a
<1>4. \A i \in 1..Len(Recent(popped)) :
        Len(served) - Len(Recent(popped)) + i = Len(served) - Len(window) + (popped + i)
  BY <1>0a, <1>1
<1> QED BY <1>1, <1>2, <1>3, <1>4

-----------------------------------------------------------------------------
\* The two parts give the types.
LEMMA IInvTyped == IInv => TypeOK
  BY DEF IInv, LimiterInv, InboxInv, TypeOK

\* Initially nothing is admitted, stored, published or under way.
LEMMA InitIInv == Init => IInv
<1> SUFFICES ASSUME Init PROVE IInv
  OBVIOUS
<1>1. window = <<>> /\ served = <<>> /\ clock = 0 /\ Len(<<>>) = 0
  BY DEF Init
<1>2. LimiterInv
  BY <1>1 DEF LimiterInv, WindowIsTail, RateIsLimited
<1>3. InboxInv
  BY DEF Init, InboxInv, RequestsHoldRecord, PublishedMeansOnTopic, OneContent,
         NoRecord, IdleRequest, Request, InFlight, Answered
<1> QED BY <1>2, <1>3 DEF IInv

\* Every step keeps the limiter's part: only an admission adds to it, and the
\* admission `Limit` places before the new one has expired.
LEMMA NextLimiter ==
  ASSUME IInv, [Next]_vars
  PROVE  LimiterInv'
<1>0. TypeOK /\ WindowIsTail /\ RateIsLimited
  BY IInvTyped DEF IInv, LimiterInv
<1>t. window \in Seq(Nat) /\ served \in Seq(Nat) /\ clock \in Nat
      /\ Len(window) \in Nat /\ Len(served) \in Nat
  BY <1>0 DEF TypeOK
<1>n. Len(window) \in Nat /\ Len(served) \in Nat
  BY <1>t
<1>1. CASE tick
  <2>1. window' = window /\ served' = served /\ clock' = clock + 1
    BY <1>1 DEF tick
  <2>2. WindowIsTail'
    BY <1>0, <1>t, <2>1 DEF WindowIsTail
  <2>3. RateIsLimited'
    BY <1>0, <2>1 DEF RateIsLimited
  <2> QED BY <2>1, <2>2, <2>3, <1>t DEF LimiterInv
<1>2. ASSUME NEW r \in Requests, NEW content \in Contents, ingest_change(r, content)
      PROVE  LimiterInv'
  <2>1. clock' = clock
    BY <1>2 DEF ingest_change
  <2>2. PICK popped \in 0..Len(window) :
          /\ Expired(popped)
          /\ \/ /\ Admitted(popped)
                /\ window' = Append(Recent(popped), clock)
                /\ served' = Append(served, clock)
             \/ window' = Recent(popped) /\ served' = served
    BY <1>2 DEF ingest_change
  <2> DEFINE w == Recent(popped)
  <2>3. /\ w \in Seq(Nat) /\ Len(w) = Len(window) - popped /\ Len(w) \in Nat
        /\ Len(w) <= Len(served)
        /\ \A i \in 1..Len(w) : w[i] = served[Len(served) - Len(w) + i]
        /\ \A i \in 1..(Len(served) - Len(w)) : served[i] <= clock - Window
    <3>1. Len(window) <= Len(served)
      BY <1>0 DEF WindowIsTail
    <3>2. Len(w) = Len(window) - popped
      BY <1>0, <2>2, Popped
    <3>3. Len(w) \in Nat /\ Len(w) <= Len(served)
      BY <3>1, <3>2, <1>t
    <3> QED BY <1>0, <2>2, <3>2, <3>3, Popped
  <2>b. Len(w) \in Nat /\ Len(w) <= Len(served)
    BY <2>3
  <2>a. Admitted(popped) => Len(w) < Limit
    BY <2>3 DEF Admitted
  <2> HIDE DEF w
  <2>4. CASE window' = w /\ served' = served
    <3>1. WindowIsTail'
      BY <2>1, <2>3, <2>4 DEF WindowIsTail
    <3>2. RateIsLimited'
      BY <1>0, <2>4 DEF RateIsLimited
    <3> QED BY <2>3, <2>4, <3>1, <3>2, <1>t DEF LimiterInv
  <2>5. CASE /\ Len(w) < Limit
             /\ window' = Append(w, clock) /\ served' = Append(served, clock)
    <3>1. /\ window' \in Seq(Nat) /\ Len(window') = Len(w) + 1
          /\ \A i \in 1..Len(w) : window'[i] = w[i]
          /\ window'[Len(w) + 1] = clock
      BY <1>t, <2>3, <2>5, AppendProperties
    <3>2. /\ served' \in Seq(Nat) /\ Len(served') = Len(served) + 1
          /\ \A i \in 1..Len(served) : served'[i] = served[i]
          /\ served'[Len(served) + 1] = clock
      BY <1>t, <2>5, AppendProperties
    <3>n. Len(window') = Len(w) + 1 /\ Len(served') = Len(served) + 1
      BY <3>1, <3>2
    <3>3. WindowIsTail'
      <4>1. Len(window') <= Len(served')
        BY <1>t, <2>3, <3>1, <3>2
      <4>2. ASSUME NEW i \in 1..Len(window')
            PROVE  window'[i] = served'[Len(served') - Len(window') + i]
        <5>1. CASE i = Len(w) + 1
          BY <5>1, <1>t, <2>3, <3>1, <3>2
        <5>2. CASE i \in 1..Len(w)
          <6>1. Len(served') - Len(window') + i = Len(served) - Len(w) + i
            BY <1>t, <2>3, <3>1, <3>2
          <6>2. Len(served) - Len(w) + i \in 1..Len(served)
            BY <5>2, <1>t, <2>b
          <6> QED BY <5>2, <6>1, <6>2, <2>3, <3>1, <3>2
        <5> QED BY <5>1, <5>2, <2>3, <3>1
      <4>3. ASSUME NEW i \in 1..(Len(served') - Len(window'))
            PROVE  served'[i] <= clock' - Window
        <5>1. i \in 1..(Len(served) - Len(w)) /\ i \in 1..Len(served)
          BY <1>n, <2>b, <3>n
        <5> QED BY <5>1, <2>1, <2>3, <3>2
      <4> QED BY <4>1, <4>2, <4>3 DEF WindowIsTail
    <3>4. RateIsLimited'
      <4> SUFFICES ASSUME NEW i \in 1..Len(served'), i + Limit <= Len(served')
                   PROVE  served'[i + Limit] - served'[i] >= Window
        BY DEF RateIsLimited
      <4>0. i \in Nat \ {0} /\ Len(served') = Len(served) + 1
        BY <3>2
      <4>1. CASE i + Limit <= Len(served)
        <5>1. i \in 1..Len(served) /\ i + Limit \in 1..Len(served)
          BY <4>1, <1>t
        <5>2. served[i + Limit] - served[i] >= Window
          BY <5>1, <4>1, <1>0 DEF RateIsLimited
        <5> QED BY <5>1, <5>2, <3>2
      <4>2. CASE i + Limit = Len(served) + 1
        <5>1. i \in 1..(Len(served) - Len(w)) /\ i \in 1..Len(served)
          BY <4>2, <4>0, <1>t, <2>b, <2>5
        <5>2. served[i] <= clock - Window /\ served[i] \in Nat
          BY <5>1, <2>3, <1>t
        <5>3. served'[i] = served[i] /\ served'[i + Limit] = clock
          BY <5>1, <4>2, <3>2
        <5> QED BY <5>2, <5>3, <1>t
      <4>3. i + Limit <= Len(served) \/ i + Limit = Len(served) + 1
        BY <4>0, <1>n
      <4> QED BY <4>1, <4>2, <4>3
    <3> QED BY <3>1, <3>2, <3>3, <3>4 DEF LimiterInv
  <2> QED BY <2>2, <2>a, <2>4, <2>5 DEF w
<1>3. CASE restart
  <2>1. window' = <<>> /\ served' = <<>> /\ Len(<<>>) = 0
    BY <1>3 DEF restart
  <2> QED BY <2>1, <1>t DEF LimiterInv, WindowIsTail, RateIsLimited
<1>4. CASE UNCHANGED <<clock, window, served>>
  BY <1>0, <1>t, <1>4 DEF LimiterInv, WindowIsTail, RateIsLimited
<1>5. ASSUME NEW r \in Requests,
             \/ accept(r) \/ reserve_publish(r) \/ publish(r)
             \/ mark_published(r) \/ mark_publish_failed(r) \/ store_failure(r)
      PROVE  UNCHANGED <<clock, window, served>>
  BY <1>5 DEF accept, reserve_publish, publish, mark_published, mark_publish_failed,
              finish_publish, store_failure
<1>6. UNCHANGED vars => UNCHANGED <<clock, window, served>>
  BY DEF vars
<1> QED BY <1>1, <1>2, <1>3, <1>4, <1>5, <1>6 DEF Next

-----------------------------------------------------------------------------
\* A step that only moves a request, to a place that promises no more than
\* what the documents already keep, keeps the inbox's part.
LEMMA OnlyMoves ==
  ASSUME IInv, NEW r \in Requests,
         NEW pc \in {"idle", "crashed"} \cup InFlight \cup Answered, Goto(r, pc),
         UNCHANGED <<clock, inbox, topic>>,
         pc \in InFlight \cup {"published"} => req[r].content \in Contents,
         pc \in {"reserve", "publish", "mark", "unmark"} =>
           inbox # NoRecord /\ inbox.content = req[r].content,
         pc \in {"mark", "published"} => topic[req[r].content] > 0
  PROVE  InboxInv'
<1>1. /\ req' \in [Requests -> Request]
      /\ req'[r].pc = pc /\ req'[r].content = req[r].content
      /\ \A s \in Requests \ {r} : req'[s] = req[s]
  BY IInvTyped, Moved
<1>2. RequestsHoldRecord'
  <2> SUFFICES ASSUME NEW s \in Requests
               PROVE  /\ req'[s].pc \in InFlight \cup {"published"} => req'[s].content \in Contents
                      /\ req'[s].pc \in {"reserve", "publish", "mark", "unmark"} =>
                           inbox # NoRecord /\ inbox.content = req'[s].content
                      /\ req'[s].pc = "mark" => topic[req'[s].content] > 0
    BY DEF RequestsHoldRecord
  <2>1. CASE s = r
    BY <1>1, <2>1
  <2>2. CASE s # r
    BY <1>1, <2>2 DEF IInv, InboxInv, RequestsHoldRecord
  <2> QED BY <2>1, <2>2
<1>3. PublishedMeansOnTopic'
  <2>1. ASSUME NEW s \in Requests, req'[s].pc = "published"
        PROVE  topic[req'[s].content] > 0
    <3>1. CASE s = r
      BY <1>1, <2>1, <3>1
    <3>2. CASE s # r
      BY <1>1, <2>1, <3>2 DEF IInv, InboxInv, PublishedMeansOnTopic
    <3> QED BY <3>1, <3>2
  <2> QED BY <2>1 DEF IInv, InboxInv, PublishedMeansOnTopic
<1>4. OneContent'
  BY DEF IInv, InboxInv, OneContent
<1> QED BY <1>1, <1>2, <1>3, <1>4 DEF IInv, InboxInv

\* A step that also writes the inbox: the record keeps its content unless it
\* is new, and says PUBLISHED only if the content is on the topic.
LEMMA MovesAndWrites ==
  ASSUME IInv, NEW r \in Requests, req[r].content \in Contents,
         req' \in [Requests -> Request], req'[r].content = req[r].content,
         \A s \in Requests \ {r} : req'[s] = req[s],
         UNCHANGED <<clock, topic>>,
         NEW status \in {"PENDING", "PUBLISHING", "PUBLISHED", "PUBLISH_FAILED"},
         NEW at \in Nat, Write(status, req[r].content, at),
         inbox = NoRecord \/ inbox.content = req[r].content,
         status = "PUBLISHED" \/ req'[r].pc \in {"mark", "published"} =>
           topic[req[r].content] > 0
  PROVE  InboxInv'
<1> DEFINE c == req[r].content
<1>0. TypeOK
  BY IInvTyped
<1>1. /\ inbox' \in InboxRecord /\ inbox' # NoRecord
      /\ inbox'.status = status /\ inbox'.content = c
  BY <1>0, Written
<1>2. inbox = NoRecord => \A d \in Contents : ~(topic[d] > 0)
  BY DEF IInv, InboxInv, OneContent, NoRecord
<1>3. OneContent'
  BY <1>1, <1>2 DEF IInv, InboxInv, OneContent
<1>4. RequestsHoldRecord'
  <2> SUFFICES ASSUME NEW s \in Requests
               PROVE  /\ req'[s].pc \in InFlight \cup {"published"} => req'[s].content \in Contents
                      /\ req'[s].pc \in {"reserve", "publish", "mark", "unmark"} =>
                           inbox' # NoRecord /\ inbox'.content = req'[s].content
                      /\ req'[s].pc = "mark" => topic[req'[s].content] > 0
    BY DEF RequestsHoldRecord
  <2>1. CASE s = r
    BY <1>1, <2>1
  <2>2. CASE s # r
    BY <1>1, <2>2 DEF IInv, InboxInv, RequestsHoldRecord
  <2> QED BY <2>1, <2>2
<1>5. PublishedMeansOnTopic'
  <2>1. ASSUME NEW s \in Requests, req'[s].pc = "published"
        PROVE  topic[req'[s].content] > 0
    <3>1. CASE s = r
      BY <2>1, <3>1
    <3>2. CASE s # r
      BY <2>1, <3>2 DEF IInv, InboxInv, PublishedMeansOnTopic
    <3> QED BY <3>1, <3>2
  <2> QED BY <2>1, <1>1 DEF PublishedMeansOnTopic
<1> QED BY <1>1, <1>3, <1>4, <1>5 DEF IInv, InboxInv

\* What the invariant says of one request under way.
LEMMA RequestFacts ==
  ASSUME IInv, NEW r \in Requests
  PROVE  /\ req[r] \in Request /\ req[r].at \in Nat /\ clock \in Nat
         /\ inbox.version \in Nat
         /\ req[r].pc \in InFlight \cup {"published"} => req[r].content \in Contents
         /\ req[r].pc \in {"reserve", "publish", "mark", "unmark"} =>
              inbox # NoRecord /\ inbox.content = req[r].content
         /\ req[r].pc = "mark" => topic[req[r].content] > 0
         /\ inbox.status = "PUBLISHED" => topic[inbox.content] > 0
<1>1. req[r] \in Request /\ clock \in Nat /\ inbox \in InboxRecord \cup {NoRecord}
  BY DEF IInv, InboxInv
<1> QED BY <1>1 DEF IInv, InboxInv, RequestsHoldRecord, PublishedMeansOnTopic, Request,
                    InboxRecord, NoRecord

\* Marking the outcome, either way.
LEMMA FinishKeeps ==
  ASSUME IInv, NEW r \in Requests,
         NEW status \in {"PUBLISHED", "PUBLISH_FAILED"},
         NEW answer \in {"published", "unavailable"},
         req[r].pc \in {"mark", "unmark"},
         status = "PUBLISHED" \/ answer = "published" => req[r].pc = "mark",
         finish_publish(r, status, answer)
  PROVE  InboxInv'
<1>0. TypeOK
  BY IInvTyped
<1>a. answer \in {"idle", "crashed"} \cup InFlight \cup Answered
      /\ answer \notin InFlight
  BY DEF Answered, InFlight
<1>b. "unavailable" \in {"idle", "crashed"} \cup InFlight \cup Answered
      /\ "unavailable" \notin InFlight
  BY DEF Answered, InFlight
<1>f. UNCHANGED <<clock, topic>>
  BY DEF finish_publish
<1>r. /\ req[r].content \in Contents /\ inbox.content = req[r].content /\ clock \in Nat
      /\ req[r].pc = "mark" => topic[req[r].content] > 0
  BY RequestFacts DEF InFlight
<1>1. CASE Write(status, inbox.content, clock) /\ (Goto(r, answer) \/ Goto(r, "unavailable"))
  <2>1. /\ req' \in [Requests -> Request]
        /\ req'[r].pc \in {answer, "unavailable"}
        /\ req'[r].content = req[r].content
        /\ \A s \in Requests \ {r} : req'[s] = req[s]
    <3>1. CASE Goto(r, answer)
      BY <1>0, <1>a, <3>1, Moved
    <3>2. CASE Goto(r, "unavailable")
      BY <1>0, <1>b, <3>2, Moved
    <3> QED BY <1>1, <3>1, <3>2
  <2>2. Write(status, req[r].content, clock)
    BY <1>1, <1>r
  <2>3. status = "PUBLISHED" \/ req'[r].pc \in {"mark", "published"} =>
          topic[req[r].content] > 0
    BY <1>r, <2>1
  <2> QED BY <2>1, <2>2, <2>3, <1>f, <1>r, MovesAndWrites
<1>2. CASE Goto(r, "unavailable") /\ UNCHANGED inbox
  <2>1. Goto(r, "unavailable") /\ UNCHANGED <<clock, inbox, topic>>
    BY <1>2, <1>f
  <2> QED BY <2>1, <1>b, OnlyMoves DEF InFlight
<1> QED BY <1>1, <1>2 DEF finish_publish

\* Every step keeps the inbox's part.
LEMMA NextInbox ==
  ASSUME IInv, [Next]_vars
  PROVE  InboxInv'
<1> DEFINE PCs == {"idle", "crashed"} \cup InFlight \cup Answered
<1>0. TypeOK
  BY IInvTyped
<1>1. CASE tick
  BY <1>1 DEF tick, IInv, InboxInv, RequestsHoldRecord, PublishedMeansOnTopic, OneContent
<1>2. ASSUME NEW r \in Requests, NEW content \in Contents, ingest_change(r, content)
      PROVE  InboxInv'
  <2> DEFINE q(pc) == [pc |-> pc, content |-> content, at |-> clock, version |-> 0]
  <2>1. PICK pc \in {"accept", "limited"} : req' = [req EXCEPT ![r] = q(pc)]
    BY <1>2 DEF ingest_change
  <2>2. q(pc) \in Request /\ q(pc).pc \in {"accept", "limited"} /\ q(pc).content = content
    BY <1>0 DEF TypeOK, Request, InFlight, Answered
  <2> HIDE DEF q
  <2>3. /\ req' \in [Requests -> Request]
        /\ req'[r].pc \in {"accept", "limited"} /\ req'[r].content = content
        /\ \A s \in Requests \ {r} : req'[s] = req[s]
    BY <1>0, <2>1, <2>2, RequestUpdate
  <2>4. UNCHANGED <<clock, inbox, topic>>
    BY <1>2 DEF ingest_change
  <2>5. RequestsHoldRecord'
    <3> SUFFICES ASSUME NEW s \in Requests
                 PROVE  /\ req'[s].pc \in InFlight \cup {"published"} => req'[s].content \in Contents
                        /\ req'[s].pc \in {"reserve", "publish", "mark", "unmark"} =>
                             inbox # NoRecord /\ inbox.content = req'[s].content
                        /\ req'[s].pc = "mark" => topic[req'[s].content] > 0
      BY <2>4 DEF RequestsHoldRecord
    <3>1. CASE s = r
      BY <2>3, <3>1
    <3>2. CASE s # r
      BY <2>3, <3>2 DEF IInv, InboxInv, RequestsHoldRecord
    <3> QED BY <3>1, <3>2
  <2>6. PublishedMeansOnTopic'
    BY <2>3, <2>4 DEF IInv, InboxInv, PublishedMeansOnTopic
  <2> QED BY <2>3, <2>4, <2>5, <2>6 DEF IInv, InboxInv, OneContent
<1>3. ASSUME NEW r \in Requests, accept(r)
      PROVE  InboxInv'
  <2>1. req[r].pc = "accept" /\ UNCHANGED <<clock, topic>>
    BY <1>3 DEF accept
  <2>2. req[r].content \in Contents /\ req[r].at \in Nat /\ clock \in Nat
    BY <2>1, RequestFacts DEF InFlight
  <2>3. ASSUME inbox = NoRecord, NEW at \in Stamps(req[r].at),
               Write("PENDING", req[r].content, at), Goto(r, "reserve")
        PROVE  InboxInv'
    <3>1. at \in Nat
      BY <2>2 DEF Stamps
    <3>2. /\ req' \in [Requests -> Request]
          /\ req'[r].pc = "reserve" /\ req'[r].content = req[r].content
          /\ \A s \in Requests \ {r} : req'[s] = req[s]
      BY <1>0, <2>3, Moved DEF InFlight
    <3> QED BY <2>1, <2>2, <2>3, <3>1, <3>2, MovesAndWrites
  <2>4. CASE inbox # NoRecord /\ SameContent(r) /\ UNCHANGED inbox
             /\ Goto(r, IF inbox.status = "PUBLISHED" THEN "published" ELSE "reserve")
    <3>1. inbox.content = req[r].content
      BY <2>4 DEF SameContent
    <3>2. CASE inbox.status = "PUBLISHED"
      <4>1. Goto(r, "published") /\ topic[req[r].content] > 0
        BY <2>4, <3>1, <3>2, RequestFacts
      <4> QED BY <2>1, <2>2, <2>4, <4>1, OnlyMoves DEF InFlight, Answered
    <3>3. CASE inbox.status # "PUBLISHED"
      <4>1. Goto(r, "reserve")
        BY <2>4, <3>3
      <4> QED BY <2>1, <2>2, <2>4, <3>1, <4>1, OnlyMoves DEF InFlight
    <3> QED BY <3>2, <3>3
  <2>5. CASE Goto(r, "conflict") /\ UNCHANGED inbox
    BY <2>1, <2>5, OnlyMoves DEF InFlight, Answered
  <2> QED BY <1>3, <2>3, <2>4, <2>5 DEF accept
<1>4. ASSUME NEW r \in Requests, reserve_publish(r)
      PROVE  InboxInv'
  <2>1. req[r].pc = "reserve" /\ UNCHANGED <<clock, topic>>
    BY <1>4 DEF reserve_publish
  <2>2. /\ req[r] \in Request /\ req[r].content \in Contents /\ inbox.version \in Nat
        /\ inbox.content = req[r].content /\ req[r].at \in Nat /\ clock \in Nat
    BY <2>1, RequestFacts DEF InFlight
  <2>3. CASE Goto(r, "accepted") /\ UNCHANGED inbox
    BY <2>1, <2>3, OnlyMoves DEF InFlight, Answered
  <2>4. ASSUME NEW at \in Stamps(req[r].at), Write("PUBLISHING", inbox.content, at),
               req' = [req EXCEPT ![r] =
                         [pc |-> "publish", content |-> req[r].content,
                          at |-> req[r].at, version |-> inbox.version + 1]]
        PROVE  InboxInv'
    <3> DEFINE q == [pc |-> "publish", content |-> req[r].content,
                     at |-> req[r].at, version |-> inbox.version + 1]
    <3>1. q \in Request /\ q.pc = "publish" /\ q.content = req[r].content
      BY <2>2 DEF Request, InFlight
    <3>2. req' = [req EXCEPT ![r] = q]
      BY <2>4
    <3> HIDE DEF q
    <3>3. /\ req' \in [Requests -> Request]
          /\ req'[r].pc = "publish" /\ req'[r].content = req[r].content
          /\ \A s \in Requests \ {r} : req'[s] = req[s]
      BY <1>0, <3>1, <3>2, RequestUpdate
    <3>4. at \in Nat /\ Write("PUBLISHING", req[r].content, at)
      BY <2>2, <2>4 DEF Stamps
    <3> QED BY <2>1, <2>2, <3>3, <3>4, MovesAndWrites
  <2> QED BY <1>4, <2>3, <2>4 DEF reserve_publish
<1>5. ASSUME NEW r \in Requests, publish(r)
      PROVE  InboxInv'
  <2> DEFINE c == req[r].content
  <2>1. req[r].pc = "publish" /\ UNCHANGED <<clock, inbox>>
    BY <1>5 DEF publish
  <2>2. c \in Contents /\ inbox # NoRecord /\ inbox.content = c
    BY <2>1, RequestFacts DEF InFlight
  <2>3. CASE Goto(r, "unmark") /\ UNCHANGED topic
    BY <2>1, <2>2, <2>3, OnlyMoves DEF InFlight
  <2>4. CASE topic' = [topic EXCEPT ![c] = @ + 1] /\ (Goto(r, "mark") \/ Goto(r, "unmark"))
    <3>1. /\ topic' \in [Contents -> Nat] /\ topic'[c] > 0
          /\ \A d \in Contents \ {c} : topic'[d] = topic[d]
          /\ \A d \in Contents : topic[d] > 0 => topic'[d] > 0
      BY <1>0, <2>2, <2>4 DEF TypeOK
    <3>2. PICK pc \in {"mark", "unmark"} : Goto(r, pc)
      BY <2>4
    <3>3. /\ req' \in [Requests -> Request]
          /\ req'[r].pc = pc /\ req'[r].content = c
          /\ \A s \in Requests \ {r} : req'[s] = req[s]
      BY <1>0, <3>2, Moved DEF InFlight
    <3>4. RequestsHoldRecord'
      <4> SUFFICES ASSUME NEW s \in Requests
                   PROVE  /\ req'[s].pc \in InFlight \cup {"published"} => req'[s].content \in Contents
                          /\ req'[s].pc \in {"reserve", "publish", "mark", "unmark"} =>
                               inbox # NoRecord /\ inbox.content = req'[s].content
                          /\ req'[s].pc = "mark" => topic'[req'[s].content] > 0
        BY <2>1 DEF RequestsHoldRecord
      <4>1. CASE s = r
        BY <2>2, <3>1, <3>3, <4>1
      <4>2. CASE s # r
        <5>1. req'[s] = req[s]
          BY <3>3, <4>2
        <5>2. req[s].pc = "mark" => req[s].content \in Contents
          BY RequestFacts DEF InFlight
        <5> QED BY <3>1, <5>1, <5>2 DEF IInv, InboxInv, RequestsHoldRecord
      <4> QED BY <4>1, <4>2
    <3>5. PublishedMeansOnTopic'
      <4>1. inbox.status = "PUBLISHED" => topic'[inbox.content] > 0
        BY <2>2, <3>1
      <4>2. ASSUME NEW s \in Requests, req'[s].pc = "published"
            PROVE  topic'[req'[s].content] > 0
        <5>1. s # r /\ req'[s] = req[s]
          BY <3>2, <3>3, <4>2
        <5>2. topic[req[s].content] > 0
          BY <4>2, <5>1 DEF IInv, InboxInv, PublishedMeansOnTopic
        <5>3. req[s].content \in Contents
          BY <4>2, <5>1 DEF IInv, InboxInv, RequestsHoldRecord
        <5> QED BY <3>1, <5>1, <5>2, <5>3
      <4> QED BY <2>1, <4>1, <4>2 DEF PublishedMeansOnTopic
    <3>6. OneContent'
      BY <2>1, <2>2, <3>1 DEF IInv, InboxInv, OneContent
    <3> QED BY <2>1, <3>1, <3>3, <3>4, <3>5, <3>6 DEF IInv, InboxInv
  <2> QED BY <1>5, <2>3, <2>4 DEF publish
<1>6. ASSUME NEW r \in Requests, mark_published(r)
      PROVE  InboxInv'
  BY <1>6, FinishKeeps DEF mark_published
<1>7. ASSUME NEW r \in Requests, mark_publish_failed(r)
      PROVE  InboxInv'
  BY <1>7, FinishKeeps DEF mark_publish_failed
<1>8. ASSUME NEW r \in Requests, store_failure(r)
      PROVE  InboxInv'
  <2>1. Goto(r, "unavailable") /\ UNCHANGED <<clock, inbox, topic>>
    BY <1>8 DEF store_failure
  <2> QED BY <2>1, OnlyMoves DEF InFlight, Answered
<1>9. CASE restart
  <2>1. UNCHANGED <<clock, inbox, topic>>
    BY <1>9 DEF restart
  <2>2. ASSUME NEW r \in Requests
        PROVE  /\ req'[r] \in Request /\ req'[r].content = req[r].content
               /\ req'[r].pc \notin InFlight
               /\ req'[r].pc = "published" => req[r].pc = "published"
    <3>1. req[r] \in Request
      BY <1>0 DEF TypeOK
    <3>2. CASE req[r].pc \in InFlight
      <4>1. req'[r] = [req[r] EXCEPT !.pc = "crashed"]
        BY <1>9, <3>2 DEF restart
      <4> QED BY <3>1, <4>1 DEF Request, InFlight
    <3>3. CASE req[r].pc \notin InFlight
      <4>1. req'[r] = req[r]
        BY <1>9, <3>3 DEF restart
      <4> QED BY <3>1, <3>3, <4>1
    <3> QED BY <3>2, <3>3
  <2>3. req' \in [Requests -> Request]
    BY <1>9, <2>2 DEF restart
  <2>4. RequestsHoldRecord'
    BY <2>2 DEF IInv, InboxInv, RequestsHoldRecord, InFlight
  <2>5. PublishedMeansOnTopic'
    BY <2>1, <2>2 DEF IInv, InboxInv, PublishedMeansOnTopic
  <2> QED BY <2>1, <2>3, <2>4, <2>5 DEF IInv, InboxInv, OneContent
<1>10. CASE UNCHANGED vars
  BY <1>10 DEF vars, IInv, InboxInv, RequestsHoldRecord, PublishedMeansOnTopic, OneContent
<1> QED BY <1>1, <1>2, <1>3, <1>4, <1>5, <1>6, <1>7, <1>8, <1>9, <1>10 DEF Next

-----------------------------------------------------------------------------
(* Duplicates.                                                             *)

\* What a step of anybody does to one request.
Moves(s) ==
  \/ req'[s] = req[s]
  \/ /\ req[s].pc = "idle" /\ req'[s].pc \in {"accept", "limited"}
     /\ req'[s].at = clock
  \/ /\ req[s].pc = "reserve" /\ req'[s].pc = "publish"
     /\ req'[s].at = req[s].at
  \/ /\ req'[s].at = req[s].at /\ req'[s].version = req[s].version
     /\ \/ req[s].pc \in InFlight /\ req'[s].pc \in {"unavailable", "crashed"}
        \/ /\ req[s].pc \in {"accept", "reserve"}
           /\ req'[s].pc \in {"reserve", "published", "conflict", "accepted"}
        \/ req[s].pc = "publish" /\ req'[s].pc \in {"mark", "unmark"}
        \/ /\ req[s].pc = "mark" /\ req'[s].pc = "published"
           /\ req[s].version = inbox.version

\* Versions and the clock only grow, and a publisher ends as published only
\* while the reservation is its own.
LEMMA EveryStepMoves ==
  ASSUME IInv, [Next]_vars
  PROVE  /\ clock' >= clock /\ inbox'.version >= inbox.version
         /\ \A s \in Requests : Moves(s)
<1>0. TypeOK /\ clock \in Nat /\ inbox.version \in Nat
  BY IInvTyped DEF IInv, InboxInv, InboxRecord, NoRecord
<1>p. /\ {"reserve", "published", "conflict", "accepted", "mark", "unmark",
          "unavailable", "crashed"} \subseteq {"idle", "crashed"} \cup InFlight \cup Answered
      /\ {"accept", "reserve", "publish", "mark", "unmark"} = InFlight
  BY DEF InFlight, Answered
<1>s. UNCHANGED inbox => inbox'.version >= inbox.version
  BY <1>0
<1>w. \A status, content, at : Write(status, content, at) => inbox'.version >= inbox.version
  BY <1>0 DEF Write
<1>1. CASE tick
  BY <1>0, <1>1 DEF tick, Moves
<1>2. ASSUME NEW r \in Requests, NEW content \in Contents, ingest_change(r, content)
      PROVE  /\ clock' >= clock /\ inbox'.version >= inbox.version
             /\ \A s \in Requests : Moves(s)
  <2>1. UNCHANGED <<clock, inbox>> /\ req[r].pc = "idle"
    BY <1>2 DEF ingest_change
  <2>2. PICK pc \in {"accept", "limited"} :
          req' = [req EXCEPT ![r] = [pc |-> pc, content |-> content,
                                     at |-> clock, version |-> 0]]
    BY <1>2 DEF ingest_change
  <2>3. ASSUME NEW s \in Requests PROVE Moves(s)
    <3>1. CASE s = r
      BY <1>0, <2>1, <2>2, <3>1 DEF TypeOK, Moves
    <3>2. CASE s # r
      BY <1>0, <2>2, <3>2 DEF TypeOK, Moves
    <3> QED BY <3>1, <3>2
  <2> QED BY <1>0, <2>1, <2>3
<1>3. ASSUME NEW r \in Requests, accept(r)
      PROVE  /\ clock' >= clock /\ inbox'.version >= inbox.version
             /\ \A s \in Requests : Moves(s)
  <2>1. UNCHANGED clock /\ req[r].pc = "accept"
    BY <1>3 DEF accept
  <2>2. PICK pc \in {"reserve", "published", "conflict"} : Goto(r, pc)
    BY <1>3 DEF accept
  <2>3. \A s \in Requests : Moves(s)
    BY <1>0, <1>p, <2>1, <2>2, Moved DEF Moves
  <2>4. inbox'.version >= inbox.version
    BY <1>3, <1>s, <1>w DEF accept
  <2> QED BY <1>0, <2>1, <2>3, <2>4
<1>4. ASSUME NEW r \in Requests, reserve_publish(r)
      PROVE  /\ clock' >= clock /\ inbox'.version >= inbox.version
             /\ \A s \in Requests : Moves(s)
  <2>1. UNCHANGED clock /\ req[r].pc = "reserve"
    BY <1>4 DEF reserve_publish
  <2>2. inbox'.version >= inbox.version
    BY <1>4, <1>s, <1>w DEF reserve_publish
  <2>3. CASE Goto(r, "accepted")
    <3>1. \A s \in Requests : Moves(s)
      BY <1>0, <1>p, <2>1, <2>3, Moved DEF Moves
    <3> QED BY <1>0, <2>1, <2>2, <3>1
  <2>4. CASE req' = [req EXCEPT ![r] =
                       [pc |-> "publish", content |-> req[r].content,
                        at |-> req[r].at, version |-> inbox.version + 1]]
    <3>1. ASSUME NEW s \in Requests PROVE Moves(s)
      <4>1. CASE s = r
        BY <1>0, <2>1, <2>4, <4>1 DEF TypeOK, Moves
      <4>2. CASE s # r
        BY <1>0, <2>4, <4>2 DEF TypeOK, Moves
      <4> QED BY <4>1, <4>2
    <3> QED BY <1>0, <2>1, <2>2, <3>1
  <2> QED BY <1>4, <2>3, <2>4 DEF reserve_publish
<1>5. ASSUME NEW r \in Requests, publish(r)
      PROVE  /\ clock' >= clock /\ inbox'.version >= inbox.version
             /\ \A s \in Requests : Moves(s)
  <2>1. UNCHANGED <<clock, inbox>> /\ req[r].pc = "publish"
    BY <1>5 DEF publish
  <2>2. PICK pc \in {"mark", "unmark"} : Goto(r, pc)
    BY <1>5 DEF publish
  <2>3. \A s \in Requests : Moves(s)
    BY <1>0, <1>p, <2>1, <2>2, Moved DEF Moves
  <2> QED BY <1>0, <2>1, <2>3
<1>6. ASSUME NEW r \in Requests, mark_published(r)
      PROVE  /\ clock' >= clock /\ inbox'.version >= inbox.version
             /\ \A s \in Requests : Moves(s)
  <2>1. UNCHANGED clock /\ req[r].pc = "mark"
    BY <1>6 DEF mark_published, finish_publish
  <2>2. inbox'.version >= inbox.version
    BY <1>6, <1>s, <1>w DEF mark_published, finish_publish
  <2>3. CASE Goto(r, "unavailable")
    <3>1. \A s \in Requests : Moves(s)
      BY <1>0, <1>p, <2>1, <2>3, Moved DEF Moves
    <3> QED BY <1>0, <2>1, <2>2, <3>1
  <2>4. CASE Goto(r, "published") /\ ReservationIsMine(r)
    <3>1. \A s \in Requests : Moves(s)
      BY <1>0, <1>p, <2>1, <2>4, Moved DEF Moves, ReservationIsMine
    <3> QED BY <1>0, <2>1, <2>2, <3>1
  <2> QED BY <1>6, <2>3, <2>4 DEF mark_published, finish_publish
<1>7. ASSUME NEW r \in Requests, mark_publish_failed(r) \/ store_failure(r)
      PROVE  /\ clock' >= clock /\ inbox'.version >= inbox.version
             /\ \A s \in Requests : Moves(s)
  <2>1. UNCHANGED clock /\ req[r].pc \in InFlight /\ Goto(r, "unavailable")
    BY <1>7, <1>p DEF mark_publish_failed, finish_publish, store_failure
  <2>2. inbox'.version >= inbox.version
    BY <1>7, <1>s, <1>w DEF mark_publish_failed, finish_publish, store_failure
  <2>3. \A s \in Requests : Moves(s)
    BY <1>0, <1>p, <2>1, Moved DEF Moves
  <2> QED BY <1>0, <2>1, <2>2, <2>3
<1>8. CASE restart
  <2>1. UNCHANGED <<clock, inbox>>
    BY <1>8 DEF restart
  <2>2. ASSUME NEW s \in Requests PROVE Moves(s)
    <3>1. req[s] \in Request
      BY <1>0 DEF TypeOK
    <3>2. CASE req[s].pc \in InFlight
      <4>1. req'[s] = [req[s] EXCEPT !.pc = "crashed"]
        BY <1>8, <3>2 DEF restart
      <4> QED BY <3>1, <3>2, <4>1 DEF Request, Moves
    <3>3. CASE req[s].pc \notin InFlight
      BY <1>8, <3>3 DEF restart, Moves
    <3> QED BY <3>2, <3>3
  <2> QED BY <1>0, <2>1, <2>2
<1>9. CASE UNCHANGED vars
  BY <1>0, <1>9 DEF vars, Moves
<1> QED BY <1>1, <1>2, <1>3, <1>4, <1>5, <1>6, <1>7, <1>8, <1>9 DEF Next

\* The start of a request stays in the past, a fault is never forgotten, and
\* a publisher that lost its reservation stays or fails.
LEMMA FaultsStay ==
  ASSUME IInv, StartedInThePast, [Next]_vars
  PROVE  StartedInThePast' /\ (Faulty \/ Overrun => (Faulty \/ Overrun)')
<1>0. /\ clock \in Nat /\ inbox.version \in Nat
      /\ \A s \in Requests : req[s] \in Request /\ req[s].at \in Nat /\ req[s].version \in Nat
  BY IInvTyped DEF TypeOK, Request, InboxRecord, NoRecord
<1>1. /\ clock' >= clock /\ inbox'.version >= inbox.version
      /\ \A s \in Requests : Moves(s)
  BY EveryStepMoves
<1>2. clock' \in Nat /\ inbox'.version \in Nat
  BY NextInbox DEF InboxInv, InboxRecord, NoRecord
<1>3. StartedInThePast'
  BY <1>0, <1>1, <1>2 DEF StartedInThePast, Moves
<1>4. ASSUME Faulty PROVE Faulty'
  BY <1>1, <1>4 DEF Faulty, Moves, InFlight
<1>5. ASSUME Overrun PROVE (Faulty \/ Overrun)'
  <2>1. PICK r \in Requests : /\ Publisher(r)
                              /\ req[r].version < inbox.version
                              /\ clock - req[r].at >= Lease
    BY <1>5 DEF Overrun
  <2>2. CASE req'[r].pc \in {"unmark", "unavailable", "crashed"}
    BY <2>2 DEF Faulty
  <2>3. CASE req'[r].pc \notin {"unmark", "unavailable", "crashed"}
    <3>1. req[r].version # inbox.version
      BY <1>0, <2>1
    <3>2. /\ req'[r].pc \in {"publish", "mark"}
          /\ req'[r].at = req[r].at /\ req'[r].version = req[r].version
      BY <1>1, <2>1, <2>3, <3>1 DEF Moves, Publisher
    <3>3. req'[r].version < inbox'.version /\ clock' - req'[r].at >= Lease
      BY <1>0, <1>1, <1>2, <2>1, <3>2
    <3> QED BY <3>2, <3>3 DEF Overrun, Publisher
  <2> QED BY <2>2, <2>3
<1> QED BY <1>3, <1>4, <1>5

\* A step that neither writes nor publishes, and moves nobody in or out of the
\* place of a publisher.
LEMMA QuietKeepsSingle ==
  ASSUME SinglePublisher, UNCHANGED <<inbox, topic>>,
         \A s \in Requests :
           req'[s] = req[s] \/ (~Publisher(s) /\ ~Publisher(s)')
  PROVE  SinglePublisher'
<1>1. \A s \in Requests : Publisher(s)' => Publisher(s) /\ req'[s] = req[s]
  BY DEF Publisher
<1>2. \A s \in Requests : Publisher(s) => Publisher(s)'
  BY DEF Publisher
<1>3. (\E s \in Requests : req'[s].pc = "publish") => \E s \in Requests : req[s].pc = "publish"
  BY DEF Publisher
<1>4. \A r \in Requests :
        Publisher(r)' => /\ inbox'.status = "PUBLISHING"
                         /\ req'[r].version = inbox'.version
                         /\ req'[r].at <= inbox'.at
  BY <1>1 DEF SinglePublisher
<1>5. \A r, s \in Requests : Publisher(r)' /\ Publisher(s)' => r = s
  BY <1>1 DEF SinglePublisher
<1>6. inbox'.status = "PUBLISHING" => \E r \in Requests : Publisher(r)'
  BY <1>2 DEF SinglePublisher
<1>7. \A c \in Contents :
        /\ topic'[c] <= 1
        /\ inbox'.status \in {"NONE", "PENDING"} => topic'[c] = 0
        /\ (\E r \in Requests : req'[r].pc = "publish") => topic'[c] = 0
  BY <1>3 DEF SinglePublisher
<1>8. inbox'.status # "PUBLISH_FAILED"
  BY DEF SinglePublisher
<1> QED BY <1>4, <1>5, <1>6, <1>7, <1>8 DEF SinglePublisher

\* Without a fault there is one publisher; when a second one reserves, the
\* first has overrun its lease.
LEMMA SingleStays ==
  ASSUME IInv, StartedInThePast, SinglePublisher, [Next]_vars
  PROVE  (Faulty \/ Overrun \/ SinglePublisher)'
<1> SUFFICES ASSUME ~Faulty' PROVE (Overrun \/ SinglePublisher)'
  OBVIOUS
<1>0. TypeOK /\ clock \in Nat /\ inbox.version \in Nat /\ inbox.at \in Nat
      /\ inbox \in InboxRecord \cup {NoRecord}
      /\ \A s \in Requests : req[s].at \in Nat /\ req[s].version \in Nat
  BY IInvTyped DEF TypeOK, Request, InboxRecord, NoRecord
<1>f. \A s \in Requests : req'[s].pc \notin {"unmark", "unavailable", "crashed"}
  BY DEF Faulty
<1>m. \A s \in Requests : Moves(s)
  BY EveryStepMoves
<1>p. /\ {"reserve", "published", "conflict", "accepted", "mark", "unmark",
          "unavailable", "crashed"} \subseteq {"idle", "crashed"} \cup InFlight \cup Answered
      /\ {"accept", "reserve", "publish", "mark", "unmark"} = InFlight
  BY DEF InFlight, Answered
<1>1. ASSUME UNCHANGED <<inbox, topic>>,
             \A s \in Requests : ~(req[s].pc = "reserve" /\ req'[s].pc = "publish"),
             \A s \in Requests : ~(req[s].pc = "publish" /\ req'[s].pc = "mark"),
             \A s \in Requests : ~(req[s].pc = "mark" /\ req'[s].pc = "published")
      PROVE  SinglePublisher'
  <2>1. ASSUME NEW s \in Requests
        PROVE  req'[s] = req[s] \/ (~Publisher(s) /\ ~Publisher(s)')
    <3>1. Moves(s) /\ req'[s].pc \notin {"unmark", "unavailable", "crashed"}
      BY <1>m, <1>f
    <3> QED BY <1>1, <3>1 DEF Moves, Publisher
  <2> QED BY <1>1, <2>1, QuietKeepsSingle
<1>2. CASE tick \/ UNCHANGED vars
  <2>1. UNCHANGED <<inbox, topic, req>>
    BY <1>2 DEF tick, vars
  <2> QED BY <2>1, <1>1
<1>3. CASE restart
  <2>1. UNCHANGED <<inbox, topic>>
    BY <1>3 DEF restart
  <2>2. ASSUME NEW s \in Requests PROVE req'[s] = req[s]
    <3>1. req[s] \in Request /\ req'[s].pc # "crashed"
      BY <1>0, <1>f DEF TypeOK
    <3>2. req'[s] = IF req[s].pc \in InFlight
                      THEN [req[s] EXCEPT !.pc = "crashed"] ELSE req[s]
      BY <1>3 DEF restart
    <3> QED BY <3>1, <3>2 DEF Request
  <2> QED BY <2>1, <2>2, <1>1
<1>4. ASSUME NEW r \in Requests, NEW content \in Contents, ingest_change(r, content)
      PROVE  SinglePublisher'
  <2>1. UNCHANGED <<inbox, topic>> /\ req[r].pc = "idle"
    BY <1>4 DEF ingest_change
  <2>2. PICK q : req' = [req EXCEPT ![r] = q]
    BY <1>4 DEF ingest_change
  <2>3. \A s \in Requests \ {r} : req'[s] = req[s]
    BY <1>0, <2>2 DEF TypeOK
  <2> QED BY <1>1, <2>1, <2>3
<1>5. ASSUME NEW r \in Requests, accept(r)
      PROVE  SinglePublisher'
  <2>1. UNCHANGED topic /\ req[r].pc = "accept"
    BY <1>5 DEF accept
  <2>2. PICK pc \in {"reserve", "published", "conflict"} : Goto(r, pc)
    BY <1>5 DEF accept
  <2>3. req'[r].pc = pc /\ \A s \in Requests \ {r} : req'[s] = req[s]
    BY <1>0, <1>p, <2>2, Moved
  <2>4. CASE UNCHANGED inbox
    BY <1>1, <2>1, <2>3, <2>4
  <2>5. CASE inbox = NoRecord
             /\ \E at \in Stamps(req[r].at) : Write("PENDING", req[r].content, at)
    <3>1. inbox'.status = "PENDING" /\ inbox.status = "NONE"
      BY <2>5 DEF Write, NoRecord
    <3>2. \A s \in Requests : ~Publisher(s)
      BY <3>1 DEF SinglePublisher
    <3>3. \A s \in Requests : ~Publisher(s)'
      BY <2>3, <3>2 DEF Publisher
    <3>4. \A c \in Contents : topic'[c] = 0
      BY <2>1, <3>1 DEF SinglePublisher
    <3> QED BY <3>1, <3>3, <3>4 DEF SinglePublisher
  <2> QED BY <1>5, <2>4, <2>5 DEF accept
<1>6. ASSUME NEW r \in Requests, reserve_publish(r)
      PROVE  (Overrun \/ SinglePublisher)'
  <2>1. UNCHANGED <<clock, topic>> /\ req[r].pc = "reserve"
    BY <1>6 DEF reserve_publish
  <2>2. CASE Goto(r, "accepted") /\ UNCHANGED inbox
    <3>1. req'[r].pc = "accepted" /\ \A s \in Requests \ {r} : req'[s] = req[s]
      BY <1>0, <1>p, <2>2, Moved
    <3> QED BY <1>1, <2>1, <2>2, <3>1
  <2>3. ASSUME ~Reserved(req[r].at),
               NEW at \in Stamps(req[r].at), Write("PUBLISHING", inbox.content, at),
               req' = [req EXCEPT ![r] =
                         [pc |-> "publish", content |-> req[r].content,
                          at |-> req[r].at, version |-> inbox.version + 1]]
        PROVE  (Overrun \/ SinglePublisher)'
    <3>1. /\ req'[r].pc = "publish" /\ req'[r].at = req[r].at
          /\ req'[r].version = inbox.version + 1
          /\ \A s \in Requests \ {r} : req'[s] = req[s]
      BY <1>0, <2>3 DEF TypeOK
    <3>2. inbox'.status = "PUBLISHING" /\ inbox'.version = inbox.version + 1 /\ inbox'.at = at
      BY <2>3 DEF Write
    <3>3. req[r].at <= at
      BY <1>0 DEF Stamps, StartedInThePast
    <3>4. CASE inbox.status = "PUBLISHING"
      <4>1. PICK o \in Requests : Publisher(o)
        BY <3>4 DEF SinglePublisher
      <4>2. o # r /\ req'[o] = req[o]
        BY <2>1, <3>1, <4>1 DEF Publisher
      <4>3. req[o].version = inbox.version /\ req[o].at <= inbox.at
        BY <4>1 DEF SinglePublisher
      <4>4. ~(inbox.at > req[r].at - Lease) /\ req[r].at <= clock
        BY <2>3, <3>4 DEF Reserved, StartedInThePast
      <4>5. clock' - req'[o].at >= Lease /\ req'[o].version < inbox'.version
        BY <1>0, <2>1, <3>2, <4>2, <4>3, <4>4
      <4> QED BY <4>1, <4>2, <4>5 DEF Overrun, Publisher
    <3>5. CASE inbox.status # "PUBLISHING"
      <4>1. \A s \in Requests : ~Publisher(s)
        BY <3>5 DEF SinglePublisher
      <4>2. \A s \in Requests : Publisher(s)' <=> s = r
        BY <3>1, <4>1 DEF Publisher
      <4>3. inbox.status \in {"NONE", "PENDING"}
        BY <1>0, <2>3, <3>5 DEF Reserved, InboxRecord, NoRecord, SinglePublisher
      <4>4. \A c \in Contents : topic'[c] = 0
        BY <2>1, <4>3 DEF SinglePublisher
      <4> QED BY <3>1, <3>2, <3>3, <4>2, <4>4 DEF SinglePublisher
    <3> QED BY <3>4, <3>5
  <2> QED BY <1>6, <2>2, <2>3 DEF reserve_publish
<1>7. ASSUME NEW r \in Requests, publish(r)
      PROVE  SinglePublisher'
  <2>1. UNCHANGED inbox /\ req[r].pc = "publish"
    BY <1>7 DEF publish
  <2>2. ~Goto(r, "unmark")
    <3>1. Goto(r, "unmark") => req'[r].pc = "unmark"
      BY <1>0, <1>p, Moved
    <3> QED BY <3>1, <1>f
  <2>3. topic' = [topic EXCEPT ![req[r].content] = @ + 1] /\ Goto(r, "mark")
    BY <1>7, <2>2 DEF publish
  <2>4. /\ req'[r].pc = "mark" /\ req'[r].at = req[r].at /\ req'[r].version = req[r].version
        /\ \A s \in Requests \ {r} : req'[s] = req[s]
    BY <1>0, <1>p, <2>3, Moved
  <2>5. /\ \A s \in Requests : Publisher(s) <=> s = r
        /\ inbox.status = "PUBLISHING"
    BY <2>1 DEF SinglePublisher, Publisher
  <2>6. \A s \in Requests : Publisher(s)' <=> s = r
    BY <2>4, <2>5 DEF Publisher
  <2>7. \A c \in Contents : topic[c] = 0
    BY <2>1 DEF SinglePublisher
  <2>8. \A c \in Contents : topic'[c] <= 1
    BY <1>0, <2>3, <2>7 DEF TypeOK
  <2>9. \A s \in Requests : req'[s].pc # "publish"
    BY <2>4, <2>5 DEF Publisher
  <2> QED BY <2>1, <2>4, <2>5, <2>6, <2>8, <2>9 DEF SinglePublisher
<1>8. ASSUME NEW r \in Requests, mark_published(r)
      PROVE  SinglePublisher'
  <2>1. UNCHANGED topic /\ req[r].pc = "mark"
    BY <1>8 DEF mark_published, finish_publish
  <2>2. ~Goto(r, "unavailable")
    <3>1. Goto(r, "unavailable") => req'[r].pc = "unavailable"
      BY <1>0, <1>p, Moved
    <3> QED BY <3>1, <1>f
  <2>3. Write("PUBLISHED", inbox.content, clock) /\ Goto(r, "published")
    BY <1>8, <2>2 DEF mark_published, finish_publish
  <2>4. req'[r].pc = "published" /\ \A s \in Requests \ {r} : req'[s] = req[s]
    BY <1>0, <1>p, <2>3, Moved
  <2>5. \A s \in Requests : Publisher(s) <=> s = r
    BY <2>1 DEF SinglePublisher, Publisher
  <2>6. \A s \in Requests : ~Publisher(s)'
    BY <2>4, <2>5 DEF Publisher
  <2>7. inbox'.status = "PUBLISHED"
    BY <2>3 DEF Write
  <2>8. \A s \in Requests : req'[s].pc # "publish"
    BY <2>6 DEF Publisher
  <2> QED BY <2>1, <2>6, <2>7, <2>8 DEF SinglePublisher
<1>9. ASSUME NEW r \in Requests, mark_publish_failed(r) \/ store_failure(r)
      PROVE  FALSE
  <2>1. Goto(r, "unavailable")
    BY <1>9 DEF mark_publish_failed, finish_publish, store_failure
  <2>2. req'[r].pc = "unavailable"
    BY <1>0, <1>p, <2>1, Moved
  <2> QED BY <2>2, <1>f
<1> QED BY <1>2, <1>3, <1>4, <1>5, <1>6, <1>7, <1>8, <1>9 DEF Next

-----------------------------------------------------------------------------
\* The inductive invariant holds in every reachable state.
THEOREM IInvInvariant == Spec => []IInv
<1>1. IInv /\ [Next]_vars => IInv'
  BY NextLimiter, NextInbox DEF IInv
<1> QED BY <1>1, InitIInv, PTL DEF Spec

\* Records, requests and admissions keep their types.
THEOREM TypeCorrect == Spec => []TypeOK
  BY IInvInvariant, IInvTyped, PTL

\* Whatever fails, dies or is repeated, a record or an answer that says
\* PUBLISHED stands for a message on the topic.
THEOREM PublishedIsOnTopic == Spec => []PublishedMeansOnTopic
<1>1. IInv => PublishedMeansOnTopic
  BY DEF IInv, InboxInv
<1> QED BY <1>1, IInvInvariant, PTL

\* Only the content that was accepted first is published under an event
\* identity.
THEOREM OneContentPublished == Spec => []OneContent
<1>1. IInv => OneContent
  BY DEF IInv, InboxInv
<1> QED BY <1>1, IInvInvariant, PTL

\* The sliding window never admits more than the limit in one window.
THEOREM RateLimitHolds == Spec => []RateIsLimited
<1>1. IInv => RateIsLimited
  BY DEF IInv, LimiterInv
<1> QED BY <1>1, IInvInvariant, PTL

\* The fencing version makes PUBLISHED final and no write changes the content.
THEOREM PublishedStays == Spec => PublishedIsFinal
<1> DEFINE Step == [/\ inbox # NoRecord => inbox'.content = inbox.content
                    /\ inbox.status # "PUBLISHED"]_inbox
<1>1. ASSUME IInv, [Next]_vars
      PROVE  Step
  <2>1. ASSUME NEW r \in Requests, accept(r)
        PROVE  Step
    BY <2>1 DEF accept, NoRecord
  <2>2. ASSUME NEW r \in Requests, reserve_publish(r)
        PROVE  Step
    <3>1. CASE UNCHANGED inbox
      BY <3>1
    <3>2. CASE ~Reserved(req[r].at)
               /\ \E at \in Stamps(req[r].at) : Write("PUBLISHING", inbox.content, at)
      BY <3>2 DEF Reserved, Write
    <3> QED BY <2>2, <3>1, <3>2 DEF reserve_publish
  <2>3. ASSUME NEW r \in Requests, NEW status, NEW answer, finish_publish(r, status, answer)
        PROVE  Step
    BY <2>3 DEF finish_publish, ReservationIsMine, Write
  <2>4. ASSUME NEW r \in Requests, mark_published(r) \/ mark_publish_failed(r)
        PROVE  Step
    BY <2>3, <2>4 DEF mark_published, mark_publish_failed
  <2>5. ASSUME \/ tick \/ restart \/ UNCHANGED vars
               \/ \E r \in Requests :
                    \/ \E content \in Contents : ingest_change(r, content)
                    \/ publish(r) \/ store_failure(r)
        PROVE  Step
    BY <2>5 DEF tick, restart, vars, ingest_change, publish, store_failure
  <2> QED BY <1>1, <2>1, <2>2, <2>4, <2>5 DEF Next
<1> QED BY <1>1, IInvInvariant, PTL DEF Spec, PublishedIsFinal

\* Without a failed, dead or slow publisher an event is published once, however
\* many requests repeat it: whoever finds a reservation within its lease leaves
\* the event alone, and a lease that is over means a publisher that overran it.
THEOREM DuplicatesNeedFault == Spec => []DuplicateOnlyAfterFault
<1>1. Init => PublisherInv
  BY DEF Init, PublisherInv, StartedInThePast, SinglePublisher, Publisher, NoRecord,
         IdleRequest
<1>2. IInv /\ PublisherInv /\ [Next]_vars => PublisherInv'
  BY FaultsStay, SingleStays DEF PublisherInv
<1>3. IInv /\ PublisherInv => DuplicateOnlyAfterFault
  <2> SUFFICES ASSUME IInv, PublisherInv, \E c \in Contents : topic[c] > 1
               PROVE  Faulty \/ Overrun
    BY DEF DuplicateOnlyAfterFault, Faulty, Overrun, Publisher
  <2>1. topic \in [Contents -> Nat]
    BY DEF IInv, InboxInv
  <2>2. ~SinglePublisher
    BY <2>1 DEF SinglePublisher
  <2> QED BY <2>2 DEF PublisherInv
<1> QED BY <1>1, <1>2, <1>3, IInvInvariant, PTL DEF Spec
=============================================================================

---------------------------- MODULE EventGateway ----------------------------
(***************************************************************************)
(* The event gateway: POST /v1/events/change for one event identity (one   *)
(* event_key), from the tenant's rate limit over the inbox record to the   *)
(* Pub/Sub topic.                                                          *)
(*                                                                         *)
(* Senders repeat their requests, so requests for the same event run at    *)
(* once; each inbox access and the publish are steps of their own, and the *)
(* process may be restarted between any two of them.  The inbox survives a *)
(* restart, the rate limiter does not.                                     *)
(***************************************************************************)
EXTENDS Integers, Sequences

CONSTANTS
  Requests,   \* webhook requests
  Contents,   \* event bodies that share the event identity
  NoContent,  \* the content of an inbox record that does not exist
  Lease,      \* a PUBLISHING record is left alone for so long (30 s)
  Window,     \* length of the rate limiter's window (1 min)
  Limit,      \* event_rate_limit_per_minute
  MaxTime     \* bound on the clock

ASSUME NoContentAssumption == NoContent \notin Contents
ASSUME LeaseAssumption == Lease \in Nat \ {0}
ASSUME WindowAssumption == Window \in Nat \ {0}
ASSUME LimitAssumption == Limit \in Nat \ {0}
ASSUME MaxTimeAssumption == MaxTime \in Nat

VARIABLES
  clock,      \* now()
  inbox,      \* the EventInboxRecord
  topic,      \* messages on the topic, by content
  window,     \* TenantEventRateLimiter._events of the tenant
  served,     \* history: all admissions of this process
  req         \* the requests

vars == <<clock, inbox, topic, window, served, req>>

NoRecord == [status |-> "NONE", content |-> NoContent, at |-> 0, version |-> 0]

\* A request: its event, the timestamp taken at its start, and the version of
\* its publish reservation.
IdleRequest == [pc |-> "idle", content |-> NoContent, at |-> 0, version |-> 0]

\* "accepted" is the 202 answer of a request that left the publishing to
\* another one, "published" that of a published event.
InFlight == {"accept", "reserve", "publish", "mark", "unmark"}
Answered == {"accepted", "published", "limited", "conflict", "unavailable"}

Init ==
  /\ clock = 0
  /\ inbox = NoRecord
  /\ topic = [c \in Contents |-> 0]
  /\ window = <<>>
  /\ served = <<>>
  /\ req = [r \in Requests |-> IdleRequest]

tick ==
  /\ clock < MaxTime
  /\ clock' = clock + 1
  /\ UNCHANGED <<inbox, topic, window, served, req>>

Goto(r, pc) == req' = [req EXCEPT ![r] = [@ EXCEPT !.pc = pc]]

-----------------------------------------------------------------------------
(* TenantEventRateLimiter.                                                 *)

\* The first `popped` admissions, and no more, are a window or longer ago.
Expired(popped) ==
  /\ \A i \in 1..popped : window[i] <= clock - Window
  /\ popped < Len(window) => window[popped + 1] > clock - Window

\* Mutant: the limit itself is let through.
Admitted_over(popped) == Len(window) - popped <= Limit

Admitted(popped) == Len(window) - popped < Limit

Recent(popped) == SubSeq(window, popped + 1, Len(window))

\* The route up to the inbox: a request that fails its size, signature or
\* schema check changes nothing and is left out.  There is no await between
\* taking the timestamp and the limiter.
ingest_change(r, content) ==
  /\ req[r].pc = "idle"
  /\ \E popped \in 0..Len(window) :
       /\ Expired(popped)
       /\ \/ /\ Admitted(popped)
             /\ window' = Append(Recent(popped), clock)
             /\ served' = Append(served, clock)
             /\ req' = [req EXCEPT ![r] = [pc |-> "accept", content |-> content,
                                           at |-> clock, version |-> 0]]
          \/ /\ ~Admitted(popped)
             /\ window' = Recent(popped)
             /\ req' = [req EXCEPT ![r] = [pc |-> "limited", content |-> content,
                                           at |-> clock, version |-> 0]]
             /\ UNCHANGED served
  /\ UNCHANGED <<clock, inbox, topic>>

-----------------------------------------------------------------------------
(* The inbox.                                                              *)

\* The updated_at of a write: the memory adapter stores the time it is given,
\* Firestore the time of the commit.
Stamps(t) == {t, clock}

\* Mutant: the version is not counted up.
Write_uncounted(status, content, at) ==
  inbox' = [status |-> status, content |-> content, at |-> at,
            version |-> inbox.version]

Write(status, content, at) ==
  inbox' = [status |-> status, content |-> content, at |-> at,
            version |-> inbox.version + 1]

\* Mutant: the input hash is not compared.
SameContent_any(r) == inbox # NoRecord

SameContent(r) == inbox.content = req[r].content

accept(r) ==
  /\ req[r].pc = "accept"
  /\ \/ /\ inbox = NoRecord
        /\ \E at \in Stamps(req[r].at) : Write("PENDING", req[r].content, at)
        /\ Goto(r, "reserve")
     \/ /\ inbox # NoRecord /\ SameContent(r)
        /\ Goto(r, IF inbox.status = "PUBLISHED" THEN "published" ELSE "reserve")
        /\ UNCHANGED inbox
     \/ /\ inbox # NoRecord /\ ~SameContent(r)
        /\ Goto(r, "conflict")
        /\ UNCHANGED inbox
  /\ UNCHANGED <<clock, topic, window, served>>

\* Mutant: a publisher at work is not waited for.
Reserved_never(t) == inbox.status = "PUBLISHED"

\* Somebody else has published, or is publishing and not given up on yet.
Reserved(t) ==
  \/ inbox.status = "PUBLISHED"
  \/ inbox.status = "PUBLISHING" /\ inbox.at > t - Lease

\* The timestamp is the one of the request's start.
reserve_publish(r) ==
  /\ req[r].pc = "reserve"
  /\ \/ /\ Reserved(req[r].at)
        /\ Goto(r, "accepted")
        /\ UNCHANGED inbox
     \/ /\ ~Reserved(req[r].at)
        /\ \E at \in Stamps(req[r].at) : Write("PUBLISHING", inbox.content, at)
        /\ req' = [req EXCEPT ![r] = [pc |-> "publish", content |-> req[r].content,
                                      at |-> req[r].at, version |-> inbox.version + 1]]
  /\ UNCHANGED <<clock, topic, window, served>>

\* Mutant: an exception of the publisher counts as a message id.
publish_unchecked(r) ==
  /\ req[r].pc = "publish"
  /\ topic' \in {topic, [topic EXCEPT ![req[r].content] = @ + 1]}
  /\ Goto(r, "mark")
  /\ UNCHANGED <<clock, inbox, window, served>>

\* The publisher's future fails or times out with or without the message
\* having reached the topic.  (One that arrives even later counts as arrived at
\* the timeout: nothing here reads the topic.)
publish(r) ==
  /\ req[r].pc = "publish"
  /\ \/ /\ topic' = [topic EXCEPT ![req[r].content] = @ + 1]
        /\ Goto(r, "mark") \/ Goto(r, "unmark")
     \/ /\ Goto(r, "unmark")
        /\ UNCHANGED topic
  /\ UNCHANGED <<clock, inbox, window, served>>

\* Mutant: the outcome is stored whoever holds the reservation by now.
ReservationIsMine_any(r) == TRUE

ReservationIsMine(r) ==
  inbox.version = req[r].version /\ inbox.status = "PUBLISHING"

\* _finish_publish; a stale reservation is an error, also of a publish that
\* went through, and the store's answer may be lost.
finish_publish(r, status, answer) ==
  /\ \/ /\ ReservationIsMine(r)
        /\ Write(status, inbox.content, clock)
        /\ Goto(r, answer) \/ Goto(r, "unavailable")
     \/ /\ ~ReservationIsMine(r)
        /\ Goto(r, "unavailable")
        /\ UNCHANGED inbox
  /\ UNCHANGED <<clock, topic, window, served>>

mark_published(r) ==
  req[r].pc = "mark" /\ finish_publish(r, "PUBLISHED", "published")

mark_publish_failed(r) ==
  req[r].pc = "unmark" /\ finish_publish(r, "PUBLISH_FAILED", "unavailable")

\* The store fails, or the answer of the previous access to it is lost: the
\* sender is told to try again.
store_failure(r) ==
  /\ req[r].pc \in InFlight
  /\ Goto(r, "unavailable")
  /\ UNCHANGED <<clock, inbox, topic, window, served>>

\* The process is restarted: its requests die, its rate limiter forgets.
restart ==
  /\ req' = [r \in Requests |-> IF req[r].pc \in InFlight
                                  THEN [req[r] EXCEPT !.pc = "crashed"] ELSE req[r]]
  /\ window' = <<>>
  /\ served' = <<>>
  /\ UNCHANGED <<clock, inbox, topic>>

Next ==
  \/ tick
  \/ \E r \in Requests :
       \/ \E content \in Contents : ingest_change(r, content)
       \/ accept(r) \/ reserve_publish(r) \/ publish(r)
       \/ mark_published(r) \/ mark_publish_failed(r) \/ store_failure(r)
  \/ restart

Spec == Init /\ [][Next]_vars

-----------------------------------------------------------------------------
(* Properties.                                                             *)

\* PROCESSING, PROCESSED and DEAD_LETTERED are declared and never assigned.
InboxRecord ==
  [status : {"PENDING", "PUBLISHING", "PUBLISHED", "PUBLISH_FAILED"},
   content : Contents, at : Nat, version : Nat \ {0}]

Request ==
  [pc : {"idle", "crashed"} \cup InFlight \cup Answered,
   content : Contents \cup {NoContent}, at : Nat, version : Nat]

\* Every document has the shape of its model class.
TypeOK ==
  /\ clock \in Nat
  /\ inbox \in InboxRecord \cup {NoRecord}
  /\ topic \in [Contents -> Nat]
  /\ window \in Seq(Nat) /\ served \in Seq(Nat)
  /\ req \in [Requests -> Request]

\* A record that says PUBLISHED, and a sender who was told so, can rely on a
\* message on the topic, however many senders, failures and restarts there are.
PublishedMeansOnTopic ==
  /\ inbox.status = "PUBLISHED" => topic[inbox.content] > 0
  /\ \A r \in Requests : req[r].pc = "published" => topic[req[r].content] > 0

\* One event identity is one content: nothing but the content the inbox
\* accepted first is ever published under it.
OneContent == \A c \in Contents : topic[c] > 0 => inbox.content = c

\* The inbox record keeps its content, and PUBLISHED is final: the outcome of
\* a publisher that was given up on does not overwrite it.
PublishedIsFinal ==
  [][/\ inbox # NoRecord => inbox'.content = inbox.content
     /\ inbox.status # "PUBLISHED"]_inbox

\* An event is published twice only if a publisher failed, died or overran
\* its lease: repeating a request by itself never does it.
DuplicateOnlyAfterFault ==
  (\E c \in Contents : topic[c] > 1) =>
    \E r \in Requests :
      \/ req[r].pc \in {"unmark", "unavailable", "crashed"}
      \/ req[r].pc \in {"publish", "mark"} /\ clock - req[r].at >= Lease

\* Within one life of the process, no window of a minute has more admissions
\* than the limit.
RateIsLimited ==
  \A i \in 1..Len(served) :
    i + Limit <= Len(served) => served[i + Limit] - served[i] >= Window
=============================================================================

----------------------------- MODULE AuditStream -----------------------------
(***************************************************************************)
(* The resumable audit stream of one change: writers commit audit events,  *)
(* the Control API polls them by cursor and sends them as Server-Sent      *)
(* Events, through the Control Tower's proxy, to one EventSource, which    *)
(* reconnects with the id of the last event it got, unless an attempt is   *)
(* refused or the page has no more use for it.                             *)
(*                                                                         *)
(* Events are ordered by created_at and then by their random identifier.   *)
(* Firestore stamps an event when it commits; the memory adapter keeps the *)
(* stamp its writer took before.  Several events may share a stamp.        *)
(***************************************************************************)
EXTENDS Integers, Sequences, FiniteSets, SequencesExt

CONSTANTS
  Events,      \* audit event identifiers, numbers for their order
  MaxTime,     \* bound: the clock
  MaxDrops,    \* bound: lost connections
  Limit        \* events per poll (100)

ASSUME EventsAssumption == Events \subseteq Nat \ {0} /\ IsFiniteSet(Events)
ASSUME BoundsAssumption == MaxTime \in Nat /\ MaxDrops \in Nat /\ Limit \in Nat \ {0}

VARIABLES
  server_time,   \* created_at is SERVER_TIMESTAMP
  clock,
  created_at,    \* the stamp of each event, NoStamp before it has one
  committed,     \* events in the store
  terminal,      \* the workflow's status is one of TERMINAL_STATES
  connected,     \* a stream is open
  ended,         \* why the EventSource has ended for good, if it has
  cursor,        \* the stream's cursor
  pending,       \* events listed and not yet sent
  wire,          \* events sent and not yet received
  received,      \* events the client has got, in order
  drops,         \* lost connections so far
  overtaken      \* history: committed after a later event had been listed

vars == <<server_time, clock, created_at, committed, terminal, connected, ended,
          cursor, pending, wire, received, drops, overtaken>>
streamVars == <<connected, ended, cursor, pending, wire, received, drops>>
storeVars == <<server_time, clock, created_at, committed, overtaken, terminal>>

NoStamp == -1
NoCursor == 0

Init ==
  /\ server_time \in BOOLEAN
  /\ clock = 0
  /\ created_at = [e \in Events |-> NoStamp]
  /\ committed = {}
  /\ terminal = FALSE
  /\ connected = FALSE
  /\ ended = "NO"
  /\ cursor = NoCursor
  /\ pending = <<>>
  /\ wire = <<>>
  /\ received = <<>>
  /\ drops = 0
  /\ overtaken = {}

-----------------------------------------------------------------------------
(* The store.                                                              *)

Before(d, e) ==
  \/ created_at[d] < created_at[e]
  \/ created_at[d] = created_at[e] /\ d < e

PageLength(events) ==
  IF Cardinality(events) < Limit THEN Cardinality(events) ELSE Limit

\* Mutant: a page is the newest events, not the next ones.
Page_newest(events) ==
  CHOOSE page \in [1..PageLength(events) -> events] :
    /\ \A i, j \in DOMAIN page : i < j => Before(page[i], page[j])
    /\ \A i \in DOMAIN page, e \in events \ ToSet(page) : Before(e, page[i])

\* The first events, in order.
Page(events) ==
  CHOOSE page \in [1..PageLength(events) -> events] :
    /\ \A i, j \in DOMAIN page : i < j => Before(page[i], page[j])
    /\ \A i \in DOMAIN page, e \in events \ ToSet(page) : Before(page[i], e)

\* Mutant: the page starts with the cursor's own event.
After_or_at(e, after) == after = NoCursor \/ ~Before(e, after)

After(e, after) == after = NoCursor \/ Before(after, e)

list_audit_after(after) == Page({e \in committed : After(e, after)})

tick ==
  /\ clock < MaxTime
  /\ clock' = clock + 1
  /\ UNCHANGED <<server_time, created_at, committed, overtaken, terminal, streamVars>>

\* AuditEvent(created_at=now): the writer's stamp.
create_event(e) ==
  /\ created_at[e] = NoStamp
  /\ created_at' = [created_at EXCEPT ![e] = clock]
  /\ UNCHANGED <<server_time, clock, committed, overtaken, terminal, streamVars>>

Listed == ToSet(pending) \cup ToSet(wire) \cup ToSet(received)

record_audit(e) ==
  /\ created_at[e] # NoStamp
  /\ e \notin committed
  /\ created_at' = IF server_time THEN [created_at EXCEPT ![e] = clock] ELSE created_at
  /\ committed' = committed \cup {e}
  /\ overtaken' = IF \E d \in Listed : \/ created_at'[e] < created_at[d]
                                       \/ created_at'[e] = created_at[d] /\ e < d
                    THEN overtaken \cup {e} ELSE overtaken
  /\ UNCHANGED <<server_time, clock, terminal, streamVars>>

\* The coordinator stores a terminal status, which stays.
end_workflow ==
  /\ ~terminal
  /\ terminal' = TRUE
  /\ UNCHANGED <<server_time, clock, created_at, committed, overtaken, streamVars>>

-----------------------------------------------------------------------------
(* The stream.                                                             *)

\* The client's Last-Event-ID.
LastEventId == IF received = <<>> THEN NoCursor ELSE Last(received)

\* EventSource connects, and reconnects, through the Control Tower's route.
stream_change ==
  /\ ~connected
  /\ ended = "NO"
  /\ connected' = TRUE
  /\ cursor' = LastEventId
  /\ pending' = list_audit_after(LastEventId)
  /\ UNCHANGED <<ended, wire, received, drops, storeVars>>

\* The route answers 503 when it does not reach the Control API, or with the
\* Control API's error status.  An EventSource does not try again after an
\* answer that is no event stream, and the page does not make a new one.
refuse ==
  /\ ~connected
  /\ ended = "NO"
  /\ ended' = "REFUSED"
  /\ UNCHANGED <<connected, cursor, pending, wire, received, drops, storeVars>>

\* A refresh of the page finds the workflow terminal: active is false, and
\* the effect's cleanup closes the EventSource.
close ==
  /\ terminal
  /\ ended # "CLOSED"
  /\ ended' = "CLOSED"
  /\ connected' = FALSE
  /\ cursor' = NoCursor
  /\ pending' = <<>>
  /\ wire' = <<>>
  /\ UNCHANGED <<received, drops, storeVars>>

send ==
  /\ connected
  /\ pending # <<>>
  /\ wire' = Append(wire, Head(pending))
  /\ cursor' = Head(pending)
  /\ pending' = Tail(pending)
  /\ UNCHANGED <<connected, ended, received, drops, storeVars>>

\* Mutant: the stream is not followed past its first page.
poll_never == FALSE /\ UNCHANGED vars

poll ==
  /\ connected
  /\ pending = <<>>
  /\ pending' = list_audit_after(cursor)
  /\ UNCHANGED <<connected, ended, cursor, wire, received, drops, storeVars>>

receive ==
  /\ wire # <<>>
  /\ received' = Append(received, Head(wire))
  /\ wire' = Tail(wire)
  /\ UNCHANGED <<connected, ended, cursor, pending, drops, storeVars>>

\* The connection breaks, or the Control API restarts: what is on the way is
\* lost, and so is the server's cursor.
disconnect ==
  /\ connected
  /\ drops < MaxDrops
  /\ drops' = drops + 1
  /\ connected' = FALSE
  /\ cursor' = NoCursor
  /\ pending' = <<>>
  /\ wire' = <<>>
  /\ UNCHANGED <<ended, received, storeVars>>

-----------------------------------------------------------------------------
Stream == stream_change \/ send \/ poll \/ receive

Next ==
  \/ tick
  \/ \E e \in Events : create_event(e) \/ record_audit(e)
  \/ end_workflow
  \/ Stream
  \/ refuse
  \/ close
  \/ disconnect

Spec == Init /\ [][Next]_vars

\* The stream polls every 0.75 s and sends what it has, the network delivers
\* while the connection lasts, and the browser tries to reconnect until it has
\* an answer, of either kind.
FairSpec ==
  /\ Spec
  /\ WF_vars(stream_change \/ refuse) /\ WF_vars(send) /\ WF_vars(poll) /\ WF_vars(receive)

-----------------------------------------------------------------------------
\* However often the connection is lost and resumed, the client gets events
\* in their order and none of them twice.
InOrderOnce ==
  \A i, j \in DOMAIN received : i < j => Before(received[i], received[j])

\* A committed event that the client has gone past was committed after a later
\* one had been listed; where the store stamps the events, the two have the
\* same stamp.
SkippedWasOvertaken ==
  \A e \in committed \ ToSet(received) :
    (received # <<>> /\ Before(e, Last(received))) =>
      /\ e \in overtaken
      /\ server_time => \E d \in Events : d # e /\ created_at[d] = created_at[e]

\* Every event that was not overtaken reaches the client in the end, through
\* lost connections and page boundaries, unless an attempt to reconnect was
\* refused or the page closed the stream of a terminal workflow.
EventuallyReceived ==
  \A e \in Events :
    (e \in committed /\ e \notin overtaken) ~> (e \in ToSet(received) \/ ended # "NO")
=============================================================================

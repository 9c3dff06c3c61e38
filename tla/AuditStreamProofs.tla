------------------------- MODULE AuditStreamProofs -------------------------
(***************************************************************************)
(* Proofs about AuditStream for any finite set of events, any page size    *)
(* and any number of lost connections.                                     *)
(***************************************************************************)
EXTENDS AuditStream, FiniteSetTheorems, SequenceTheorems, TLAPS

USE EventsAssumption, BoundsAssumption

-----------------------------------------------------------------------------
(* The order of events under stamps c.                                     *)

Earlier(c, d, e) == c[d] < c[e] \/ (c[d] = c[e] /\ d < e)

Ascending(c, s) == \A i, j \in DOMAIN s : i < j => Earlier(c, s[i], s[j])

AllEarlier(c, S, T) == \A x \in S, y \in T : Earlier(c, x, y)

\* It is a strict total order.
LEMMA EarlierIsOrder ==
  ASSUME NEW c \in [Events -> Int]
  PROVE  /\ \A d, e \in Events : Earlier(c, d, e) => d # e /\ ~Earlier(c, e, d)
         /\ \A d, e \in Events : d = e \/ Earlier(c, d, e) \/ Earlier(c, e, d)
         /\ \A d, e, f \in Events :
              Earlier(c, d, e) /\ Earlier(c, e, f) => Earlier(c, d, f)
<1>1. \A e \in Events : c[e] \in Int /\ e \in Int
  OBVIOUS
<1>2. \A d, e \in Events : Earlier(c, d, e) => d # e /\ ~Earlier(c, e, d)
  BY <1>1 DEF Earlier
<1>3. \A d, e \in Events : d = e \/ Earlier(c, d, e) \/ Earlier(c, e, d)
  BY <1>1 DEF Earlier
<1>4. \A d, e, f \in Events : Earlier(c, d, e) /\ Earlier(c, e, f) => Earlier(c, d, f)
  BY <1>1 DEF Earlier
<1> QED
  BY <1>2, <1>3, <1>4

\* A set of naturals that is not empty has a least element.
LEMMA LeastNumber ==
  ASSUME NEW T, T \subseteq Nat, T # {}
  PROVE  \E x \in T : \A y \in T : x <= y
<1> DEFINE R == OpToRel(<, Nat)
<1>1. IsWellFoundedOn(R, Nat)
  BY NatLessThanWellFounded
<1>2. \A x, y \in Nat : x < y => <<x, y>> \in R
  BY DEF OpToRel
<1> HIDE DEF R
<1>3. PICK x \in T : \A y \in T : ~(<<y, x>> \in R)
  BY <1>1, WFMin
<1>4. \A y \in T : y \in Nat /\ x \in Nat /\ ~(y < x)
  BY <1>2, <1>3
<1> QED
  BY <1>4

\* Some event of a set is the first.
LEMMA First ==
  ASSUME NEW c \in [Events -> Int], NEW S, S \subseteq Events, S # {},
         \A e \in S : c[e] \in Nat
  PROVE  \E x \in S : \A e \in S : e = x \/ Earlier(c, x, e)
<1>1. PICK t \in {c[e] : e \in S} : \A u \in {c[e] : e \in S} : t <= u
  <2>1. {c[e] : e \in S} \subseteq Nat /\ {c[e] : e \in S} # {}
    OBVIOUS
  <2> QED
    BY <2>1, LeastNumber
<1> DEFINE T == {e \in S : c[e] = t}
<1>2. T \subseteq Nat /\ T # {}
  BY <1>1
<1>3. PICK x \in T : \A y \in T : x <= y
  BY <1>2, LeastNumber
<1>4. ASSUME NEW e \in S PROVE e = x \/ Earlier(c, x, e)
  <2>1. t <= c[e] /\ c[x] = t /\ t \in Nat /\ c[e] \in Nat /\ e \in Nat /\ x \in Nat
    BY <1>1, <1>3
  <2>2. c[e] = t => x <= e
    BY <1>3
  <2> QED
    BY <2>1, <2>2 DEF Earlier
<1> QED
  BY <1>3, <1>4

-----------------------------------------------------------------------------
(* The page query.                                                         *)

\* The first n events of S, in order.
IsPage(c, S, n, page) ==
  /\ page \in [1..n -> S]
  /\ \A i, j \in 1..n : i < j => Earlier(c, page[i], page[j])
  /\ \A e \in S : (\A i \in 1..n : page[i] # e) => \A i \in 1..n : Earlier(c, page[i], e)

\* A page with room for a further event can take the first of the rest.
LEMMA PageGrows ==
  ASSUME NEW c \in [Events -> Int], NEW S, S \subseteq Events, IsFiniteSet(S),
         \A e \in S : c[e] \in Nat,
         NEW n \in Nat, n < Cardinality(S), NEW page, IsPage(c, S, n, page)
  PROVE  \E next : IsPage(c, S, n + 1, next)
<1> DEFINE R == {e \in S : \A i \in 1..n : page[i] # e}
<1>0. Cardinality(S) \in Nat
  BY FS_CardinalityType
<1>1. R # {}
  <2> SUFFICES ASSUME R = {} PROVE FALSE
    OBVIOUS
  <2>1. page \in Surjection(1..n, S)
    BY DEF IsPage, Surjection
  <2>2. Cardinality(S) <= n
    BY <2>1, FS_SurjCardinalityBound DEF ExistsSurjection
  <2> QED
    BY <1>0, <2>2
<1>2. R \subseteq Events /\ \A e \in R : c[e] \in Nat
  OBVIOUS
<1>3. PICK x \in R : \A e \in R : e = x \/ Earlier(c, x, e)
  BY <1>1, <1>2, First
<1> DEFINE next == [i \in 1..(n + 1) |-> IF i = n + 1 THEN x ELSE page[i]]
<1>4. \A i \in 1..(n + 1) : i = n + 1 \/ (i \in 1..n /\ i # n + 1)
  OBVIOUS
<1>5. /\ n + 1 \in 1..(n + 1) /\ next[n + 1] = x
      /\ \A i \in 1..n : i \in 1..(n + 1) /\ i # n + 1 /\ next[i] = page[i]
      /\ next \in [1..(n + 1) -> S]
  BY <1>4 DEF IsPage
<1> HIDE DEF next
<1>6. ASSUME NEW i \in 1..(n + 1), NEW j \in 1..(n + 1), i < j
      PROVE  Earlier(c, next[i], next[j])
  <2>1. i \in 1..n
    BY <1>6
  <2>2. CASE j \in 1..n
    BY <1>5, <1>6, <2>1, <2>2 DEF IsPage
  <2>3. CASE j = n + 1
    <3>1. x \in S /\ \A k \in 1..n : page[k] # x
      BY <1>3
    <3> QED
      BY <1>5, <2>1, <2>3, <3>1 DEF IsPage
  <2> QED
    BY <1>4, <2>2, <2>3
<1>7. ASSUME NEW e \in S, \A i \in 1..(n + 1) : next[i] # e, NEW i \in 1..(n + 1)
      PROVE  Earlier(c, next[i], e)
  <2>1. \A k \in 1..n : page[k] # e
    BY <1>5, <1>7
  <2>2. e # x
    BY <1>5, <1>7
  <2>3. CASE i = n + 1
    BY <1>3, <1>5, <2>1, <2>2, <2>3
  <2>4. CASE i \in 1..n
    BY <1>5, <2>1, <2>4 DEF IsPage
  <2> QED
    BY <1>4, <2>3, <2>4
<1> QED
  BY <1>5, <1>6, <1>7 DEF IsPage

\* There is a page of every length the set allows.
LEMMA PageExists ==
  ASSUME NEW c \in [Events -> Int], NEW S, S \subseteq Events, IsFiniteSet(S),
         \A e \in S : c[e] \in Nat, NEW n \in Nat, n <= Cardinality(S)
  PROVE  \E page : IsPage(c, S, n, page)
<1> DEFINE Bad == {m \in Nat : m <= Cardinality(S) /\ ~\E page : IsPage(c, S, m, page)}
<1>0. Cardinality(S) \in Nat
  BY FS_CardinalityType
<1>1. SUFFICES ASSUME Bad # {} PROVE FALSE
  OBVIOUS
<1>2. PICK m \in Bad : \A k \in Bad : m <= k
  <2>1. Bad \subseteq Nat
    OBVIOUS
  <2> HIDE DEF Bad
  <2> QED
    BY <1>1, <2>1, LeastNumber
<1>3. m # 0
  <2> DEFINE none == [i \in 1..0 |-> 0]
  <2>1. 1..0 = {}
    OBVIOUS
  <2>2. IsPage(c, S, 0, none)
    BY <2>1 DEF IsPage
  <2> QED
    BY <2>2
<1>4. m \in Nat /\ m <= Cardinality(S)
  OBVIOUS
<1>5. m - 1 \in Nat /\ m - 1 < Cardinality(S) /\ (m - 1) + 1 = m /\ ~(m <= m - 1)
  BY <1>0, <1>3, <1>4
<1>6. m - 1 \notin Bad
  BY <1>2, <1>5
<1>7. \E page : IsPage(c, S, m - 1, page)
  <2>1. m - 1 <= Cardinality(S)
    BY <1>0, <1>5
  <2> QED
    BY <1>5, <1>6, <2>1
<1>8. \E page : IsPage(c, S, (m - 1) + 1, page)
  BY <1>5, <1>7, PageGrows
<1> QED
  BY <1>5, <1>8

\* What the query returns.
LEMMA PageIs ==
  ASSUME created_at \in [Events -> Int], NEW S, S \subseteq Events,
         \A e \in S : created_at[e] \in Nat
  PROVE  /\ Page(S) \in Seq(Events) /\ ToSet(Page(S)) \subseteq S
         /\ Ascending(created_at, Page(S))
         /\ \A e \in S \ ToSet(Page(S)) : \A d \in ToSet(Page(S)) : Earlier(created_at, d, e)
<1> DEFINE c == created_at
           n == PageLength(S)
<1>0. IsFiniteSet(S) /\ Cardinality(S) \in Nat
  BY FS_Subset, FS_CardinalityType
<1>1. n \in Nat /\ n <= Cardinality(S)
  BY <1>0 DEF PageLength
<1>2. PICK page : IsPage(c, S, n, page)
  BY <1>0, <1>1, PageExists
<1> DEFINE Good(p) == /\ \A i, j \in DOMAIN p : i < j => Before(p[i], p[j])
                      /\ \A i \in DOMAIN p, e \in S \ ToSet(p) : Before(p[i], e)
<1>3. page \in [1..n -> S] /\ Good(page)
  <2>1. page \in [1..n -> S] /\ DOMAIN page = 1..n
    BY <1>2 DEF IsPage
  <2>2. \A i, j \in 1..n : i < j => Before(page[i], page[j])
    BY <1>2 DEF IsPage, Before, Earlier
  <2>3. \A e \in S \ ToSet(page) : \A i \in 1..n : page[i] # e
    BY <2>1 DEF ToSet
  <2>4. \A i \in 1..n, e \in S \ ToSet(page) : Before(page[i], e)
    BY <1>2, <2>3 DEF IsPage, Before, Earlier
  <2> QED
    BY <2>1, <2>2, <2>4
<1>4. Page(S) = CHOOSE p \in [1..n -> S] : Good(p)
  BY DEF Page
<1> HIDE DEF n, Good
<1>5. Page(S) \in [1..n -> S] /\ Good(Page(S))
  BY <1>3, <1>4
<1>6. Page(S) \in Seq(Events)
  <2>1. Page(S) \in [1..n -> Events]
    BY <1>5
  <2> QED
    BY <1>1, <2>1, SeqDef
<1> QED
  BY <1>5, <1>6 DEF Good, Ascending, ToSet, Before, Earlier

-----------------------------------------------------------------------------
(* Sequences of events.                                                    *)

\* Appending an event, and taking the head of a sequence.
LEMMA AppendElements ==
  ASSUME NEW s \in Seq(Events), NEW x \in Events
  PROVE  Append(s, x) \in Seq(Events) /\ ToSet(Append(s, x)) = ToSet(s) \cup {x}
<1> DEFINE t == Append(s, x)
           n == Len(s)
<1>1. n \in Nat /\ DOMAIN s = 1..n
  BY LenProperties
<1>2. /\ t \in Seq(Events) /\ Len(t) = n + 1
      /\ \A i \in 1..n : t[i] = s[i]
      /\ t[n + 1] = x
  BY AppendProperties
<1>3. DOMAIN t = 1..(n + 1)
  BY <1>2, LenProperties
<1>4. \A i : i \in 1..(n + 1) <=> i \in 1..n \/ i = n + 1
  BY <1>1
<1> HIDE DEF t, n
<1>5. ToSet(t) = ToSet(s) \cup {x}
  BY <1>1, <1>2, <1>3, <1>4 DEF ToSet
<1> QED
  BY <1>2, <1>5 DEF t

\* What a sequence holds is its head and what its tail holds; where it ascends,
\* the head is earlier than the rest.
LEMMA HeadElements ==
  ASSUME NEW c, NEW s \in Seq(Events), s # <<>>
  PROVE  /\ Head(s) \in Events /\ Tail(s) \in Seq(Events)
         /\ ToSet(s) = {Head(s)} \cup ToSet(Tail(s))
         /\ Ascending(c, s) => /\ Ascending(c, Tail(s))
                              /\ \A y \in ToSet(Tail(s)) : Earlier(c, Head(s), y)
<1> DEFINE t == Tail(s)
           n == Len(s)
<1>1. n \in Nat /\ DOMAIN s = 1..n /\ n # 0
  BY LenProperties, EmptySeq
<1>2. /\ t \in Seq(Events) /\ Len(t) = n - 1
      /\ \A i \in 1..(n - 1) : t[i] = s[i + 1]
      /\ Head(s) \in Events /\ Head(s) = s[1]
  BY HeadTailProperties
<1>3. DOMAIN t = 1..(n - 1)
  BY <1>2, LenProperties
<1> HIDE DEF t, n
<1>4. \A i \in 1..(n - 1) : i + 1 \in 1..n /\ 1 < i + 1 /\ \A j \in 1..(n - 1) : i < j => i + 1 < j + 1
  BY <1>1
<1>5. 1 \in 1..n /\ \A i \in 1..n : i = 1 \/ (i - 1 \in 1..(n - 1) /\ (i - 1) + 1 = i)
  BY <1>1
<1>6. ASSUME NEW i \in 1..n
      PROVE  s[i] \in {Head(s)} \cup ToSet(t)
  <2>1. CASE i = 1
    BY <1>2, <2>1
  <2>2. CASE i # 1
    <3>1. i - 1 \in 1..(n - 1) /\ t[i - 1] = s[i]
      BY <1>2, <1>5, <2>2
    <3> QED
      BY <1>3, <3>1 DEF ToSet
  <2> QED
    BY <2>1, <2>2
<1>7. {Head(s)} \cup ToSet(t) \subseteq ToSet(s)
  BY <1>1, <1>2, <1>3, <1>4, <1>5 DEF ToSet
<1>8. ASSUME Ascending(c, s)
      PROVE  Ascending(c, t) /\ \A y \in ToSet(t) : Earlier(c, Head(s), y)
  <2>1. \A i, j \in 1..n : i < j => Earlier(c, s[i], s[j])
    BY <1>1, <1>8 DEF Ascending
  <2>2. \A i \in 1..(n - 1) : Earlier(c, Head(s), t[i])
    BY <1>2, <1>4, <1>5, <2>1
  <2>3. \A i, j \in 1..(n - 1) : i < j => Earlier(c, t[i], t[j])
    BY <1>2, <1>4, <2>1
  <2> QED
    BY <1>3, <2>2, <2>3 DEF Ascending, ToSet
<1>9. ToSet(s) = {Head(s)} \cup ToSet(t)
  BY <1>1, <1>6, <1>7 DEF ToSet
<1> QED
  BY <1>2, <1>8, <1>9 DEF t

\* An ascending sequence takes an event that is later than all of it, and its
\* last event is the latest.
LEMMA AscendingAppend ==
  ASSUME NEW c, NEW s \in Seq(Events), NEW x \in Events, Ascending(c, s),
         \A y \in ToSet(s) : Earlier(c, y, x)
  PROVE  Ascending(c, Append(s, x))
<1> DEFINE t == Append(s, x)
           n == Len(s)
<1>1. n \in Nat /\ DOMAIN s = 1..n
  BY LenProperties
<1>2. /\ t \in Seq(Events) /\ Len(t) = n + 1
      /\ \A i \in 1..n : t[i] = s[i]
      /\ t[n + 1] = x
  BY AppendProperties
<1>3. DOMAIN t = 1..(n + 1)
  BY <1>2, LenProperties
<1>4. \A i, j \in 1..(n + 1) : i < j => i \in 1..n /\ (j \in 1..n \/ j = n + 1)
  BY <1>1
<1> HIDE DEF t, n
<1>5. Ascending(c, t)
  BY <1>1, <1>2, <1>3, <1>4 DEF Ascending, ToSet
<1> QED
  BY <1>5 DEF t

\* The last element of an ascending sequence is the latest one.
LEMMA LastIsLatest ==
  ASSUME NEW c, NEW s \in Seq(Events), Ascending(c, s), s # <<>>
  PROVE  /\ Last(s) \in ToSet(s) /\ ToSet(s) \subseteq Events
         /\ \A y \in ToSet(s) : y = Last(s) \/ Earlier(c, y, Last(s))
<1> DEFINE n == Len(s)
<1>1. n \in Nat /\ DOMAIN s = 1..n /\ n # 0
  BY LenProperties, EmptySeq
<1>3. \A i \in 1..n : s[i] \in Events
  OBVIOUS
<1>4. Last(s) = s[n]
  BY DEF Last
<1> HIDE DEF n
<1>2. n \in 1..n /\ \A i \in 1..n : i = n \/ i < n
  BY <1>1
<1> QED
  BY <1>1, <1>2, <1>3, <1>4 DEF Ascending, ToSet

-----------------------------------------------------------------------------
(* The invariant.                                                          *)

Sent == ToSet(received) \cup ToSet(wire)

\* The store: a committed event keeps a stamp of the past.
StoreInv ==
  /\ clock \in Nat /\ server_time \in BOOLEAN
  /\ created_at \in [Events -> Nat \cup {NoStamp}]
  /\ \A e \in Events : created_at[e] <= clock
  /\ committed \subseteq Events
  /\ \A e \in committed : created_at[e] \in Nat

\* What the client has got, what is on the wire and what is listed continue
\* each other in the order of the store, without a repetition.
LineInv ==
  /\ received \in Seq(Events) /\ wire \in Seq(Events) /\ pending \in Seq(Events)
  /\ Listed \subseteq committed
  /\ Ascending(created_at, received) /\ Ascending(created_at, wire)
  /\ Ascending(created_at, pending)
  /\ AllEarlier(created_at, ToSet(received), ToSet(wire))
  /\ AllEarlier(created_at, Sent, ToSet(pending))

\* The cursor of an open stream is the last event that was sent on it or, before
\* the first, the last one the client had got.
CursorInv ==
  /\ connected \in BOOLEAN
  /\ ~connected => wire = <<>> /\ pending = <<>>
  /\ connected => IF cursor = NoCursor THEN Sent = {}
                  ELSE /\ cursor \in Sent
                       /\ \A x \in Sent : x = cursor \/ Earlier(created_at, x, cursor)

\* Why an event may be missing.
Excused(e) ==
  /\ e \in overtaken
  /\ server_time => \E d \in committed : d # e /\ created_at[d] = created_at[e]

\* Nothing is missing before what was listed but events that were overtaken.
SkipInv ==
  \A e \in committed \ Listed, d \in Listed : Earlier(created_at, e, d) => Excused(e)

StreamInv == StoreInv /\ LineInv /\ CursorInv /\ SkipInv

\* Initially there are no events.
LEMMA InitStream == Init => StreamInv
<1> SUFFICES ASSUME Init PROVE StreamInv
  OBVIOUS
<1>1. received = <<>> /\ wire = <<>> /\ pending = <<>> /\ connected = FALSE
  BY DEF Init
<1>2. ToSet(<<>>) = {} /\ DOMAIN <<>> = {}
  BY DEF ToSet
<1>3. <<>> \in Seq(Events)
  OBVIOUS
<1>4. StoreInv
  BY DEF Init, StoreInv, NoStamp
<1>5. LineInv /\ SkipInv
  BY <1>1, <1>2, <1>3 DEF LineInv, SkipInv, Listed, Sent, Ascending, AllEarlier
<1>6. CursorInv
  BY <1>1 DEF CursorInv
<1> QED
  BY <1>4, <1>5, <1>6 DEF StreamInv

\* Steps of the store: committed events keep their stamps and nothing becomes
\* uncommitted.
LEMMA StoreStep ==
  ASSUME LineInv, CursorInv, StoreInv, UNCHANGED streamVars,
         \A e \in committed : created_at'[e] = created_at[e]
  PROVE  /\ Listed' = Listed /\ Sent' = Sent
         /\ committed \subseteq committed' => LineInv'
         /\ CursorInv'
<1>1. UNCHANGED <<connected, cursor, pending, wire, received>>
  BY DEF streamVars
<1>2. Listed' = Listed /\ Sent' = Sent
  BY <1>1 DEF Listed, Sent
<1>3. Listed \subseteq committed /\ Sent \subseteq committed
  BY DEF LineInv, Listed, Sent
<1>4. \A x, y \in committed : Earlier(created_at, x, y) <=> Earlier(created_at', x, y)
  BY DEF Earlier
<1>5. ASSUME NEW s, ToSet(s) \subseteq committed
      PROVE  Ascending(created_at, s) <=> Ascending(created_at', s)
  <2>1. \A i \in DOMAIN s : s[i] \in committed
    BY <1>5 DEF ToSet
  <2> QED
    BY <1>4, <2>1 DEF Ascending
<1>6. /\ ToSet(received) \subseteq committed /\ ToSet(wire) \subseteq committed
      /\ ToSet(pending) \subseteq committed
  BY <1>3 DEF Listed
<1>7. /\ Ascending(created_at', received) /\ Ascending(created_at', wire)
      /\ Ascending(created_at', pending)
  BY <1>5, <1>6 DEF LineInv
<1>8. AllEarlier(created_at', ToSet(received), ToSet(wire))
  BY <1>4, <1>6 DEF LineInv, AllEarlier
<1>9. AllEarlier(created_at', Sent, ToSet(pending))
  BY <1>3, <1>4, <1>6 DEF LineInv, AllEarlier
<1>10. committed \subseteq committed' => LineInv'
  BY <1>1, <1>2, <1>3, <1>7, <1>8, <1>9 DEF LineInv
<1>11. CursorInv'
  BY <1>1, <1>2, <1>3, <1>4 DEF CursorInv
<1> QED
  BY <1>2, <1>10, <1>11

\* A writer's commit is late for a listed event, or skips nothing.
LEMMA RecordAudit ==
  ASSUME StreamInv, NEW e \in Events, record_audit(e)
  PROVE  StreamInv'
<1>0. StoreInv /\ LineInv /\ CursorInv /\ SkipInv
  BY DEF StreamInv
<1>1. /\ e \notin committed /\ created_at[e] # NoStamp
      /\ created_at' = IF server_time THEN [created_at EXCEPT ![e] = clock] ELSE created_at
      /\ committed' = committed \cup {e}
      /\ UNCHANGED <<server_time, clock>> /\ UNCHANGED streamVars
  BY DEF record_audit
<1>2. /\ created_at' \in [Events -> Nat \cup {NoStamp}]
      /\ \A d \in Events : d # e => created_at'[d] = created_at[d]
      /\ server_time => created_at'[e] = clock
      /\ created_at'[e] \in Nat /\ created_at'[e] <= clock
  BY <1>0, <1>1 DEF StoreInv
<1>3. \A d \in committed : created_at'[d] = created_at[d] /\ d # e /\ d \in Events
  BY <1>0, <1>1, <1>2 DEF StoreInv
<1>4. StoreInv'
  BY <1>0, <1>1, <1>2 DEF StoreInv
<1>5. Listed' = Listed /\ LineInv' /\ CursorInv' /\ Listed \subseteq committed
  BY <1>0, <1>1, <1>3, StoreStep DEF LineInv
<1>6. ASSUME NEW f \in committed' \ Listed', NEW d \in Listed', Earlier(created_at', f, d)
      PROVE  Excused(f)'
  <2>1. d \in committed /\ d \in Events /\ created_at'[d] = created_at[d] /\ d \in Listed
    BY <1>3, <1>5
  <2>2. CASE f # e
    <3>1. f \in committed /\ created_at'[f] = created_at[f]
      BY <1>1, <1>3, <2>2
    <3>2. Excused(f)
      BY <1>0, <1>5, <1>6, <2>1, <3>1 DEF SkipInv, Earlier
    <3>3. overtaken \subseteq overtaken'
      BY DEF record_audit
    <3> QED
      BY <1>1, <1>3, <3>1, <3>2, <3>3 DEF Excused
  <2>3. CASE f = e
    <3>1. created_at'[e] < created_at[d] \/ (created_at'[e] = created_at[d] /\ e < d)
      BY <1>6, <2>1, <2>3 DEF Earlier
    <3>2. e \in overtaken'
      BY <2>1, <3>1 DEF record_audit
    <3>3. created_at[d] <= clock /\ created_at[d] \in Nat /\ clock \in Nat /\ d # e
      BY <1>0, <1>1, <2>1 DEF StoreInv
    <3>4. server_time => created_at'[d] = created_at'[e]
      BY <1>2, <2>1, <3>1, <3>3
    <3> QED
      BY <1>1, <2>1, <2>3, <3>2, <3>3, <3>4 DEF Excused
  <2> QED
    BY <2>2, <2>3
<1>7. SkipInv'
  BY <1>6 DEF SkipInv
<1> QED
  BY <1>4, <1>5, <1>7 DEF StreamInv

\* The store's other steps.
LEMMA StoreMoves ==
  ASSUME StreamInv, tick \/ \E e \in Events : create_event(e)
  PROVE  StreamInv'
<1>0. StoreInv /\ LineInv /\ CursorInv /\ SkipInv
  BY DEF StreamInv
<1>1. /\ UNCHANGED <<server_time, committed, overtaken>> /\ UNCHANGED streamVars
      /\ clock' \in Nat /\ clock <= clock'
  BY <1>0 DEF tick, create_event, StoreInv
<1>2. \A d \in committed : created_at'[d] = created_at[d] /\ d \in Events
  BY <1>0 DEF tick, create_event, StoreInv, NoStamp
<1>3. StoreInv'
  <2>1. CASE tick
    BY <1>0, <1>1, <2>1 DEF tick, StoreInv, NoStamp
  <2>2. ASSUME NEW e \in Events, create_event(e)
        PROVE  StoreInv'
    <3>1. created_at' = [created_at EXCEPT ![e] = clock] /\ clock' = clock
      BY <2>2 DEF create_event
    <3> QED
      BY <1>0, <1>1, <1>2, <3>1 DEF StoreInv
  <2> QED
    BY <2>1, <2>2
<1>4. Listed' = Listed /\ LineInv' /\ CursorInv' /\ Listed \subseteq committed
  BY <1>0, <1>1, <1>2, StoreStep DEF LineInv
<1>5. SkipInv'
  BY <1>0, <1>1, <1>2, <1>4 DEF SkipInv, Excused, Earlier
<1> QED
  BY <1>3, <1>4, <1>5 DEF StreamInv

\* Listing: the next page after the last event sent continues the line, and
\* what it leaves out before itself was left out already.
LEMMA Lists ==
  ASSUME StreamInv, NEW a, pending = <<>>, pending' = list_audit_after(a),
         UNCHANGED <<wire, received>>, UNCHANGED storeVars,
         cursor' = a, connected' = TRUE,
         IF a = NoCursor THEN Sent = {}
         ELSE a \in Sent /\ \A x \in Sent : x = a \/ Earlier(created_at, x, a)
  PROVE  StreamInv'
<1> DEFINE c == created_at
           S == {e \in committed : After(e, a)}
           page == Page(S)
<1>0. StoreInv /\ LineInv /\ CursorInv /\ SkipInv
  BY DEF StreamInv
<1>1. UNCHANGED <<server_time, clock, created_at, committed, overtaken>>
  BY DEF storeVars
<1>t. c \in [Events -> Int] /\ committed \subseteq Events /\ Sent \subseteq committed
  BY <1>0 DEF StoreInv, LineInv, Listed, Sent, NoStamp
<1>2. S \subseteq Events /\ S \subseteq committed /\ \A e \in S : c[e] \in Nat
  BY <1>0 DEF StoreInv
<1>3. \A e \in committed : e \in S <=> a = NoCursor \/ Earlier(c, a, e)
  BY DEF After, Before, Earlier
<1>4. pending' = page
  BY DEF list_audit_after
<1> HIDE DEF S
<1>5. /\ page \in Seq(Events) /\ ToSet(page) \subseteq S /\ Ascending(c, page)
      /\ \A e \in S \ ToSet(page) : \A d \in ToSet(page) : Earlier(c, d, e)
  BY <1>t, <1>2, PageIs
<1> HIDE DEF page, c
<1>o. /\ \A d, e \in Events : Earlier(c, d, e) => d # e /\ ~Earlier(c, e, d)
      /\ \A d, e \in Events : d = e \/ Earlier(c, d, e) \/ Earlier(c, e, d)
      /\ \A d, e, f \in Events : Earlier(c, d, e) /\ Earlier(c, e, f) => Earlier(c, d, f)
  BY <1>t, EarlierIsOrder
<1>6. ToSet(pending) = {} /\ Listed = Sent /\ Sent' = Sent
      /\ Listed' = Sent \cup ToSet(page)
  BY <1>4 DEF ToSet, Listed, Sent
<1>7. AllEarlier(c, Sent, ToSet(page))
  <2> SUFFICES ASSUME NEW x \in Sent, NEW y \in ToSet(page)
               PROVE  Earlier(c, x, y)
    BY DEF AllEarlier
  <2>1. a # NoCursor /\ a \in Sent /\ (x = a \/ Earlier(c, x, a))
    BY DEF c
  <2>2. y \in S /\ y \in committed /\ Earlier(c, a, y)
    BY <1>2, <1>3, <1>5, <2>1
  <2> QED
    BY <1>o, <1>t, <2>1, <2>2
<1>8. LineInv'
  BY <1>0, <1>1, <1>2, <1>4, <1>5, <1>6, <1>7 DEF LineInv, c
<1>9. CursorInv'
  BY <1>1, <1>6 DEF CursorInv
<1>10. ASSUME NEW e \in committed, e \notin Sent, e \notin ToSet(page),
              NEW d \in Sent \cup ToSet(page), Earlier(c, e, d)
       PROVE  Excused(e)
  <2>1. CASE d \in Sent
    BY <1>0, <1>6, <1>10, <2>1 DEF SkipInv, c
  <2>2. CASE d \in ToSet(page)
    <3>1. d \in Events /\ e \in Events
      BY <1>2, <1>5, <1>t, <2>2
    <3>2. e \notin S
      BY <1>5, <1>10, <1>o, <2>2, <3>1
    <3>3. a # NoCursor /\ ~Earlier(c, a, e) /\ a \in Sent
      BY <1>3, <3>2
    <3>4. Earlier(c, e, a)
      BY <1>10, <1>o, <1>t, <3>1, <3>3
    <3> QED
      BY <1>0, <1>6, <1>10, <3>3, <3>4 DEF SkipInv, c
  <2> QED
    BY <2>1, <2>2
<1>11. SkipInv'
  BY <1>1, <1>6, <1>10 DEF SkipInv, Excused, c
<1>12. StoreInv'
  BY <1>0, <1>1 DEF StoreInv
<1> QED
  BY <1>8, <1>9, <1>11, <1>12 DEF StreamInv

\* The stream's own steps.
LEMMA StreamSteps ==
  ASSUME StreamInv, Stream
  PROVE  StreamInv'
<1>0. StoreInv /\ LineInv /\ CursorInv /\ SkipInv
  BY DEF StreamInv
<1>c. created_at \in [Events -> Int]
  BY <1>0 DEF StoreInv, NoStamp
<1>e. ToSet(<<>>) = {}
  BY DEF ToSet
<1>1. CASE stream_change
  <2>1. /\ ~connected /\ connected' = TRUE /\ cursor' = LastEventId
        /\ pending' = list_audit_after(LastEventId)
        /\ UNCHANGED <<wire, received>> /\ UNCHANGED storeVars
    BY <1>1 DEF stream_change
  <2>2. wire = <<>> /\ pending = <<>> /\ Sent = ToSet(received)
    BY <1>0, <1>e, <2>1 DEF CursorInv, Sent
  <2>3. CASE received = <<>>
    <3>1. LastEventId = NoCursor /\ Sent = {}
      BY <1>e, <2>2, <2>3 DEF LastEventId
    <3> QED
      BY <2>1, <2>2, <3>1, Lists
  <2>4. CASE received # <<>>
    <3>1. /\ Last(received) \in Sent /\ Sent \subseteq Events
          /\ \A x \in Sent : x = Last(received) \/ Earlier(created_at, x, Last(received))
      BY <1>0, <2>2, <2>4, LastIsLatest DEF LineInv
    <3>2. LastEventId = Last(received) /\ LastEventId # NoCursor
      BY <2>4, <3>1 DEF LastEventId, NoCursor
    <3> QED
      BY <2>1, <2>2, <3>1, <3>2, Lists
  <2> QED
    BY <2>3, <2>4
<1>2. CASE poll
  <2>1. /\ connected /\ pending = <<>> /\ pending' = list_audit_after(cursor)
        /\ UNCHANGED <<wire, received>> /\ UNCHANGED storeVars
        /\ cursor' = cursor /\ connected' = connected
    BY <1>2 DEF poll
  <2>2. /\ connected' = TRUE
        /\ IF cursor = NoCursor THEN Sent = {}
           ELSE /\ cursor \in Sent
                /\ \A x \in Sent : x = cursor \/ Earlier(created_at, x, cursor)
    BY <1>0, <2>1 DEF CursorInv
  <2> QED
    BY <2>1, <2>2, Lists
<1>3. CASE send
  <2> DEFINE h == Head(pending)
             t == Tail(pending)
  <2>1. /\ connected /\ pending # <<>> /\ wire' = Append(wire, h) /\ cursor' = h /\ pending' = t
        /\ UNCHANGED <<connected, received>> /\ UNCHANGED storeVars
    BY <1>3 DEF send
  <2>2. /\ h \in Events /\ t \in Seq(Events) /\ ToSet(pending) = {h} \cup ToSet(t)
        /\ Ascending(created_at, t) /\ \A y \in ToSet(t) : Earlier(created_at, h, y)
    BY <1>0, <2>1, HeadElements DEF LineInv
  <2> HIDE DEF h, t
  <2>3. wire' \in Seq(Events) /\ ToSet(wire') = ToSet(wire) \cup {h}
    BY <1>0, <2>1, <2>2, AppendElements DEF LineInv
  <2>4. \A x \in Sent : Earlier(created_at, x, h)
    BY <1>0, <2>2 DEF LineInv, AllEarlier
  <2>5. Ascending(created_at, wire')
    <3>1. \A y \in ToSet(wire) : Earlier(created_at, y, h)
      BY <2>4 DEF Sent
    <3> QED
      BY <1>0, <2>1, <2>2, <3>1, AscendingAppend DEF LineInv
  <2>6. Sent' = Sent \cup {h} /\ Listed' = Listed
    BY <2>1, <2>2, <2>3 DEF Sent, Listed
  <2>7. UNCHANGED <<server_time, clock, created_at, committed, overtaken>>
    BY <2>1 DEF storeVars
  <2>8. AllEarlier(created_at, ToSet(received), ToSet(wire'))
    BY <1>0, <2>3, <2>4 DEF LineInv, AllEarlier, Sent
  <2>9. AllEarlier(created_at, Sent', ToSet(t))
    BY <1>0, <2>2, <2>6 DEF LineInv, AllEarlier
  <2>10. LineInv'
    BY <1>0, <2>1, <2>2, <2>3, <2>5, <2>6, <2>7, <2>8, <2>9 DEF LineInv
  <2>11. CursorInv'
    BY <1>0, <2>1, <2>2, <2>4, <2>6, <2>7 DEF CursorInv, NoCursor
  <2>12. SkipInv' /\ StoreInv'
    BY <1>0, <2>6, <2>7 DEF SkipInv, StoreInv, Excused
  <2> QED
    BY <2>10, <2>11, <2>12 DEF StreamInv
<1>4. CASE receive
  <2> DEFINE h == Head(wire)
             t == Tail(wire)
  <2>1. /\ wire # <<>> /\ received' = Append(received, h) /\ wire' = t
        /\ UNCHANGED <<connected, cursor, pending>> /\ UNCHANGED storeVars
    BY <1>4 DEF receive
  <2>2. /\ h \in Events /\ t \in Seq(Events) /\ ToSet(wire) = {h} \cup ToSet(t)
        /\ Ascending(created_at, t) /\ \A y \in ToSet(t) : Earlier(created_at, h, y)
    BY <1>0, <2>1, HeadElements DEF LineInv
  <2> HIDE DEF h, t
  <2>3. received' \in Seq(Events) /\ ToSet(received') = ToSet(received) \cup {h}
    BY <1>0, <2>1, <2>2, AppendElements DEF LineInv
  <2>4. \A x \in ToSet(received) : Earlier(created_at, x, h)
    BY <1>0, <2>2 DEF LineInv, AllEarlier
  <2>5. Ascending(created_at, received')
    BY <1>0, <2>1, <2>2, <2>4, AscendingAppend DEF LineInv
  <2>6. Sent' = Sent /\ Listed' = Listed
    BY <2>1, <2>2, <2>3 DEF Sent, Listed
  <2>7. UNCHANGED <<server_time, clock, created_at, committed, overtaken>>
    BY <2>1 DEF storeVars
  <2>8. AllEarlier(created_at, ToSet(received'), ToSet(t))
    BY <1>0, <2>2, <2>3 DEF LineInv, AllEarlier
  <2>9. LineInv'
    BY <1>0, <2>1, <2>2, <2>3, <2>5, <2>6, <2>7, <2>8 DEF LineInv
  <2>10. CursorInv'
    BY <1>0, <2>1, <2>6, <2>7 DEF CursorInv
  <2>11. SkipInv' /\ StoreInv'
    BY <1>0, <2>6, <2>7 DEF SkipInv, StoreInv, Excused
  <2> QED
    BY <2>9, <2>10, <2>11 DEF StreamInv
<1> QED
  BY <1>1, <1>2, <1>3, <1>4 DEF Stream

\* A lost or closed connection takes back what was not received, which is later than all
\* that was.
LEMMA Disconnects ==
  ASSUME StreamInv, disconnect \/ close
  PROVE  StreamInv'
<1>0. StoreInv /\ LineInv /\ CursorInv /\ SkipInv
  BY DEF StreamInv
<1>1. /\ connected' = FALSE /\ pending' = <<>> /\ wire' = <<>> /\ received' = received
      /\ UNCHANGED <<server_time, clock, created_at, committed, overtaken>>
  BY DEF disconnect, close, storeVars
<1>2. ToSet(<<>>) = {} /\ <<>> \in Seq(Events) /\ Ascending(created_at, <<>>)
  BY DEF ToSet, Ascending
<1>3. Listed' = ToSet(received) /\ Sent' = ToSet(received)
  BY <1>1, <1>2 DEF Listed, Sent
<1>4. LineInv'
  BY <1>0, <1>1, <1>2, <1>3 DEF LineInv, Listed, AllEarlier
<1>5. CursorInv'
  BY <1>1 DEF CursorInv
<1>6. ASSUME NEW e \in committed, e \notin ToSet(received),
             NEW d \in ToSet(received), Earlier(created_at, e, d)
      PROVE  Excused(e)
  <2>0. Nat \cup {NoStamp} \subseteq Int
    BY DEF NoStamp
  <2>5. d \in Sent /\ d \in Listed
    BY <1>6 DEF Listed, Sent
  <2>1. created_at \in [Events -> Int] /\ e \in Events /\ d \in Events /\ d \in Sent /\ d \in Listed
    <3>1. created_at \in [Events -> Nat \cup {NoStamp}] /\ committed \subseteq Events
      BY <1>0 DEF StoreInv
    <3>2. created_at \in [Events -> Int]
      BY <3>1, <2>0
    <3>3. d \in committed
      BY <1>0, <2>5 DEF LineInv
    <3> QED
      BY <1>6, <2>5, <3>1, <3>2, <3>3
  <2>2. ~Earlier(created_at, d, e)
    BY <1>6, <2>1, EarlierIsOrder
  <2>3. e \notin ToSet(wire) /\ e \notin ToSet(pending)
    BY <1>0, <1>6, <2>1, <2>2 DEF LineInv, AllEarlier
  <2>4. e \notin Listed
    BY <1>6, <2>3 DEF Listed
  <2> QED
    BY <1>0, <1>6, <2>1, <2>4 DEF SkipInv
<1>7. SkipInv' /\ StoreInv'
  BY <1>0, <1>1, <1>3, <1>6 DEF SkipInv, StoreInv, Excused
<1> QED
  BY <1>4, <1>5, <1>7 DEF StreamInv

-----------------------------------------------------------------------------
(* The results.                                                            *)

\* The inductive invariant of store, stream and client.
THEOREM StreamInvariant == Spec => []StreamInv
<1>1. StreamInv /\ [Next]_vars => StreamInv'
  <2> SUFFICES ASSUME StreamInv, [Next]_vars PROVE StreamInv'
    OBVIOUS
  <2>1. CASE UNCHANGED vars
    BY <2>1 DEF vars, StreamInv, StoreInv, LineInv, CursorInv, SkipInv, Excused, Listed, Sent
  <2>2. CASE disconnect \/ close
    BY <2>2, Disconnects
  <2>3. CASE Stream
    BY <2>3, StreamSteps
  <2>4. ASSUME NEW e \in Events, record_audit(e) PROVE StreamInv'
    BY <2>4, RecordAudit
  <2>5. CASE tick \/ \E e \in Events : create_event(e)
    BY <2>5, StoreMoves
  <2>6. CASE end_workflow \/ refuse
    <3>1. /\ UNCHANGED <<server_time, clock, created_at, committed, overtaken>>
          /\ UNCHANGED <<connected, cursor, pending, wire, received>>
      BY <2>6 DEF end_workflow, refuse, streamVars, storeVars
    <3>2. Listed' = Listed /\ Sent' = Sent
      BY <3>1 DEF Listed, Sent
    <3>3. StoreInv' /\ CursorInv'
      BY <3>1, <3>2 DEF StreamInv, StoreInv, CursorInv
    <3>4. LineInv'
      BY <3>1, <3>2 DEF StreamInv, LineInv
    <3>5. SkipInv'
      BY <3>1, <3>2 DEF StreamInv, SkipInv, Excused
    <3> QED
      BY <3>3, <3>4, <3>5 DEF StreamInv
  <2> QED
    BY <2>1, <2>2, <2>3, <2>4, <2>5, <2>6 DEF Next
<1> QED
  BY <1>1, InitStream, PTL DEF Spec

\* However often the connection is lost and resumed by Last-Event-ID, the
\* client gets events in their order and none twice.
THEOREM DeliveredInOrder == Spec => []InOrderOnce
<1>1. StreamInv => InOrderOnce
  BY DEF StreamInv, LineInv, InOrderOnce, Ascending, Earlier, Before
<1> QED
  BY <1>1, StreamInvariant, PTL

\* What the client has gone past was committed after a later event had been
\* listed, and under server timestamps with an equal stamp.
THEOREM SkippedOnlyIfOvertaken == Spec => []SkippedWasOvertaken
<1>1. StreamInv => SkippedWasOvertaken
  <2> SUFFICES ASSUME StreamInv, NEW e \in committed \ ToSet(received),
                      received # <<>>, Before(e, Last(received))
               PROVE  /\ e \in overtaken
                      /\ server_time => \E d \in Events : d # e /\ created_at[d] = created_at[e]
    BY DEF SkippedWasOvertaken
  <2>0. StoreInv /\ LineInv /\ SkipInv
    BY DEF StreamInv
  <2> DEFINE d == Last(received)
  <2>1. d \in ToSet(received) /\ d \in Events
    BY <2>0, LastIsLatest DEF LineInv
  <2>2. Earlier(created_at, e, d)
    BY DEF Before, Earlier
  <2> HIDE DEF d
  <2>3. created_at \in [Events -> Int] /\ e \in Events /\ d \in Sent /\ d \in Listed
    BY <2>0, <2>1 DEF StoreInv, Listed, Sent, NoStamp
  <2>4. ~Earlier(created_at, d, e)
    BY <2>1, <2>2, <2>3, EarlierIsOrder
  <2>5. e \notin Listed
    BY <2>0, <2>1, <2>3, <2>4 DEF LineInv, AllEarlier, Listed
  <2>6. Excused(e)
    BY <2>0, <2>2, <2>3, <2>5 DEF SkipInv
  <2> QED
    BY <2>0, <2>6 DEF Excused, StoreInv
<1> QED
  BY <1>1, StreamInvariant, PTL
=============================================================================

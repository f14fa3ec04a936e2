------------------------ MODULE JournalDeliveryProofs ------------------------
(***************************************************************************)
(* Proofs about JournalDelivery, for every set of projectors and shares,   *)
(* every page size and queue capacity, and any number of faults: the books *)
(* are a prefix of the journal, and neither the job router nor an answer   *)
(* to a miner is ahead of them.                                            *)
(***************************************************************************)
EXTENDS JournalDelivery, SequenceTheorems, TLAPS

Phases == {"down", "replay", "gap", "live", "drain"}

ConnState ==
    [phase : Phases, replayed : Nat, complete : BOOLEAN, snapshot : Nat,
     live : Nat, next : Nat, last : Nat, usable : BOOLEAN]

\* The variables that the argument is about keep their types.
Typed ==
    /\ journal \in Seq(Event) /\ books \in Seq(Event)
    /\ conn \in [Processes -> ConnState]
    /\ router \in Nat
    /\ asked \in Event

\* The books are a prefix of the journal.
Prefix ==
    /\ Len(books) <= Len(journal)
    /\ \A i \in 1 .. Len(books) : books[i] = journal[i]

\* Nobody has an event in hand that the journal does not have.
InHand ==
    \A c \in Processes : 1 <= conn[c].next /\ conn[c].last <= Len(journal)

\* Where the server's connection stands with respect to the books: what it has
\* read and does not have in hand is booked.
Checked(s, booked) ==
    /\ s.phase \in {"replay", "gap"} =>
        IF s.next > s.last THEN s.replayed <= booked ELSE s.last = s.replayed
    /\ s.phase = "gap" => s.live = s.snapshot
    /\ s.phase = "live" => s.live <= booked /\ s.next > s.last
    /\ s.phase = "drain" =>
        /\ s.last = s.live
        /\ s.next > s.last => s.live <= booked

ServerChecked == Checked(conn[Server], Len(books))

\* An acceptance that is about to be passed on is of a share in the journal
\* that the connection has reached.
AcceptedIsRead ==
    conn[Server].phase = "drain" /\ conn[Server].usable
        /\ result = "accepted" /\ asked \in Shares =>
        \E i \in 1 .. conn[Server].live : journal[i] = asked

Told ==
    \A s \in Shares : "accepted" \in answers[s] =>
        \E i \in 1 .. Len(books) : books[i] = s

Inv ==
    /\ Typed /\ Prefix /\ InHand /\ ServerChecked /\ AcceptedIsRead
    /\ router <= Len(books) /\ Told
-----------------------------------------------------------------------------
(* Sequences *)

\* What an append does to the positions of a sequence.
LEMMA Appended ==
    ASSUME NEW seq \in Seq(Event), NEW e \in Event
    PROVE  /\ Append(seq, e) \in Seq(Event)
           /\ Len(Append(seq, e)) = Len(seq) + 1
           /\ \A i \in 1 .. Len(seq) : Append(seq, e)[i] = seq[i]
           /\ Append(seq, e)[Len(seq) + 1] = e
  OBVIOUS

\* Element by element, a prefix is a subsequence from the start.
LEMMA PrefixIsSubSeq ==
    ASSUME NEW a \in Seq(Event), NEW b \in Seq(Event), Len(a) <= Len(b),
           \A i \in 1 .. Len(a) : a[i] = b[i]
    PROVE  a = SubSeq(b, 1, Len(a))
<1> DEFINE c == SubSeq(b, 1, Len(a))
<1>1. Len(a) \in Nat /\ Len(b) \in Nat
  OBVIOUS
<1>2. c \in Seq(Event) /\ Len(c) = Len(a)
  BY <1>1, SubSeqProperties
<1>3. \A i \in 1 .. Len(a) : c[i] = b[i]
  BY <1>1, SubSeqProperties
<1> QED
  BY <1>2, <1>3, SeqEqual
-----------------------------------------------------------------------------
(* Steps that leave the journal, the books and the answers alone *)

\* A process is of a type and a phase of its own.
LEMMA ConnTyped ==
    ASSUME Typed, NEW c \in Processes
    PROVE  /\ conn[c] \in ConnState
           /\ conn[c].replayed \in Nat /\ conn[c].snapshot \in Nat
           /\ conn[c].live \in Nat /\ conn[c].next \in Nat
           /\ conn[c].last \in Nat /\ conn[c].phase \in Phases
  BY DEF Typed, ConnState

\* Miners were told what they were told.
LEMMA ToldStays ==
    ASSUME Inv, UNCHANGED <<books, answers>>
    PROVE  Told'
  BY DEF Inv, Told

\* What is needed of a new connection state that is not the server's.
LEMMA OtherConn ==
    ASSUME Inv, NEW c \in Processes, c # Server, NEW state \in ConnState,
           1 <= state.next, state.last <= Len(journal), Set(c, state),
           UNCHANGED <<journal, books, router, asked, result>>, Told'
    PROVE  Inv'
<1>1. conn' \in [Processes -> ConnState] /\ conn'[Server] = conn[Server]
  BY DEF Inv, Typed, Set, Processes
<1>2. \A d \in Processes : conn'[d] = IF d = c THEN state ELSE conn[d]
  BY DEF Inv, Typed, Set
<1>3. Typed'
  BY <1>1 DEF Inv, Typed
<1>4. InHand'
  BY <1>2 DEF Inv, InHand
<1>5. Prefix' /\ (router <= Len(books))'
  BY DEF Inv, Prefix
<1>6. ServerChecked' /\ AcceptedIsRead'
  BY <1>1 DEF Inv, ServerChecked, AcceptedIsRead
<1> QED
  BY <1>3, <1>4, <1>5, <1>6 DEF Inv

\* What is needed of a new state of the server's connection.
LEMMA ServerConn ==
    ASSUME Inv, NEW state \in ConnState, 1 <= state.next,
           journal' \in Seq(Event), Len(journal) <= Len(journal'),
           \A i \in 1 .. Len(journal) : journal'[i] = journal[i],
           state.last <= Len(journal'), Set(Server, state),
           UNCHANGED books, router' \in Nat, router' <= Len(books),
           asked' \in Event, Checked(state, Len(books)),
           state.phase = "drain" /\ state.usable /\ result' = "accepted"
               /\ asked' \in Shares =>
               \E i \in 1 .. state.live : journal'[i] = asked',
           Told'
    PROVE  Inv'
<1>1. conn' \in [Processes -> ConnState] /\ conn'[Server] = state
  BY DEF Inv, Typed, Set, Processes
<1>2. \A d \in Processes : conn'[d] = IF d = Server THEN state ELSE conn[d]
  BY DEF Inv, Typed, Set
<1>3. Typed'
  BY <1>1 DEF Inv, Typed
<1>4. InHand'
  <2> SUFFICES ASSUME NEW d \in Processes
               PROVE  1 <= conn'[d].next /\ conn'[d].last <= Len(journal')
    BY DEF InHand
  <2>1. CASE d = Server
    BY <1>2, <2>1
  <2>2. CASE d # Server
    <3>1. conn'[d] = conn[d] /\ conn[d].last \in Nat
      BY <1>2, <2>2, ConnTyped DEF Inv
    <3> QED
      BY <3>1 DEF Inv, InHand, Typed
  <2> QED
    BY <2>1, <2>2
<1>5. Prefix'
  BY DEF Inv, Typed, Prefix
<1>6. ServerChecked'
  BY <1>1 DEF ServerChecked
<1>7. AcceptedIsRead'
  BY <1>1 DEF AcceptedIsRead
<1> QED
  BY <1>3, <1>4, <1>5, <1>6, <1>7 DEF Inv

\* The same, while the journal does not grow.
LEMMA ServerStays ==
    ASSUME Inv, NEW state \in ConnState, 1 <= state.next,
           state.last <= Len(journal), Set(Server, state),
           UNCHANGED <<journal, books>>,
           router' \in Nat, router' <= Len(books), asked' \in Event,
           Checked(state, Len(books)),
           state.phase = "drain" /\ state.usable /\ result' = "accepted"
               /\ asked' \in Shares =>
               \E i \in 1 .. state.live : journal'[i] = asked',
           Told'
    PROVE  Inv'
<1>1. journal' \in Seq(Event) /\ Len(journal) \in Nat /\ Len(journal') = Len(journal)
  BY DEF Inv, Typed
<1>2. Len(journal) <= Len(journal') /\ state.last <= Len(journal')
  BY <1>1
<1>3. \A i \in 1 .. Len(journal) : journal'[i] = journal[i]
  OBVIOUS
<1> QED
  BY <1>1, <1>2, <1>3, ServerConn

\* The router and the question, where a step leaves them alone.
LEMMA RestTyped ==
    ASSUME Inv
    PROVE  /\ Len(journal) \in Nat /\ Len(books) \in Nat
           /\ router \in Nat /\ router <= Len(books) /\ asked \in Event
  BY DEF Inv, Typed

\* The state of a process that is not running is a state of a connection.
LEMMA DownTyped ==
    /\ Down \in ConnState /\ Down.phase = "down"
    /\ Down.next = 1 /\ Down.last = 0
  BY DEF Down, ConnState, Phases

\* A process that gives up leaves the invariant true.
LEMMA StopKeeps ==
    ASSUME Inv, NEW c \in Processes, Stop(c), UNCHANGED <<journal, books>>
    PROVE  Inv'
<1>1. Len(journal) \in Nat /\ Len(books) \in Nat
  BY DEF Inv, Typed
<1>2. Down.last <= Len(journal) /\ 1 <= Down.next
  BY <1>1, DownTyped
<1>3. CASE c # Server
  BY <1>2, <1>3, DownTyped, OtherConn, ToldStays DEF Stop
<1>4. CASE c = Server
  <2>1. Set(Server, Down) /\ router' = 0 /\ asked' = NoShare
    BY <1>4 DEF Stop
  <2>2. Told'
    BY <1>4 DEF Stop, Inv, Told
  <2>3. Checked(Down, Len(books))
    BY DownTyped DEF Checked
  <2>4. asked' \in Event /\ asked' \notin Shares
    BY <2>1, DeliveryAssumption DEF Event
  <2>5. router' \in Nat /\ router' <= Len(books)
    BY <1>1, <2>1
  <2> QED
    BY <1>2, <2>1, <2>2, <2>3, <2>4, <2>5, DownTyped, ServerStays
<1> QED
  BY <1>3, <1>4
-----------------------------------------------------------------------------
(* The steps of a start *)

\* last_event_seq and the hello exchange.
LEMMA ConnectKeeps ==
    ASSUME Inv, NEW c \in Processes, Connect(c)
    PROVE  Inv'
<1> DEFINE state == [Down EXCEPT !.phase = "replay", !.replayed = Len(books),
                                 !.complete = Len(books) = Len(journal),
                                 !.usable = TRUE]
<1>1. Len(journal) \in Nat /\ Len(books) \in Nat
  BY DEF Inv, Typed
<1>2. /\ state \in ConnState /\ state.phase = "replay"
      /\ state.replayed = Len(books) /\ state.next = 1 /\ state.last = 0
  BY <1>1 DEF Down, ConnState, Phases
<1>3. Set(c, state) /\ UNCHANGED <<journal, books, router, asked, result, answers>>
  BY DEF Connect
<1>4. Checked(state, Len(books))
  BY <1>1, <1>2 DEF Checked
<1>5. Told'
  BY <1>3 DEF Inv, Told
<1> HIDE DEF state
<1>6. CASE c # Server
  BY <1>1, <1>2, <1>3, <1>6, OtherConn, ToldStays
<1>7. CASE c = Server
  <2>1. /\ 1 <= state.next /\ state.last <= Len(journal)
        /\ state.phase # "drain" /\ Set(Server, state)
    BY <1>1, <1>2, <1>3, <1>7
  <2>2. router' \in Nat /\ router' <= Len(books) /\ asked' \in Event
    BY <1>3, RestTyped
  <2> QED
    BY <1>2, <1>3, <1>4, <1>5, <2>1, <2>2, ServerStays
<1> QED
  BY <1>6, <1>7

\* A page of a process that has nothing in hand.
LEMMA PageOf ==
    ASSUME Inv, NEW s \in ConnState
    PROVE  /\ Page(s) \in ConnState
           /\ Page(s).next = s.replayed + 1
           /\ Page(s).last = Page(s).replayed
           /\ Page(s).last <= Len(journal)
           /\ Page(s).phase = s.phase /\ Page(s).live = s.live
           /\ Page(s).snapshot = s.snapshot
<1> DEFINE end == Smaller(s.replayed + PageSize, Len(journal))
<1>1. PageSize \in Nat /\ Len(journal) \in Nat /\ s.replayed \in Nat
  BY DeliveryAssumption DEF Inv, Typed, ConnState
<1>2. end \in Nat /\ end <= Len(journal)
  BY <1>1 DEF Smaller
<1>3. Page(s) = [s EXCEPT !.replayed = end, !.next = s.replayed + 1,
                          !.last = end]
  BY DEF Page
<1> HIDE DEF end
<1>4. Page(s) \in ConnState
  <2>1. \A n \in Nat : [s EXCEPT !.replayed = end, !.next = n, !.last = end]
          \in ConnState
    BY <1>2 DEF ConnState
  <2>2. s.replayed + 1 \in Nat
    BY <1>1
  <2> QED
    BY <1>3, <2>1, <2>2
<1>5. Page(s).next = s.replayed + 1
  BY <1>3 DEF ConnState
<1>6. Page(s).last = end /\ Page(s).replayed = end
  BY <1>3 DEF ConnState
<1>7. Page(s).phase = s.phase
  BY <1>3 DEF ConnState
<1>8. Page(s).live = s.live
  BY <1>3 DEF ConnState
<1>9. Page(s).snapshot = s.snapshot
  BY <1>3 DEF ConnState
<1> QED
  BY <1>2, <1>4, <1>5, <1>6, <1>7, <1>8, <1>9

\* A replayed page ends inside the journal and begins after the last one.
LEMMA PageTyped ==
    ASSUME Inv, NEW c \in Processes
    PROVE  /\ Page(conn[c]) \in ConnState
           /\ Page(conn[c]).next = conn[c].replayed + 1
           /\ Page(conn[c]).last = Page(conn[c]).replayed
           /\ Page(conn[c]).last <= Len(journal)
           /\ Page(conn[c]).phase = conn[c].phase
           /\ Page(conn[c]).live = conn[c].live
           /\ Page(conn[c]).snapshot = conn[c].snapshot
  BY PageOf, ConnTyped DEF Inv

\* Both replays take a page, and differ in the phase and in when they are done.
LEMMA PageKeeps ==
    ASSUME Inv, NEW c \in Processes, Idle(c),
           conn[c].phase \in {"replay", "gap"},
           NEW state \in ConnState, Set(c, state),
           state.next = Page(conn[c]).next, state.last = Page(conn[c]).last,
           state.replayed = Page(conn[c]).replayed,
           state.live = conn[c].live, state.snapshot = conn[c].snapshot,
           state.phase = conn[c].phase,
           UNCHANGED <<journal, books, router, asked, result, answers>>
    PROVE  Inv'
<1>1. Len(journal) \in Nat /\ Len(books) \in Nat
  BY DEF Inv, Typed
<1>2. /\ state.next = conn[c].replayed + 1 /\ state.last = state.replayed
      /\ state.last <= Len(journal) /\ conn[c].replayed \in Nat
      /\ state.last \in Nat
  BY PageTyped, ConnTyped DEF Inv, ConnState
<1>0. 1 <= state.next
  BY <1>2
<1>3. CASE c # Server
  BY <1>0, <1>2, <1>3, OtherConn, ToldStays
<1>4. CASE c = Server
  <2>1. /\ conn[c].replayed <= Len(books)
        /\ state.phase = "gap" => state.live = state.snapshot
    BY <1>4 DEF Inv, ServerChecked, Checked, Idle
  <2>2. Checked(state, Len(books))
    <3>1. state.next > state.last => state.replayed <= Len(books)
      BY <1>1, <1>2, <2>1
    <3> QED
      BY <1>2, <2>1, <3>1 DEF Checked
  <2>3. Told'
    BY DEF Inv, Told
  <2>4. router' \in Nat /\ router' <= Len(books) /\ asked' \in Event
    BY RestTyped
  <2>5. state.phase # "drain" /\ Set(Server, state)
    BY <1>4
  <2> QED
    BY <1>0, <1>2, <2>2, <2>3, <2>4, <2>5, ServerStays
<1> QED
  BY <1>3, <1>4

\* A replay to the end of the journal delivers only what is in it.
LEMMA ReplayToEndKeeps ==
    ASSUME Inv, NEW c \in Processes, ReplayToEnd(c)
    PROVE  Inv'
<1> DEFINE page == Page(conn[c])
           state == [page EXCEPT !.complete = page.replayed = Len(journal)]
<1>1. page \in ConnState /\ page.phase = conn[c].phase
      /\ page.live = conn[c].live /\ page.snapshot = conn[c].snapshot
  BY PageTyped
<1>2. Set(c, state) /\ Idle(c) /\ conn[c].phase = "replay"
      /\ UNCHANGED <<journal, books, router, asked, result, answers>>
  BY DEF ReplayToEnd
<1> HIDE DEF page
<1>3. /\ state \in ConnState /\ state.phase = page.phase
      /\ state.next = page.next /\ state.last = page.last
      /\ state.replayed = page.replayed /\ state.live = page.live
      /\ state.snapshot = page.snapshot
  BY <1>1 DEF ConnState
<1> HIDE DEF state
<1> QED
  BY <1>1, <1>2, <1>3, PageKeeps DEF page

\* So does a replay up to a given sequence.
LEMMA ReplayThroughKeeps ==
    ASSUME Inv, NEW c \in Processes, ReplayThrough(c)
    PROVE  Inv'
  BY PageTyped, PageKeeps DEF ReplayThrough

\* subscribe_jobs takes a snapshot and has nothing in hand.
LEMMA SubscribeKeeps ==
    ASSUME Inv, NEW c \in Processes, Subscribe(c)
    PROVE  Inv'
<1> DEFINE state == [conn[c] EXCEPT !.phase = "gap",
                         !.snapshot = Len(journal), !.live = Len(journal)]
<1>1. Len(journal) \in Nat /\ Len(books) \in Nat /\ conn[c] \in ConnState
  BY ConnTyped DEF Inv, Typed
<1>2. /\ state \in ConnState /\ state.phase = "gap"
      /\ state.live = state.snapshot /\ state.next = conn[c].next
      /\ state.last = conn[c].last /\ state.replayed = conn[c].replayed
  BY <1>1 DEF ConnState, Phases
<1>3. /\ Set(c, state) /\ Idle(c) /\ conn[c].phase = "replay"
      /\ UNCHANGED <<journal, books, router, asked, result, answers>>
  BY DEF Subscribe
<1>4. 1 <= state.next /\ state.last <= Len(journal)
  BY <1>2 DEF Inv, InHand
<1> HIDE DEF state
<1>5. CASE c # Server
  BY <1>2, <1>3, <1>4, <1>5, OtherConn, ToldStays
<1>6. CASE c = Server
  <2>1. Checked(state, Len(books))
    BY <1>2, <1>3, <1>6 DEF Inv, ServerChecked, Checked, Idle
  <2>2. Told'
    BY <1>3 DEF Inv, Told
  <2>3. router' \in Nat /\ router' <= Len(books) /\ asked' \in Event
    BY <1>3, RestTyped
  <2>4. state.phase # "drain" /\ Set(Server, state)
    BY <1>2, <1>3, <1>6
  <2> QED
    BY <1>2, <1>3, <1>4, <2>1, <2>2, <2>3, <2>4, ServerStays
<1> QED
  BY <1>5, <1>6

\* The router starts at the snapshot, which the second connection has reached
\* and the books have too.
LEMMA CloseGapKeeps ==
    ASSUME Inv, NEW c \in Processes, CloseGap(c)
    PROVE  Inv'
<1> DEFINE state == [conn[c] EXCEPT !.phase = "live"]
<1>1. Len(journal) \in Nat /\ Len(books) \in Nat /\ conn[c] \in ConnState
  BY ConnTyped DEF Inv, Typed
<1>2. /\ state \in ConnState /\ state.phase = "live"
      /\ state.live = conn[c].live /\ state.next = conn[c].next
      /\ state.last = conn[c].last
  BY <1>1 DEF ConnState, Phases
<1>3. /\ Set(c, state) /\ Idle(c) /\ conn[c].phase = "gap"
      /\ conn[c].replayed >= conn[c].snapshot
      /\ router' = IF c = Server THEN conn[c].snapshot ELSE router
      /\ UNCHANGED <<journal, books, asked, result, answers>>
  BY DEF CloseGap
<1>4. 1 <= state.next /\ state.last <= Len(journal)
  BY <1>2 DEF Inv, InHand
<1> HIDE DEF state
<1>5. CASE c # Server
  BY <1>2, <1>3, <1>4, <1>5, OtherConn, ToldStays
<1>6. CASE c = Server
  <2>1. /\ conn[c].replayed <= Len(books) /\ conn[c].live = conn[c].snapshot
        /\ conn[c].next > conn[c].last
    BY <1>3, <1>6 DEF Inv, ServerChecked, Checked, Idle
  <2>2. conn[c].snapshot <= Len(books) /\ conn[c].snapshot \in Nat
    BY <1>1, <1>3, <2>1 DEF ConnState
  <2>3. Checked(state, Len(books))
    BY <1>2, <2>1, <2>2 DEF Checked
  <2>4. Told'
    BY <1>3 DEF Inv, Told
  <2>5. router' \in Nat /\ router' <= Len(books) /\ asked' \in Event
    BY <1>3, <1>6, <2>2, RestTyped
  <2>6. state.phase # "drain" /\ Set(Server, state)
    BY <1>2, <1>3, <1>6
  <2> QED
    BY <1>2, <1>3, <1>4, <2>3, <2>4, <2>5, <2>6, ServerStays
<1> QED
  BY <1>5, <1>6
-----------------------------------------------------------------------------
(* The steps of a running process *)

\* A process goes on to another event.
LEMMA Advanced ==
    ASSUME NEW s \in ConnState, NEW n \in Nat
    PROVE  /\ [s EXCEPT !.next = n] \in ConnState
           /\ [s EXCEPT !.next = n].next = n
           /\ [s EXCEPT !.next = n].last = s.last
  BY DEF ConnState

\* What an exchange leaves in the hands of a process that had nothing there.
LEMMA ReceivedOf ==
    ASSUME NEW s \in ConnState, NEW through \in Nat, NEW ok \in BOOLEAN
    PROVE  /\ Received(s, through, ok) \in ConnState
           /\ Received(s, through, ok).phase = "drain"
           /\ Received(s, through, ok).next = s.live + 1
           /\ 1 <= Received(s, through, ok).next
           /\ Received(s, through, ok).last = through
           /\ Received(s, through, ok).live = through
           /\ Received(s, through, ok).usable = ok
<1>1. s.live + 1 \in Nat /\ 1 <= s.live + 1
  BY DEF ConnState
<1>2. Received(s, through, ok) \in ConnState
  <2>1. \A n \in Nat :
          [s EXCEPT !.phase = "drain", !.next = n, !.last = through,
                    !.live = through, !.usable = ok] \in ConnState
    BY DEF ConnState, Phases
  <2> QED
    BY <1>1, <2>1 DEF Received
<1>3. Received(s, through, ok).phase = "drain"
  BY DEF ConnState, Received
<1>4. Received(s, through, ok).next = s.live + 1
  BY DEF ConnState, Received
<1>5. Received(s, through, ok).last = through
  BY DEF ConnState, Received
<1>6. Received(s, through, ok).live = through
  BY DEF ConnState, Received
<1>7. Received(s, through, ok).usable = ok
  BY DEF ConnState, Received
<1> QED
  BY <1>1, <1>2, <1>3, <1>4, <1>5, <1>6, <1>7

\* The three outcomes of an exchange: all events and an answer, a full queue,
\* or some of the events and no answer.
LEMMA ExchangeReceives ==
    ASSUME Inv, NEW c \in Processes, NEW length \in Nat,
           conn[c].live <= length, Exchange(c, length)
    PROVE  \E through \in Nat, ok \in BOOLEAN :
             /\ Set(c, Received(conn[c], through, ok))
             /\ conn[c].live <= through /\ through <= length
             /\ ok => through = length
<1>1. conn[c].live \in Nat /\ Capacity \in Nat
  BY ConnTyped, DeliveryAssumption DEF Inv
<1>2. CASE Set(c, Received(conn[c], length, TRUE))
  <2>1. length <= length /\ TRUE \in BOOLEAN
    OBVIOUS
  <2> QED
    BY <1>2, <2>1
<1>3. CASE /\ length - conn[c].live > Capacity
           /\ Set(c, Received(conn[c], conn[c].live + Capacity, FALSE))
  <2>1. /\ conn[c].live + Capacity \in Nat
        /\ conn[c].live <= conn[c].live + Capacity
        /\ conn[c].live + Capacity <= length
    BY <1>1, <1>3
  <2> QED
    BY <1>3, <2>1
<1>4. CASE \E through \in conn[c].live .. Smaller(length, conn[c].live + Capacity) :
             Set(c, Received(conn[c], through, FALSE))
  <2>1. PICK through \in conn[c].live .. Smaller(length, conn[c].live + Capacity) :
             Set(c, Received(conn[c], through, FALSE))
    BY <1>4
  <2>2. through \in Nat /\ conn[c].live <= through /\ through <= length
    BY <1>1 DEF Smaller
  <2> QED
    BY <2>1, <2>2
<1> QED
  BY <1>2, <1>3, <1>4 DEF Exchange

\* An exchange of the server.  An acceptance, if there is one, is of a share
\* that the journal then has.
LEMMA ServerExchangeKeeps ==
    ASSUME Inv, conn[Server].phase = "live", Idle(Server),
           journal' \in Seq(Event), Len(journal) <= Len(journal'),
           \A i \in 1 .. Len(journal) : journal'[i] = journal[i],
           UNCHANGED <<books, router, asked, answers>>,
           result' = "accepted" /\ asked \in Shares =>
               \E i \in 1 .. Len(journal') : journal'[i] = asked,
           Exchange(Server, Len(journal'))
    PROVE  Inv'
<1>1. /\ Len(journal) \in Nat /\ Len(books) \in Nat /\ Len(journal') \in Nat
      /\ Server \in Processes /\ conn[Server].live \in Nat
  BY ConnTyped DEF Inv, Typed, Processes
<1>2. conn[Server].live <= Len(books) /\ Len(books) <= Len(journal)
  BY DEF Inv, ServerChecked, Checked, Prefix
<1>3. PICK through \in Nat, ok \in BOOLEAN :
        /\ Set(Server, Received(conn[Server], through, ok))
        /\ conn[Server].live <= through /\ through <= Len(journal')
        /\ ok => through = Len(journal')
  BY <1>1, <1>2, ExchangeReceives
<1> DEFINE old == conn[Server]
           state == Received(old, through, ok)
<1>0. old \in ConnState /\ old.live = conn[Server].live
  BY <1>1, ConnTyped DEF Inv
<1> HIDE DEF old
<1>4. /\ state \in ConnState /\ state.phase = "drain"
      /\ state.next = conn[Server].live + 1 /\ 1 <= state.next
      /\ state.last = through /\ state.live = through
      /\ state.usable => through = Len(journal')
  <2>1. state.usable = ok
    BY <1>0, ReceivedOf
  <2>2. state \in ConnState /\ state.phase = "drain"
    BY <1>0, ReceivedOf
  <2>3. state.next = conn[Server].live + 1 /\ 1 <= state.next
    BY <1>0, ReceivedOf
  <2>4. state.last = through
    BY <1>0, ReceivedOf
  <2>5. state.live = through
    BY <1>0, ReceivedOf
  <2> HIDE DEF state
  <2> QED
    BY <1>3, <2>1, <2>2, <2>3, <2>4, <2>5, Zenon
<1> HIDE DEF state
<1>5. Checked(state, Len(books))
  BY <1>1, <1>2, <1>3, <1>4 DEF Checked
<1>6. Told'
  BY DEF Inv, Told
<1>7. Set(Server, state)
  BY <1>3 DEF state, old
<1>8. state.usable /\ result' = "accepted" /\ asked' \in Shares =>
        \E i \in 1 .. state.live : journal'[i] = asked'
  BY <1>3, <1>4
<1> QED
  BY <1>1, <1>3, <1>4, <1>5, <1>6, <1>7, <1>8, ServerConn DEF Inv, Typed

\* The health request, and what arrived with it.
LEMMA HealthKeeps ==
    ASSUME Inv, NEW c \in Processes, Health(c)
    PROVE  Inv'
<1>1. Len(journal) \in Nat /\ conn[c].live \in Nat
  BY ConnTyped DEF Inv, Typed
<1>2. CASE c = Server
  <2>1. asked \notin Shares
    BY <1>2, DeliveryAssumption DEF Health
  <2> QED
    BY <1>1, <1>2, <2>1, ServerExchangeKeeps DEF Health, Inv, Typed
<1>3. CASE c # Server
  <2>1. PICK through \in Nat, ok \in BOOLEAN :
          /\ Set(c, Received(conn[c], through, ok))
          /\ conn[c].live <= through /\ through <= Len(journal)
    BY <1>1, ExchangeReceives DEF Health
  <2> DEFINE state == Received(conn[c], through, ok)
  <2>2. state \in ConnState /\ 1 <= state.next /\ state.last = through
    BY ConnTyped, ReceivedOf DEF Inv
  <2>3. Set(c, state)
    BY <2>1
  <2> HIDE DEF state
  <2> QED
    BY <1>3, <2>1, <2>2, <2>3, OtherConn, ToldStays DEF Health
<1> QED
  BY <1>2, <1>3

\* submit_share: an accepted share is in the journal, where the exchange that
\* brought the answer has passed.
LEMMA SubmitKeeps ==
    ASSUME Inv, Submit
    PROVE  Inv'
<1>1. /\ conn[Server].phase = "live" /\ Idle(Server)
      /\ UNCHANGED <<books, router, asked, answers>>
      /\ journal \in Seq(Event) /\ asked \in Event /\ Len(journal) \in Nat
  BY DEF Submit, Inv, Typed
<1>2. CASE /\ journal' = Append(journal, asked)
           /\ Exchange(Server, Len(journal) + 1)
  <2>1. /\ journal' \in Seq(Event) /\ Len(journal') = Len(journal) + 1
        /\ \A i \in 1 .. Len(journal) : journal'[i] = journal[i]
        /\ journal'[Len(journal) + 1] = asked
    BY <1>1, <1>2, Appended
  <2>2. \E i \in 1 .. Len(journal') : journal'[i] = asked
    BY <1>1, <2>1
  <2>3. Exchange(Server, Len(journal')) /\ Len(journal) <= Len(journal')
    BY <1>1, <1>2, <2>1
  <2> QED
    BY <1>1, <2>1, <2>2, <2>3, ServerExchangeKeeps
<1>3. CASE /\ Committed(asked)
           /\ Exchange(Server, Len(journal)) /\ UNCHANGED journal
  BY <1>1, <1>3, ServerExchangeKeeps DEF Committed
<1>4. CASE /\ result' = "rejected"
           /\ Exchange(Server, Len(journal)) /\ UNCHANGED journal
  BY <1>1, <1>4, ServerExchangeKeeps
<1> QED
  BY <1>2, <1>3, <1>4 DEF Submit

\* The drained server passes its answer on, and an acceptance that it passes on
\* is of a share that the books have.
LEMMA DrainedKeeps ==
    ASSUME Inv, NEW c \in Processes, Drained(c)
    PROVE  Inv'
<1> DEFINE state == [conn[c] EXCEPT !.phase = "live"]
<1>1. Len(journal) \in Nat /\ Len(books) \in Nat /\ conn[c] \in ConnState
  BY ConnTyped DEF Inv, Typed
<1>2. /\ state \in ConnState /\ state.phase = "live"
      /\ state.live = conn[c].live /\ state.next = conn[c].next
      /\ state.last = conn[c].last
  BY <1>1 DEF ConnState, Phases
<1>3. 1 <= state.next /\ state.last <= Len(journal)
  BY <1>2 DEF Inv, InHand
<1>4. CASE ~conn[c].usable
  BY <1>4, StopKeeps DEF Drained
<1>5. CASE conn[c].usable /\ c # Server
  <2>1. Set(c, state) /\ UNCHANGED <<journal, books, router, asked, result>>
    BY <1>5 DEF Drained
  <2>2. Told'
    BY <1>5 DEF Drained, Inv, Told
  <2> HIDE DEF state
  <2> QED
    BY <1>2, <1>3, <1>5, <2>1, <2>2, OtherConn
<1>6. CASE conn[c].usable /\ c = Server
  <2>1. /\ Set(c, state) /\ asked' = NoShare /\ result' = "none"
        /\ UNCHANGED <<journal, books, router>>
        /\ answers' = [s \in Shares |-> answers[s] \union
                         (IF s = asked THEN {result} ELSE {})]
        /\ conn[c].phase = "drain" /\ conn[c].next > conn[c].last
    BY <1>6 DEF Drained, Idle
  <2>2. conn[c].live <= Len(books)
    BY <1>6, <2>1 DEF Inv, ServerChecked, Checked
  <2> HIDE DEF state
  <2>3. Checked(state, Len(books))
    BY <1>2, <2>1, <2>2 DEF Checked
  <2>4. Told'
    <3> SUFFICES ASSUME NEW s \in Shares, "accepted" \in answers'[s]
                 PROVE  \E i \in 1 .. Len(books') : books'[i] = s
      BY DEF Told
    <3>1. CASE "accepted" \in answers[s]
      BY <2>1, <3>1 DEF Inv, Told
    <3>2. CASE "accepted" \notin answers[s]
      <4>1. asked = s /\ result = "accepted"
        BY <2>1, <3>2
      <4>2. PICK i \in 1 .. conn[c].live : journal[i] = s
        BY <1>6, <2>1, <4>1 DEF Inv, AcceptedIsRead
      <4>3. i \in 1 .. Len(books) /\ books[i] = s
        <5>1. conn[c].live \in Nat /\ Len(books) \in Nat
          BY <1>1, RestTyped DEF ConnState
        <5>2. i \in 1 .. Len(books)
          BY <2>2, <5>1
        <5> QED
          BY <4>2, <5>2 DEF Inv, Prefix
      <4> QED
        BY <2>1, <4>3
    <3> QED
      BY <3>1, <3>2
  <2>5. asked' \in Event /\ state.phase # "drain"
    BY <1>2, <2>1 DEF Event
  <2>6. router' \in Nat /\ router' <= Len(books) /\ Set(Server, state)
    BY <1>6, <2>1, RestTyped
  <2> QED
    BY <1>2, <1>3, <2>1, <2>3, <2>4, <2>5, <2>6, ServerStays
<1> QED
  BY <1>4, <1>5, <1>6

\* verify_projected_batch passes, and the router follows.
LEMMA VerifyKeeps ==
    ASSUME Inv, Verify
    PROVE  Inv'
<1> DEFINE state == [conn[Server] EXCEPT !.next = conn[Server].last + 1]
<1>1. /\ Len(journal) \in Nat /\ Len(books) \in Nat
      /\ Server \in Processes /\ conn[Server] \in ConnState
      /\ conn[Server].last \in Nat
  BY ConnTyped DEF Inv, Typed, Processes
<1>2. /\ conn[Server].next <= conn[Server].last
      /\ conn[Server].last <= Len(books) /\ Set(Server, state)
      /\ router' = IF conn[Server].phase = "drain" THEN conn[Server].last ELSE router
      /\ UNCHANGED <<journal, books, asked, result, answers>>
  BY <1>1 DEF Verify, Idle, Booked, ConnState
<1>0. conn[Server].last + 1 \in Nat /\ 1 <= conn[Server].last + 1
  BY <1>1
<1>3. state \in ConnState
  BY <1>0, <1>1, Advanced
<1>4. state.next = conn[Server].last + 1 /\ 1 <= state.next
  <2>1. state.next = conn[Server].last + 1
    BY <1>0, <1>1, Advanced
  <2> QED
    BY <1>0, <2>1
<1>5. /\ state.phase = conn[Server].phase /\ state.last = conn[Server].last
      /\ state.live = conn[Server].live
  BY <1>1 DEF ConnState
<1>6. /\ state.replayed = conn[Server].replayed
      /\ state.snapshot = conn[Server].snapshot
      /\ state.usable = conn[Server].usable
  BY <1>1 DEF ConnState
<1> HIDE DEF state
<1>7. Checked(state, Len(books))
  <2>1. state.next > state.last
    BY <1>1, <1>4, <1>5
  <2>2. ASSUME state.phase \in {"replay", "gap"}
        PROVE  state.replayed <= Len(books)
    <3>1. conn[Server].last = conn[Server].replayed
      <4>1. ~(conn[Server].next > conn[Server].last)
        <5>1. conn[Server].next \in Nat
          BY <1>1 DEF ConnState
        <5> QED
          BY <1>1, <1>2, <5>1
      <4> QED
        BY <1>5, <2>2, <4>1 DEF Inv, ServerChecked, Checked
    <3> QED
      BY <1>2, <1>6, <3>1
  <2>3. state.phase = "gap" => state.live = state.snapshot
    BY <1>5, <1>6 DEF Inv, ServerChecked, Checked
  <2>4. ASSUME state.phase = "drain"
        PROVE  state.last = state.live /\ state.live <= Len(books)
    BY <1>2, <1>5, <2>4 DEF Inv, ServerChecked, Checked
  <2>5. state.phase = "live" => state.live <= Len(books)
    BY <1>5 DEF Inv, ServerChecked, Checked
  <2> QED
    BY <2>1, <2>2, <2>3, <2>4, <2>5 DEF Checked
<1>8. state.phase = "drain" /\ state.usable /\ result' = "accepted"
        /\ asked' \in Shares => \E i \in 1 .. state.live : journal'[i] = asked'
  BY <1>2, <1>5, <1>6 DEF Inv, AcceptedIsRead
<1>9. router' \in Nat /\ router' <= Len(books)
  BY <1>1, <1>2 DEF Inv, Typed
<1>10. state.last <= Len(journal)
  BY <1>1, <1>5 DEF Inv, InHand
<1>11. asked' \in Event /\ Told'
  BY <1>2, RestTyped, ToldStays
<1> QED
  BY <1>2, <1>3, <1>4, <1>7, <1>8, <1>9, <1>10, <1>11, ServerStays

\* project_one books the next event of the journal, or compares, or refuses.
LEMMA ProjectOneKeeps ==
    ASSUME Inv, NEW w \in Writers, ProjectOne(w)
    PROVE  Inv'
<1> DEFINE state == [conn[w] EXCEPT !.next = conn[w].next + 1]
<1>1. /\ Len(journal) \in Nat /\ Len(books) \in Nat
      /\ w \in Processes /\ w # Server /\ conn[w] \in ConnState
      /\ conn[w].next \in Nat /\ conn[w].last \in Nat
  BY ConnTyped, DeliveryAssumption DEF Inv, Typed, Processes
<1>2. conn[w].next <= conn[w].last /\ UNCHANGED journal
  BY <1>1 DEF ProjectOne, Idle
<1>0. conn[w].next + 1 \in Nat
  BY <1>1
<1>3. state \in ConnState
  BY <1>0, <1>1, Advanced
<1>4. state.next = conn[w].next + 1 /\ state.last = conn[w].last
  BY <1>0, <1>1, Advanced
<1>5. 1 <= state.next /\ state.last <= Len(journal)
  BY <1>1, <1>4 DEF Inv, InHand
<1> HIDE DEF state
<1>6. CASE Stop(w) /\ UNCHANGED books
  BY <1>1, <1>2, <1>6, StopKeeps
<1>7. CASE Set(w, state) /\ UNCHANGED <<books, router, asked, result, answers>>
  BY <1>1, <1>2, <1>3, <1>5, <1>7, OtherConn, ToldStays
<1>8. CASE /\ conn[w].next = Len(books) + 1
           /\ books' = Append(books, journal[conn[w].next])
           /\ Set(w, state) /\ UNCHANGED <<router, asked, result, answers>>
  <2> DEFINE e == journal[conn[w].next]
  <2>1. Len(books) + 1 <= Len(journal)
    BY <1>1, <1>2, <1>8 DEF Inv, InHand
  <2>2. e \in Event /\ e = journal[Len(books) + 1]
    BY <1>1, <1>8, <2>1 DEF Inv, Typed
  <2> HIDE DEF e
  <2>3. /\ books' \in Seq(Event) /\ Len(books') = Len(books) + 1
        /\ \A i \in 1 .. Len(books) : books'[i] = books[i]
        /\ books'[Len(books) + 1] = journal[Len(books) + 1]
    BY <1>8, <2>2, Appended DEF Inv, Typed, e
  <2>4. /\ conn' \in [Processes -> ConnState] /\ conn'[Server] = conn[Server]
        /\ \A d \in Processes : conn'[d] = IF d = w THEN state ELSE conn[d]
    BY <1>1, <1>3, <1>8 DEF Inv, Typed, Set, Processes
  <2>5. Typed'
    BY <1>2, <1>8, <2>3, <2>4 DEF Inv, Typed
  <2>6. Prefix'
    <3>1. \A i \in 1 .. Len(books) : books'[i] = journal[i]
      BY <2>3 DEF Inv, Prefix
    <3>2. \A i \in 1 .. Len(books') : i \in 1 .. Len(books) \/ i = Len(books) + 1
      BY <1>1, <2>3
    <3> QED
      BY <1>2, <2>1, <2>3, <3>1, <3>2 DEF Prefix
  <2>7. InHand'
    BY <1>2, <1>5, <2>4 DEF Inv, InHand
  <2>8. conn[Server] \in ConnState
    BY <1>1, ConnTyped DEF Inv, Processes
  <2>9. ServerChecked'
    <3>1. Checked(conn[Server], Len(books) + 1)
      <4>1. conn[Server].replayed \in Nat /\ conn[Server].live \in Nat
        BY <2>8 DEF ConnState
      <4>2. /\ conn[Server].replayed <= Len(books) =>
                  conn[Server].replayed <= Len(books) + 1
            /\ conn[Server].live <= Len(books) =>
                  conn[Server].live <= Len(books) + 1
        BY <1>1, <4>1
      <4> QED
        BY <4>2 DEF Inv, ServerChecked, Checked
    <3> QED
      BY <2>3, <2>4, <3>1 DEF ServerChecked
  <2>10. AcceptedIsRead'
    BY <1>2, <1>8, <2>4 DEF Inv, AcceptedIsRead
  <2>11. (router <= Len(books))'
    <3>1. router \in Nat /\ router <= Len(books) /\ router' = router
      BY <1>8 DEF Inv, Typed
    <3>2. Len(books') = Len(books) + 1
      BY <2>3
    <3> QED
      BY <1>1, <3>1, <3>2
  <2>12. Told'
    <3>1. \A i \in 1 .. Len(books) : i \in 1 .. Len(books')
      BY <1>1, <2>3
    <3> QED
      BY <1>8, <2>3, <3>1 DEF Inv, Told
  <2> QED
    BY <2>5, <2>6, <2>7, <2>9, <2>10, <2>11, <2>12 DEF Inv
<1> QED
  BY <1>1, <1>6, <1>7, <1>8 DEF ProjectOne, state

\* The journal grows, which what was true of its beginning survives.
LEMMA OtherEventKeeps ==
    ASSUME Inv, OtherEvent
    PROVE  Inv'
<1>1. /\ Len(journal) \in Nat /\ Len(books) \in Nat /\ NoShare \in Event
      /\ journal' = Append(journal, NoShare)
      /\ UNCHANGED <<books, conn, router, asked, result, answers>>
  BY DEF OtherEvent, Inv, Typed, Event
<1>2. /\ journal' \in Seq(Event) /\ Len(journal') = Len(journal) + 1
      /\ \A i \in 1 .. Len(journal) : journal'[i] = journal[i]
  BY <1>1, Appended DEF Inv, Typed
<1>3. Typed'
  BY <1>1, <1>2 DEF Inv, Typed
<1>4. Prefix'
  BY <1>1, <1>2 DEF Inv, Prefix
<1>5. InHand'
  <2>1. \A c \in Processes : conn[c].last \in Nat
    BY ConnTyped DEF Inv
  <2> QED
    BY <1>1, <1>2, <2>1 DEF Inv, InHand
<1>6. ServerChecked' /\ Told' /\ (router <= Len(books))'
  BY <1>1 DEF Inv, ServerChecked, Told
<1>7. AcceptedIsRead'
  <2> SUFFICES ASSUME conn[Server].phase = "drain", conn[Server].usable,
                      result = "accepted", asked \in Shares
               PROVE  \E i \in 1 .. conn[Server].live : journal'[i] = asked
    BY <1>1 DEF AcceptedIsRead
  <2>1. PICK i \in 1 .. conn[Server].live : journal[i] = asked
    BY DEF Inv, AcceptedIsRead
  <2>2. Server \in Processes /\ conn[Server].live \in Nat
    BY ConnTyped DEF Inv, Processes
  <2>3. conn[Server].live <= Len(journal)
    BY <2>2 DEF Inv, ServerChecked, Checked, InHand
  <2> QED
    BY <1>1, <1>2, <2>1, <2>2, <2>3
<1> QED
  BY <1>3, <1>4, <1>5, <1>6, <1>7 DEF Inv
-----------------------------------------------------------------------------
(* The theorem *)

\* No connection has received anything at first.
LEMMA InitImpliesInv == Init => Inv
<1> SUFFICES ASSUME Init PROVE Inv
  OBVIOUS
<1>1. Typed
  BY DownTyped DEF Init, Typed, Event
<1>2. Prefix /\ InHand
  BY DownTyped DEF Init, Prefix, InHand
<1>3. conn[Server] = Down
  BY DEF Init, Processes
<1>4. ServerChecked /\ AcceptedIsRead
  BY <1>3, DownTyped DEF ServerChecked, Checked, AcceptedIsRead
<1>5. router <= Len(books) /\ Told
  BY DEF Init, Told
<1> QED
  BY <1>1, <1>2, <1>4, <1>5 DEF Inv

\* Every step of the pool and of its clients keeps the invariant.
LEMMA InvIsInductive == Inv /\ [Next]_vars => Inv'
<1> SUFFICES ASSUME Inv, [Next]_vars PROVE Inv'
  OBVIOUS
<1>1. ASSUME NEW c \in Processes, Advance(c) PROVE Inv'
  BY <1>1, ConnectKeeps, ReplayToEndKeeps, SubscribeKeeps, ReplayThroughKeeps,
     CloseGapKeeps, HealthKeeps, DrainedKeeps DEF Advance
<1>2. ASSUME NEW c \in Processes, Fails(c) PROVE Inv'
  BY <1>2, StopKeeps DEF Fails
<1>3. ASSUME NEW w \in Writers, ProjectOne(w) PROVE Inv'
  BY <1>3, ProjectOneKeeps
<1>4. CASE Verify
  BY <1>4, VerifyKeeps
<1>5. CASE Submit
  BY <1>5, SubmitKeeps
<1>6. CASE OtherEvent
  BY <1>6, OtherEventKeeps
<1>7. ASSUME NEW s \in Shares, Enter(s) PROVE Inv'
  <2>1. conn[Server].phase = "live" /\ asked' = s
        /\ UNCHANGED <<journal, books, conn, router, result, answers>>
    BY <1>7 DEF Enter
  <2>2. Typed' /\ Prefix' /\ InHand'
    BY <2>1 DEF Inv, Typed, Prefix, InHand, Event
  <2>3. ServerChecked' /\ AcceptedIsRead'
    BY <2>1 DEF Inv, ServerChecked, AcceptedIsRead
  <2>4. Told' /\ (router <= Len(books))'
    BY <2>1 DEF Inv, Told
  <2> QED
    BY <2>2, <2>3, <2>4 DEF Inv
<1>8. CASE UNCHANGED vars
  BY <1>8 DEF vars, Inv, Typed, Prefix, InHand, ServerChecked, AcceptedIsRead,
              Told
<1> QED
  BY <1>1, <1>2, <1>3, <1>4, <1>5, <1>6, <1>7, <1>8 DEF Next

\* The books come first (BooksComeFirst): whatever connections and processes
\* fail and however projectors overlap, the books follow the journal event by
\* event, the job router follows only what is booked, and a miner who was told
\* that a share is accepted finds it in the books.
THEOREM BooksAlwaysComeFirst == Spec => []BooksComeFirst
<1>1. Inv => BooksComeFirst
  <2> SUFFICES ASSUME Inv PROVE BooksComeFirst
    OBVIOUS
  <2>1. NothingLeadsTheBooks
    BY DEF Inv, Told, NothingLeadsTheBooks
  <2>2. BooksAreTheJournal
    BY PrefixIsSubSeq DEF Inv, Typed, Prefix, BooksAreTheJournal
  <2> QED
    BY <2>1, <2>2 DEF BooksComeFirst
<1> QED
  BY <1>1, InitImpliesInv, InvIsInductive, PTL DEF Spec
=============================================================================

--------------------------- MODULE JournalDelivery ---------------------------
(***************************************************************************)
(* How the backend's journal reaches the pool: projector processes write   *)
(* it into the accounting books, and the serving process checks that they  *)
(* did before its job router follows an event or a miner hears that a      *)
(* share was accepted.  Each process has connections of its own: it        *)
(* replays the journal page by page, subscribes at a snapshot, replays on  *)
(* a second connection what was appended in between, and then receives     *)
(* events with the answers to its requests.                                *)
(*                                                                         *)
(* The backend and its journal are external: an append-only sequence of    *)
(* committed shares and other events, delivered in order.                  *)
(***************************************************************************)
EXTENDS Naturals, Sequences, FiniteSets

CONSTANTS
    Writers,     \* projector processes
    Server,      \* the serving process
    Shares,      \* shares that miners find
    NoShare,
    PageSize,    \* REPLAY_PAGE_ITEMS
    Capacity,    \* event queue of a connection
    MaxOther,    \* bound: journal events other than shares
    MaxSubmits,  \* bound: submissions by miners
    MaxFaults    \* bound: lost connections, timeouts and deaths

ASSUME DeliveryAssumption ==
    /\ Server \notin Writers
    /\ NoShare \notin Shares
    /\ {PageSize, Capacity} \subseteq Nat \ {0}

VARIABLES
    journal,    \* the backend's events
    books,      \* backend_events of the deployment, in order
    conn,       \* the connection state of each process
    router,     \* the event that the job router has followed
    asked,      \* the share that the server's actor is working on
    result,     \* what the backend answered, not yet passed on
    answers,    \* what miners were told about each share
    submits, faults

vars == <<journal, books, conn, router, asked, result, answers, submits,
          faults>>

Processes == Writers \union {Server}

Event == Shares \union {NoShare}

Down == [phase |-> "down", replayed |-> 0, complete |-> FALSE, snapshot |-> 0,
         live |-> 0, next |-> 1, last |-> 0, usable |-> FALSE]

Init ==
    /\ journal = <<>> /\ books = <<>>
    /\ conn = [c \in Processes |-> Down]
    /\ router = 0
    /\ asked = NoShare /\ result = "none"
    /\ answers = [s \in Shares |-> {}]
    /\ submits = 0 /\ faults = 0

Smaller(a, b) == IF a < b THEN a ELSE b

Set(c, state) == conn' = [conn EXCEPT ![c] = state]

\* The batch in hand: events next..last of the journal.
Idle(c) == conn[c].next > conn[c].last

\* A process gives up; a share in its hands is answered "unavailable", and the
\* router is suspended and built anew by the next start.
Stop(c) ==
    /\ Set(c, Down)
    /\ IF c = Server
       THEN /\ router' = 0 /\ asked' = NoShare /\ result' = "none"
            /\ answers' = [s \in Shares |->
                 answers[s] \union (IF s = asked THEN {"unavailable"} ELSE {})]
       ELSE UNCHANGED <<router, asked, result, answers>>

Fails(c) ==
    /\ conn[c].phase # "down" /\ faults < MaxFaults
    /\ faults' = faults + 1
    /\ Stop(c)
    /\ UNCHANGED <<journal, books, submits>>
-----------------------------------------------------------------------------
\* verify_hello: the identities agree, and the journal is not behind the books.
HelloAgrees == Len(books) <= Len(journal)

\* last_event_seq, then the hello exchange.
Connect(c) ==
    /\ conn[c].phase = "down" /\ HelloAgrees
    /\ Set(c, [Down EXCEPT !.phase = "replay", !.replayed = Len(books),
                           !.complete = Len(books) = Len(journal),
                           !.usable = TRUE])
    /\ UNCHANGED <<journal, books, router, asked, result, answers, submits,
                   faults>>

\* read_events: a page from the exact cursor.
Page(s) ==
    LET end == Smaller(s.replayed + PageSize, Len(journal))
    IN  [s EXCEPT !.replayed = end, !.next = s.replayed + 1, !.last = end]

\* One turn of replay_to_end: the page is projected, or verified, before the
\* next is read.
ReplayToEnd(c) ==
    LET page == Page(conn[c])
    IN  /\ conn[c].phase = "replay" /\ Idle(c) /\ ~conn[c].complete
        /\ Set(c, [page EXCEPT !.complete = page.replayed = Len(journal)])
        /\ UNCHANGED <<journal, books, router, asked, result, answers,
                       submits, faults>>

\* subscribe_jobs: the live stream starts after the snapshot.
Subscribe(c) ==
    LET s == conn[c]
    IN  /\ s.phase = "replay" /\ Idle(c) /\ s.complete
        /\ Set(c, [s EXCEPT !.phase = "gap", !.snapshot = Len(journal),
                            !.live = Len(journal)])
        /\ UNCHANGED <<journal, books, router, asked, result, answers,
                       submits, faults>>

\* A plausible bug: the stream is taken to start where the replay ended.
CloseGapHoping(c) ==
    LET s == conn[c]
    IN  /\ s.phase = "gap" /\ Idle(c)
        /\ Set(c, [s EXCEPT !.phase = "live"])
        /\ router' = IF c = Server THEN s.snapshot ELSE router
        /\ UNCHANGED <<journal, books, asked, result, answers, submits,
                       faults>>

\* The router is built from the snapshot when the second connection has
\* replayed up to it.
CloseGap(c) ==
    LET s == conn[c]
    IN  /\ s.phase = "gap" /\ Idle(c) /\ s.replayed >= s.snapshot
        /\ Set(c, [s EXCEPT !.phase = "live"])
        /\ router' = IF c = Server THEN s.snapshot ELSE router
        /\ UNCHANGED <<journal, books, asked, result, answers, submits,
                       faults>>

\* One turn of replay_through, on a second connection: pages up to the
\* snapshot or past it.
ReplayThrough(c) ==
    LET s == conn[c]
    IN  /\ s.phase = "gap" /\ Idle(c) /\ s.replayed < s.snapshot
        /\ Set(c, Page(s))
        /\ UNCHANGED <<journal, books, router, asked, result, answers,
                       submits, faults>>
-----------------------------------------------------------------------------
\* project_one: one event, one transaction, under a lock on the cursor.  An
\* event below the cursor is compared, one beyond the next is refused.
ProjectOne(w) ==
    LET s == conn[w]
    IN  /\ w \in Writers /\ ~Idle(w)
        /\ CASE s.next <= Len(books) ->
                  /\ books[s.next] = journal[s.next]
                  /\ Set(w, [s EXCEPT !.next = s.next + 1])
                  /\ UNCHANGED <<books, router, asked, result, answers>>
             [] s.next = Len(books) + 1 ->
                  /\ books' = Append(books, journal[s.next])
                  /\ Set(w, [s EXCEPT !.next = s.next + 1])
                  /\ UNCHANGED <<router, asked, result, answers>>
             [] OTHER -> Stop(w) /\ UNCHANGED books
        /\ UNCHANGED <<journal, submits, faults>>

\* A plausible bug: the batch is passed on when its first event is booked.
BookedFirst(s) == s.next <= Len(books)

\* verify_projected_batch, a read of the cursor and of every event's hash.
Booked(s) ==
    /\ s.last <= Len(books)
    /\ \A i \in s.next..s.last : books[i] = journal[i]

\* The server waits for the projector: acknowledge_event_batch retries within
\* its deadline, the replay of a start fails (both are Fails).  Then the live
\* events are applied to the router.
Verify ==
    LET s == conn[Server]
    IN  /\ ~Idle(Server)
        /\ Booked(s)
        /\ Set(Server, [s EXCEPT !.next = s.last + 1])
        /\ router' = IF s.phase = "drain" THEN s.last ELSE router
        /\ UNCHANGED <<journal, books, asked, result, answers, submits,
                       faults>>
-----------------------------------------------------------------------------
\* What an exchange leaves behind: the events that arrived before the answer,
\* at most as many as the queue holds, and whether an answer arrived.
Received(s, through, ok) ==
    [s EXCEPT !.phase = "drain", !.next = s.live + 1, !.last = through,
              !.live = through, !.usable = ok]

Exchange(c, length) ==
    LET s == conn[c]
    IN  \/ /\ length - s.live <= Capacity
           /\ Set(c, Received(s, length, TRUE))
           /\ UNCHANGED faults
        \/ /\ length - s.live > Capacity  \* EventQueueFull
           /\ Set(c, Received(s, s.live + Capacity, FALSE))
           /\ UNCHANGED faults
        \/ /\ faults < MaxFaults
           /\ \E through \in s.live..Smaller(length, s.live + Capacity) :
                Set(c, Received(s, through, FALSE))
           /\ faults' = faults + 1

\* The periodic health request; whatever arrived is drained even if it fails.
Health(c) ==
    /\ conn[c].phase = "live" /\ Idle(c)
    /\ c = Server => asked = NoShare
    /\ conn[c].live < Len(journal)
    /\ Exchange(c, Len(journal))
    /\ UNCHANGED <<journal, books, router, asked, result, answers, submits>>

PositionOf(s) == CHOOSE i \in 1..Len(journal) : journal[i] = s

Committed(s) == \E i \in 1..Len(journal) : journal[i] = s

\* require_matching_share_event of a replayed receipt: the event is among
\* those that this connection still remembers.
Remembered(s, position) ==
    position > s.snapshot /\ position + Capacity > s.live

\* A miner's share enters the actor.
Enter(s) ==
    /\ conn[Server].phase = "live" /\ Idle(Server) /\ asked = NoShare
    /\ "accepted" \notin answers[s]
    /\ submits < MaxSubmits
    /\ asked' = s /\ submits' = submits + 1
    /\ UNCHANGED <<journal, books, conn, router, result, answers, faults>>

\* submit_share: committed now, known already, or refused.
Submit ==
    /\ conn[Server].phase = "live" /\ Idle(Server) /\ asked # NoShare
    /\ \/ /\ ~Committed(asked)
          /\ journal' = Append(journal, asked)
          /\ result' = "accepted"
          /\ Exchange(Server, Len(journal) + 1)
       \/ /\ Committed(asked)
          /\ result' = IF Remembered(conn[Server], PositionOf(asked))
                          \/ PositionOf(asked) > conn[Server].live
                       THEN "accepted" ELSE "pending"
          /\ Exchange(Server, Len(journal))
          /\ UNCHANGED journal
       \/ /\ ~Committed(asked)
          /\ result' = "rejected"
          /\ Exchange(Server, Len(journal))
          /\ UNCHANGED journal
    /\ UNCHANGED <<books, router, asked, answers, submits>>

\* The drained process goes on, a submitted share is answered; a connection
\* that did not answer is given up.
Drained(c) ==
    /\ conn[c].phase = "drain" /\ Idle(c)
    /\ IF conn[c].usable
       THEN /\ Set(c, [conn[c] EXCEPT !.phase = "live"])
            /\ asked' = IF c = Server THEN NoShare ELSE asked
            /\ result' = IF c = Server THEN "none" ELSE result
            /\ answers' = [s \in Shares |-> answers[s] \union
                 (IF c = Server /\ s = asked THEN {result} ELSE {})]
            /\ UNCHANGED router
       ELSE Stop(c)
    /\ UNCHANGED <<journal, books, submits, faults>>

\* External: the backend journals something else.
OtherEvent ==
    /\ Cardinality({i \in 1..Len(journal) : journal[i] = NoShare}) < MaxOther
    /\ journal' = Append(journal, NoShare)
    /\ UNCHANGED <<books, conn, router, asked, result, answers, submits,
                   faults>>

Advance(c) ==
    \/ Connect(c) \/ ReplayToEnd(c) \/ Subscribe(c) \/ ReplayThrough(c)
    \/ CloseGap(c)
    \/ Health(c) \/ Drained(c)

Next ==
    \/ \E c \in Processes : Advance(c) \/ Fails(c)
    \/ \E w \in Writers : ProjectOne(w)
    \/ Verify \/ Submit \/ OtherEvent
    \/ \E s \in Shares : Enter(s)

Spec == Init /\ [][Next]_vars
-----------------------------------------------------------------------------
\* What the pool knows, the books know: the job router never follows an event
\* that is not durably projected, and a share that a miner was told is
\* accepted is in the books, whatever connections and processes fail.
NothingLeadsTheBooks ==
    /\ router <= Len(books)
    /\ \A s \in Shares : "accepted" \in answers[s] =>
           \E i \in 1..Len(books) : books[i] = s

\* The books are the journal: no event is skipped, repeated or exchanged by
\* replays, gaps, restarts and overlapping projectors.
BooksAreTheJournal ==
    /\ Len(books) <= Len(journal)
    /\ books = SubSeq(journal, 1, Len(books))

\* Every journaled event is booked in the end: whenever the journal rests, the
\* projectors' replays and live streams catch up with it.
JournalIsBooked == []<>(Len(books) = Len(journal))

\* The miner of every share that the submission actor took gets an answer,
\* also when the connection, the projector or the process fails.
SharesAreAnswered == (asked # NoShare) ~> (asked = NoShare)

\* The books come first: they follow the journal event by event, and neither
\* the job router nor a miner's answer is ahead of them.
BooksComeFirst == NothingLeadsTheBooks /\ BooksAreTheJournal

\* Nothing is left behind: neither an event of the journal nor a miner who
\* waits for an answer.
NothingIsLeftBehind == JournalIsBooked /\ SharesAreAnswered
=============================================================================

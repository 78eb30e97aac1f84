--------------------------- MODULE JobEventStream ---------------------------
(***************************************************************************)
(* One job's events on their way to one client of GET /:id/events          *)
(* (src/server/src/routes/jobs.ts, job-sse-session.ts, runtime.publish,    *)
(* repository-events.ts and retainEvents).                                 *)
(*                                                                         *)
(* A commit appends an event and, in the same callback, offers every event *)
(* still stored to the subscriber.  The session replays the stored events, *)
(* then the ones buffered meanwhile, then goes live; it writes one frame   *)
(* at a time and every write may block, so anything may happen while one   *)
(* is in flight.  Frames reach the client through wire, whose content is   *)
(* lost with the connection; the client reconnects with the id of the last *)
(* event it read, or from scratch after a 409.  An event is its sequence   *)
(* number.                                                                 *)
(***************************************************************************)
EXTENDS Naturals, FiniteSets, Sequences, SequencesExt

CONSTANTS
  MaxEvents,    \* bound: events committed in a behaviour
  MaxBuffered   \* maxBufferedEvents

ASSUME StreamAssumption == MaxEvents \in Nat /\ MaxBuffered \in Nat

EventKinds == {"state", "progress", "terminal"}

VARIABLES
  log,     \* the kinds of the events committed so far
  mark,    \* minimum_resume_sequence, 0 if there is none
  sess,    \* the server's end of the connection
  wire,    \* frames written and not yet read
  cursor,  \* the client's last event id, 0 for none
  got,     \* events read since the client last started from scratch
  base     \* mark when it did

vars == <<log, mark, sess, wire, cursor, got, base>>

Stored(n) == log[n] # "progress" \/ n >= mark

\* Every event n of the log, times[n] times, in the order of the log.
InLogOrder(times) ==
  LET upTo[n \in 0 .. Len(log)] ==
        IF n = 0 THEN <<>> ELSE upTo[n - 1] \o [i \in 1 .. times[n] |-> n]
  IN upTo[Len(log)]

StoredAfter(n) == InLogOrder([i \in 1 .. Len(log) |-> IF i > n /\ Stored(i) THEN 1 ELSE 0])
JobOver == log[Len(log)] = "terminal"

\* stage: "none" without a connection; "replay" and "batch" for the two loops
\* of replay(), "live" once it has returned.  frame is what the write in
\* flight carries: an event, or 0 for a heartbeat or an event already sent.
NoSession ==
  [stage |-> "none", subscribed |-> FALSE, replaying |-> FALSE, todo |-> <<>>, latest |-> 0,
   buffered |-> <<>>, pending |-> <<>>, writer |-> "none", frame |-> 0,
   signalling |-> FALSE, overflowed |-> FALSE, terminal |-> FALSE, stopped |-> FALSE]

Init ==
  /\ log = <<"state">> /\ mark = 0   \* "queued"
  /\ sess = NoSession /\ wire = <<>>
  /\ cursor = 0 /\ got = {} /\ base = 0

Over(s)    == s.overflowed \/ s.terminal
Writing(s) == s.writer # "none" \/ s.signalling

\* Mutant: the sequence number is not compared.
Send_Always(s, writer, n) == [s EXCEPT !.writer = writer, !.frame = n, !.latest = n]

\* send, up to its write: an event already sent is passed over.
Send(s, writer, n) ==
  IF n <= s.latest THEN [s EXCEPT !.writer = writer, !.frame = 0]
  ELSE [s EXCEPT !.writer = writer, !.frame = n, !.latest = n]

\* One turn of the loop of drain().
DrainNext(s) ==
  IF s.pending # <<>> /\ ~Over(s)
  THEN Send([s EXCEPT !.pending = Tail(@)], "drain", Head(s.pending))
  ELSE [s EXCEPT !.writer = "none", !.frame = 0]

\* stop() ends the subscription at once; the stream closes later.
Stopped(s) == [s EXCEPT !.stopped = TRUE, !.subscribed = FALSE]

Dropped(s) == [s EXCEPT !.overflowed = TRUE, !.pending = <<>>, !.buffered = <<>>]

\* Mutant: the session does not stop while a frame is in flight.
Overflow_NoStop(s) ==
  IF Writing(s) THEN Dropped(s) ELSE [Dropped(s) EXCEPT !.signalling = TRUE]

\* While a frame is in flight the session stops without telling the client.
Overflow(s) ==
  IF Writing(s) THEN Stopped(Dropped(s)) ELSE [Dropped(s) EXCEPT !.signalling = TRUE]

Buffer(s, n) == [s EXCEPT !.buffered = Append(@, n)]

Push(s, n) ==
  LET pushed == [s EXCEPT !.pending = Append(@, n)]
  IN IF Writing(s) THEN pushed ELSE DrainNext(pushed)

Receive(s, n) ==
  IF ~s.subscribed \/ Over(s) THEN s
  ELSE IF Len(IF s.replaying THEN s.buffered ELSE s.pending) >= MaxBuffered THEN Overflow(s)
  ELSE IF s.replaying THEN Buffer(s, n) ELSE Push(s, n)

\* The events of a publication are received one after the other.
Offer(s, events) ==
  LET after[i \in 0 .. Len(events)] == IF i = 0 THEN s ELSE Receive(after[i - 1], events[i])
  IN after[Len(events)]

-----------------------------------------------------------------------------
(***************************************************************************)
(* The job's side.                                                         *)
(***************************************************************************)

\* publish offers the whole log, not only what is new.
Commit(kind) ==
  /\ Len(log) < MaxEvents /\ ~JobOver
  /\ log' = Append(log, kind)
  /\ sess' = Offer(sess, Append(StoredAfter(0), Len(log) + 1))
  /\ UNCHANGED <<mark, wire, cursor, got, base>>

\* The scheduler publishes once more when an attempt is over.
Republish ==
  /\ sess' = Offer(sess, StoredAfter(0))
  /\ UNCHANGED <<log, mark, wire, cursor, got, base>>

\* retainEvents deletes the oldest progress events, n being the last of them.
Retain(n) ==
  /\ log[n] = "progress" /\ Stored(n)
  /\ mark' = n + 1
  /\ UNCHANGED <<log, sess, wire, cursor, got, base>>

-----------------------------------------------------------------------------
(***************************************************************************)
(* The connection.                                                         *)
(***************************************************************************)

\* Mutant: only the id is looked up, the watermark is not.
CursorLost_IdOnly == cursor # 0 /\ ~Stored(cursor)

CursorLost == cursor # 0 /\ (~Stored(cursor) \/ cursor < mark)

Connect ==
  /\ sess.stage = "none" /\ ~CursorLost
  /\ ~(JobOver /\ Len(log) \in got)
  /\ sess' = [NoSession EXCEPT !.stage = "replay", !.replaying = TRUE, !.subscribed = ~JobOver,
                               !.todo = StoredAfter(cursor), !.latest = cursor]
  /\ base' = IF cursor = 0 THEN mark ELSE base
  /\ got' = IF cursor = 0 THEN {} ELSE got
  /\ UNCHANGED <<log, mark, wire, cursor>>

\* EVENT_REPLAY_GAP: the client forgets its cursor.
Reset ==
  /\ sess.stage = "none" /\ CursorLost
  /\ cursor' = 0 /\ got' = {} /\ base' = mark
  /\ UNCHANGED <<log, mark, sess, wire>>

\* The sort of a batch: what was offered twice is in it twice.
BySequence(s) == InLogOrder([n \in 1 .. Len(log) |-> Cardinality({i \in DOMAIN s : s[i] = n})])

\* Mutant: what was buffered during the replay is not looked at again.
ReplayEnds_Once(s) == [s EXCEPT !.stage = "live", !.replaying = FALSE]

\* The end of a for loop of replay(): the next batch, or the live phase.
ReplayEnds(s) ==
  IF s.buffered # <<>> /\ ~Over(s)
  THEN [s EXCEPT !.stage = "batch", !.buffered = <<>>,
                 !.todo = BySequence(s.buffered)]
  ELSE [s EXCEPT !.stage = "live", !.replaying = FALSE]

\* The first loop gives up once the session is over, a batch does not.
ReplayStep ==
  /\ sess.stage \in {"replay", "batch"} /\ sess.writer = "none"
  /\ sess' = IF sess.stage = "replay" /\ Over(sess) /\ sess.todo # <<>>
             THEN [sess EXCEPT !.stage = "live", !.todo = <<>>]
             ELSE IF sess.todo = <<>> THEN ReplayEnds(sess)
             ELSE Send([sess EXCEPT !.todo = Tail(@)], "replay", Head(sess.todo))
  /\ UNCHANGED <<log, mark, wire, cursor, got, base>>

\* The route's loop calls heartbeat() again and again; it does nothing
\* while something is being written or waits to be.
Heartbeat ==
  /\ sess.stage = "live" /\ sess.subscribed /\ ~sess.stopped /\ ~Over(sess)
  /\ ~Writing(sess) /\ sess.pending = <<>>
  /\ sess' = [sess EXCEPT !.writer = "heartbeat", !.frame = 0]
  /\ UNCHANGED <<log, mark, wire, cursor, got, base>>

\* The write in flight is done.
Written ==
  /\ sess.writer # "none"
  /\ LET sent == IF sess.frame # 0 /\ log[sess.frame] = "terminal"
                 THEN [sess EXCEPT !.terminal = TRUE] ELSE sess
     IN sess' = IF sess.writer = "drain" THEN DrainNext(sent)
                ELSE [sent EXCEPT !.writer = "none", !.frame = 0]
  /\ wire' = IF sess.frame = 0 THEN wire ELSE Append(wire, sess.frame)
  /\ UNCHANGED <<log, mark, cursor, got, base>>

\* The replay_required frame is written.
Signalled ==
  /\ sess.signalling
  /\ sess' = [Stopped(sess) EXCEPT !.signalling = FALSE]
  /\ UNCHANGED <<log, mark, wire, cursor, got, base>>

\* The route returns: its loop has ended, or there was nothing to
\* subscribe to.  A frame in flight still gets out.
Close ==
  /\ sess.stage = "live" /\ sess.writer # "heartbeat"
  /\ sess.stopped \/ sess.terminal \/ ~sess.subscribed
  /\ sess' = [NoSession EXCEPT !.stage = "closed"]
  /\ wire' = IF sess.frame = 0 THEN wire ELSE Append(wire, sess.frame)
  /\ UNCHANGED <<log, mark, cursor, got, base>>

\* The client reads a frame, or the end of the stream after the last one.
Read ==
  /\ wire # <<>>
  /\ cursor' = Head(wire) /\ got' = got \cup {Head(wire)} /\ wire' = Tail(wire)
  /\ UNCHANGED <<log, mark, sess, base>>

ReadEnd ==
  /\ sess.stage = "closed" /\ wire = <<>>
  /\ sess' = NoSession
  /\ UNCHANGED <<log, mark, wire, cursor, got, base>>

\* The connection breaks; what was on the wire is lost.
Disconnect ==
  /\ sess.stage # "none"
  /\ sess' = NoSession /\ wire' = <<>>
  /\ UNCHANGED <<log, mark, cursor, got, base>>

Server == ReplayStep \/ Written \/ Signalled \/ Close
Client == Read \/ ReadEnd

Next ==
  \/ \E kind \in EventKinds : Commit(kind)
  \/ Republish
  \/ \E n \in 1 .. Len(log) : Retain(n)
  \/ Connect \/ Reset \/ Heartbeat \/ Disconnect
  \/ Server \/ Client

\* Writes get done and the client reads; nobody has to connect, and nothing
\* more need ever be committed.
Spec == Init /\ [][Next]_vars /\ WF_vars(Server) /\ WF_vars(Client)

-----------------------------------------------------------------------------
(***************************************************************************)
(* Correctness.                                                            *)
(***************************************************************************)

Numbers == 1 .. MaxEvents

TypeOK ==
  /\ log \in BoundedSeq(EventKinds, MaxEvents)
  /\ mark \in 0 .. MaxEvents + 1
  /\ sess.stage \in {"none", "replay", "batch", "live", "closed"}
  /\ sess.writer \in {"none", "replay", "drain", "heartbeat"}
  /\ {sess.frame, sess.latest, cursor} \subseteq Numbers \cup {0}
  /\ Len(sess.buffered) <= MaxBuffered /\ Len(sess.pending) <= MaxBuffered
  /\ ToSet(wire) \cup got \subseteq Numbers

\* The client has read every event up to its cursor, over any number of
\* lost connections, overflows and prunings, but for progress events that were
\* already deleted when it last started from scratch.
NoSilentGap ==
  \A n \in 1 .. cursor : n \in got \/ (log[n] = "progress" /\ n < base)

\* The events a session has still in its hands; what is left in buffered
\* after the replay would never be looked at again.
OnTheirWay ==
  ToSet(wire) \cup {sess.frame} \cup ToSet(sess.todo)
    \cup ToSet(IF sess.replaying THEN sess.buffered ELSE sess.pending)

\* Every stored event above the cursor is on its way through a session that is
\* not over: nothing falls between replay, buffers and the live phase.
NothingDropped ==
  sess.subscribed /\ ~Over(sess) =>
    \A n \in 1 .. Len(log) : n > cursor /\ Stored(n) => n \in OnTheirWay

\* What a stream may leave out its client learns of, and it keeps the rest.
StreamSound == NoSilentGap /\ NothingDropped

\* The client reads events in the order of the log and none twice; only a
\* 409 takes its cursor back.
InOrder == [][cursor' > cursor \/ (cursor' = 0 /\ CursorLost)]_cursor

\* What is stored when a client connects reaches it, or the connection ends.
ReplayDelivers ==
  \A n \in Numbers : n \in ToSet(sess.todo) ~> n \in got \/ sess.stage \in {"none", "closed"}

\* The last event of a job reaches a client that is connected and reads, and
\* its stream closes.  The code does not do this: see the README.
TerminalDelivered == sess.stage # "none" /\ JobOver ~> sess.stage \in {"none", "closed"}
=============================================================================

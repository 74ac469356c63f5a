------------------------------ MODULE AuditLog ------------------------------
(***************************************************************************)
(* The audit log (crates/seamless-relay/src/audit.rs): every event goes to *)
(* an in-memory ring that the admin API queries, and through a bounded     *)
(* channel to the writer task, which appends it to a file and renames that *)
(* file at the first write of a new day.                                   *)
(*                                                                         *)
(* Events are numbered in the order audit_event! stamps them.  emit is cut *)
(* at the ring's lock, the only point where two callers meet; the writer   *)
(* is cut at its awaits.  A line and its newline are two writes, so a disk *)
(* fault or a crash may leave a line without its end (`torn`), to which    *)
(* the next line is then glued.  tokio's File writes behind: write_all     *)
(* returns once the bytes are on their way, and a failure is reported by   *)
(* the next call on the handle.  So a line's failure comes with its own    *)
(* newline, and a newline's with the next event (`write_err`).          *)
(* SIGTERM ends the process without waiting for the writer: for this       *)
(* module it is a crash.                                                   *)
(***************************************************************************)
EXTENDS Naturals, FiniteSets, Sequences, SequencesExt

CONSTANTS
    Emitters,      \* tasks that emit events
    RingCapacity,  \* RING_CAPACITY
    ChannelSize,   \* the bound of the mpsc channel
    LastDay,       \* the calendar ends here
    None

Days == 0..LastDay

ASSUME AuditAssumption ==
    /\ RingCapacity \in Nat \ {0} /\ ChannelSize \in Nat \ {0} /\ LastDay \in Nat
    /\ None \notin Nat

VARIABLES
    made,      \* how many events have been stamped
    emitter,   \* [Emitters -> [pc, ev]]: where each caller of emit is
    ring,      \* the VecDeque of AuditRing
    querying,  \* a query holds the ring's lock
    deferred,  \* the events in the hands of spawned push tasks
    channel,   \* events between try_send and recv
    writer,    \* the writer task: [pc, ev, today, old]
    open_date, \* the day the open file was opened, None when there is no file
    write_err, \* a write of the open handle has failed and nobody was told yet
    base,      \* the lines of <path>
    rotated,   \* [Days -> lines of <path>.YYYY-MM-DD]
    day,       \* the wall clock
    prior,     \* history: what had been pushed, and sent, when an event was stamped
    writtenOn, \* history: the day write_event read for an event
    torn,      \* history: events whose line lacks its newline
    hurt,      \* history: events an I/O fault cost
    excused,   \* history: events dropped at a full channel or held in memory at a crash
    faults,    \* history: I/O faults and crashes
    stepped    \* history: the wall clock has been set back

memVars == <<ring, querying, deferred>>
diskVars == <<base, rotated, torn, hurt, writtenOn>>
vars == <<made, emitter, memVars, channel, writer, open_date, write_err, diskVars, day,
          prior, excused, faults, stepped>>

Idle == [pc |-> "idle", ev |-> 0]
Waiting == [pc |-> "recv", ev |-> 0, today |-> 0, old |-> None]

Init ==
    /\ made = 0 /\ emitter = [m \in Emitters |-> Idle]
    /\ ring = <<>> /\ querying = FALSE /\ deferred = {}
    /\ channel = <<>> /\ writer = Waiting /\ open_date = None /\ write_err = FALSE
    /\ base = <<>> /\ rotated = [d \in Days |-> <<>>]
    /\ day = 0
    /\ prior = <<>> /\ writtenOn = <<>>
    /\ torn = {} /\ hurt = {} /\ excused = {} /\ faults = 0 /\ stepped = FALSE

Events == 1..made
Pushing == {emitter[m].ev : m \in {n \in Emitters : emitter[n].pc = "ring"}}
Sending == {emitter[m].ev : m \in {n \in Emitters : emitter[n].pc = "send"}}
Emitting == Pushing \cup Sending
Unpushed == Pushing \cup deferred

-----------------------------------------------------------------------------
(***************************************************************************)
(* emit.                                                                   *)
(***************************************************************************)

\* audit_event!: the time stamp is taken before emit is called.
Stamp(m) ==
    /\ emitter[m].pc = "idle"
    /\ made' = made + 1
    /\ emitter' = [emitter EXCEPT ![m] = [pc |-> "ring", ev |-> made + 1]]
    /\ prior' = Append(prior, [pushed |-> Events \ Unpushed, sent |-> Events \ Emitting])
    /\ writtenOn' = Append(writtenOn, 0)
    /\ UNCHANGED <<memVars, channel, writer, open_date, write_err, base, rotated, torn, hurt,
                   day, excused, faults, stepped>>

\* Mutant of Pushed: the ring gives up an element too early.
PushedShort(e) == Append(IF Len(ring) + 1 >= RingCapacity THEN Tail(ring) ELSE ring, e)

Pushed(e) == Append(IF Len(ring) >= RingCapacity THEN Tail(ring) ELSE ring, e)

\* try_lock fails: a query or a pushing task has the lock, or another caller
\* is inside its own push.
RingBusy(m) ==
    \/ querying \/ deferred # {}
    \/ \E n \in Emitters \ {m} : emitter[n].pc = "ring"

PushInline(m) ==
    /\ emitter[m].pc = "ring" /\ ~querying
    /\ ring' = Pushed(emitter[m].ev)
    /\ emitter' = [emitter EXCEPT ![m].pc = "send"]
    /\ UNCHANGED <<made, querying, deferred, channel, writer, open_date, write_err, diskVars,
                   day, prior, excused, faults, stepped>>

\* A task of its own will push the event; emit goes on.
PushDeferred(m) ==
    /\ emitter[m].pc = "ring" /\ RingBusy(m)
    /\ deferred' = deferred \cup {emitter[m].ev}
    /\ emitter' = [emitter EXCEPT ![m].pc = "send"]
    /\ UNCHANGED <<made, ring, querying, channel, writer, open_date, write_err, diskVars,
                   day, prior, excused, faults, stepped>>

\* AuditRing::push, in whatever order the tasks get the lock.
Push(e) ==
    /\ e \in deferred /\ ~querying
    /\ ring' = Pushed(e)
    /\ deferred' = deferred \ {e}
    /\ UNCHANGED <<made, emitter, querying, channel, writer, open_date, write_err, diskVars,
                   day, prior, excused, faults, stepped>>

\* AuditRing::query: the lock is held while the events are filtered and cloned.
Query ==
    /\ querying' = ~querying
    /\ UNCHANGED <<made, emitter, ring, deferred, channel, writer, open_date, write_err,
                   diskVars, day, prior, excused, faults, stepped>>

\* try_send: a full channel loses the event.
Send(m) ==
    /\ emitter[m].pc = "send"
    /\ IF Len(channel) < ChannelSize
       THEN channel' = Append(channel, emitter[m].ev) /\ UNCHANGED excused
       ELSE excused' = excused \cup {emitter[m].ev} /\ UNCHANGED channel
    /\ emitter' = [emitter EXCEPT ![m] = Idle]
    /\ UNCHANGED <<made, memVars, writer, open_date, write_err, diskVars, day, prior, faults,
                   stepped>>

-----------------------------------------------------------------------------
(***************************************************************************)
(* writer_task and write_event.                                            *)
(***************************************************************************)

\* recv, then `today` is read once for the whole of write_event.
Recv ==
    /\ writer.pc = "recv" /\ channel # <<>>
    /\ channel' = Tail(channel)
    /\ writer' = [writer EXCEPT
            !.ev = Head(channel), !.today = day,
            !.pc = CASE open_date = None -> "open"
                     [] open_date = day  -> "write"
                     [] OTHER            -> "rotate"]
    /\ UNCHANGED <<made, emitter, memVars, open_date, write_err, diskVars, day, prior, excused,
                   faults, stepped>>

\* rotate: flush and close, then rename in another step.  The flush's error,
\* a failed newline's too, is passed over.
CloseFile ==
    /\ writer.pc = "rotate"
    /\ writer' = [writer EXCEPT !.pc = "rename", !.old = open_date]
    /\ open_date' = None /\ write_err' = FALSE
    /\ UNCHANGED <<made, emitter, memVars, channel, diskVars, day, prior, excused,
                   faults, stepped>>

\* A rename replaces a file that has the new name.
RenameFile ==
    /\ writer.pc = "rename"
    /\ rotated' = [rotated EXCEPT ![writer.old] = base]
    /\ base' = <<>>
    /\ writer' = [writer EXCEPT !.pc = "open"]
    /\ UNCHANGED <<made, emitter, memVars, channel, open_date, write_err, torn, hurt,
                   writtenOn, day, prior, excused, faults, stepped>>

\* The rename fails: a warning, and the old file is opened again.
RenameFails ==
    /\ writer.pc = "rename"
    /\ faults' = faults + 1
    /\ writer' = [writer EXCEPT !.pc = "open"]
    /\ UNCHANGED <<made, emitter, memVars, channel, open_date, write_err, diskVars, day, prior,
                   excused, stepped>>

\* Mutant of OpenLogFile: the file is opened for writing, not appending.
OpenLogFileTruncates ==
    /\ writer.pc = "open"
    /\ open_date' = writer.today /\ base' = <<>>
    /\ writer' = [writer EXCEPT !.pc = "write"]
    /\ UNCHANGED <<made, emitter, memVars, channel, write_err, rotated, torn, hurt, writtenOn,
                   day, prior, excused, faults, stepped>>

\* Mutant of OpenLogFile: open_date is set by the first open only.
OpenLogFileStaleDate ==
    /\ writer.pc = "open"
    /\ open_date' = IF writer.old = None THEN writer.today ELSE writer.old
    /\ writer' = [writer EXCEPT !.pc = "write"]
    /\ UNCHANGED <<made, emitter, memVars, channel, write_err, diskVars, day, prior, excused,
                   faults, stepped>>

OpenLogFile ==
    /\ writer.pc = "open"
    /\ open_date' = writer.today
    /\ writer' = [writer EXCEPT !.pc = "write"]
    /\ UNCHANGED <<made, emitter, memVars, channel, write_err, diskVars, day, prior, excused,
                   faults, stepped>>

\* `?` returns from write_event: the event is gone, the file stays closed.
OpenFails ==
    /\ writer.pc = "open"
    /\ faults' = faults + 1 /\ hurt' = hurt \cup {writer.ev}
    /\ writer' = Waiting
    /\ UNCHANGED <<made, emitter, memVars, channel, open_date, write_err, base, rotated, torn,
                   writtenOn, day, prior, excused, stepped>>

\* A line that follows one without its newline is glued to it.
Glued == base # <<>> /\ Last(base) \in torn

AppendLine ==
    /\ base' = Append(base, writer.ev)
    /\ writtenOn' = [writtenOn EXCEPT ![writer.ev] = writer.today]
    /\ writer' = Waiting
    /\ UNCHANGED <<made, emitter, memVars, channel, open_date, rotated, day, prior,
                   excused, stepped>>

WriteLine ==
    /\ writer.pc = "write" /\ ~write_err /\ AppendLine
    /\ hurt' = IF Glued THEN hurt \cup {writer.ev} ELSE hurt
    /\ UNCHANGED <<torn, faults, write_err>>

\* A line without its end.  Either a part of the line is written and the write
\* of the newline returns the error, or the line is written and its newline
\* fails after write_event has returned.
WriteTorn ==
    /\ writer.pc = "write" /\ ~write_err /\ AppendLine
    /\ torn' = torn \cup {writer.ev} /\ hurt' = hurt \cup {writer.ev}
    /\ faults' = faults + 1
    /\ write_err' \in BOOLEAN

\* The newline of the event before has failed: the write of this line returns
\* that error, and the event is gone.
ReportError ==
    /\ writer.pc = "write" /\ write_err
    /\ hurt' = hurt \cup {writer.ev} /\ write_err' = FALSE
    /\ writer' = Waiting
    /\ UNCHANGED <<made, emitter, memVars, channel, open_date, base, rotated, torn,
                   writtenOn, day, prior, excused, faults, stepped>>

\* Mutant of WriteFails: the event is queued again.
WriteFailsRequeues ==
    /\ writer.pc = "write" /\ ~write_err
    /\ faults' = faults + 1 /\ channel' = Append(channel, writer.ev)
    /\ writer' = Waiting
    /\ UNCHANGED <<made, emitter, memVars, open_date, write_err, diskVars, day, prior, excused,
                   stepped>>

\* Nothing is written; the error is logged and the file is kept open.
WriteFails ==
    /\ writer.pc = "write" /\ ~write_err
    /\ faults' = faults + 1 /\ hurt' = hurt \cup {writer.ev}
    /\ writer' = Waiting
    /\ UNCHANGED <<made, emitter, memVars, channel, open_date, write_err, base, rotated, torn,
                   writtenOn, day, prior, excused, stepped>>

-----------------------------------------------------------------------------
(***************************************************************************)
(* The environment.                                                        *)
(***************************************************************************)

Midnight ==
    /\ day < LastDay /\ day' = day + 1
    /\ UNCHANGED <<made, emitter, memVars, channel, writer, open_date, write_err, diskVars, prior,
                   excused, faults, stepped>>

\* The wall clock is set back over midnight.
ClockSetBack ==
    /\ day > 0 /\ day' = day - 1 /\ stepped' = TRUE
    /\ UNCHANGED <<made, emitter, memVars, channel, writer, open_date, write_err, diskVars, prior,
                   excused, faults>>

\* The process ends and is started again.  The last line may still be in the
\* buffer of its handle, with or without its newline.
Crash ==
    /\ \E out \in {"written", "torn", "lost"} :
        LET buffered == out # "written" /\ open_date # None /\ ~write_err /\ base # <<>>
        IN /\ base' = IF buffered /\ out = "lost" THEN Front(base) ELSE base
           /\ torn' = IF buffered /\ out = "torn" THEN torn \cup {Last(base)} ELSE torn
           /\ hurt' = IF buffered THEN hurt \cup {Last(base)} ELSE hurt
    /\ faults' = faults + 1
    /\ excused' = excused \cup Emitting \cup ToSet(channel)
                    \cup (IF writer.pc = "recv" THEN {} ELSE {writer.ev})
    /\ emitter' = [m \in Emitters |-> Idle]
    /\ ring' = <<>> /\ querying' = FALSE /\ deferred' = {}
    /\ channel' = <<>> /\ writer' = Waiting /\ open_date' = None /\ write_err' = FALSE
    /\ UNCHANGED <<made, rotated, writtenOn, day, prior, stepped>>

Next ==
    \/ \E m \in Emitters : Stamp(m) \/ PushInline(m) \/ PushDeferred(m) \/ Send(m)
    \/ \E e \in deferred : Push(e)
    \/ Query
    \/ Recv \/ CloseFile \/ RenameFile \/ RenameFails
    \/ OpenLogFile \/ OpenFails \/ WriteLine \/ WriteTorn \/ WriteFails \/ ReportError
    \/ Midnight \/ ClockSetBack \/ Crash

Spec == Init /\ [][Next]_vars

-----------------------------------------------------------------------------
(***************************************************************************)
(* The ring.                                                               *)
(***************************************************************************)

\* "Events are returned in chronological order (oldest first)" (query), as far
\* as the code can keep it: an event whose push was over before another was
\* stamped comes before it, and no event is there twice.  A deferred push may
\* still overtake or be overtaken.
RingOrdered ==
    \A i, j \in 1..Len(ring) : i < j =>
        /\ ring[i] # ring[j]
        /\ ring[j] \notin prior[ring[i]].pushed

\* The events whose push is over by now and was not when e was stamped, e
\* itself left out.
PushedSince(e) == Events \ (prior[e].pushed \cup {e} \cup Unpushed)

\* An event leaves the ring only after RingCapacity others were pushed that
\* did not precede it: deferred pushes never cost more than their own place.
\* (A crash empties the ring.)
RingKeepsRecent ==
    \A e \in Events \ (Unpushed \cup ToSet(ring)) :
        faults > 0 \/ Cardinality(PushedSince(e)) >= RingCapacity

\* What a reader of the ring relies on: nothing recent is missing, and nothing
\* is out of order that was ever in order.
RingFaithful == RingOrdered /\ RingKeepsRecent

(***************************************************************************)
(* The files.                                                              *)
(***************************************************************************)

\* The trail as an operator reads it: dated files in order, then the open one.
Shelf == 0..(LastDay + 1)
File(d) == IF d \in Days THEN rotated[d] ELSE base
Lines == ToSet(base) \cup UNION {ToSet(rotated[d]) : d \in Days}

\* y may come after x: its emit had not returned when x was stamped.
MayFollow(x, y) == x # y /\ y \notin prior[x].sent

\* Through rotations, failed renames, crashes and restarts the trail has no
\* event twice, and never puts an event before one whose emit had returned
\* when it was stamped (one channel, one writer).  Setting the clock back is
\* what breaks it.
FilesOrdered ==
    ~stepped =>
        \A c, d \in Shelf : \A i \in 1..Len(File(c)), j \in 1..Len(File(d)) :
            c < d \/ (c = d /\ i < j) => MayFollow(File(c)[i], File(d)[j])

\* The writer still has it.
InHand == IF writer.pc = "recv" THEN {} ELSE {writer.ev}

\* An event that was not dropped at a full channel or in memory at a crash is
\* on its way or in the trail, unless a fault hit it.
Accounted ==
    ~stepped =>
        Events \ (excused \cup hurt \cup Emitting) \subseteq ToSet(channel) \cup InHand \cup Lines

\* "This module writes every structured audit event": every event is accounted
\* for, and a fault (a failed open, write or rename, a crash) costs at most three
\* events: the one written, the next, which is told of the failure and dropped,
\* and the one then glued to the line without its end.
LossAccounted == Accounted /\ Cardinality(hurt) <= 3 * faults

\* "The current file is renamed to <path>.YYYY-MM-DD": a dated file holds no
\* event written after its date, whatever restarts and failed renames did
\* (they may leave earlier ones in it).
DatedAtMost ==
    ~stepped => \A d \in Days : \A e \in ToSet(rotated[d]) : writtenOn[e] <= d

(***************************************************************************)
(* The inductive invariant, part by part.                                  *)
(***************************************************************************)
Callers == [pc : {"idle", "ring", "send"}, ev : Nat]
Writers == [pc : {"recv", "rotate", "rename", "open", "write"}, ev : Nat, today : Days,
            old : Days \cup {None}]
Stamps == [pushed : SUBSET Nat, sent : SUBSET Nat]

TypeOK ==
    /\ made \in Nat /\ faults \in Nat /\ day \in Days
    /\ stepped \in BOOLEAN /\ write_err \in BOOLEAN
    /\ emitter \in [Emitters -> Callers]
    /\ ring \in Seq(Events) /\ deferred \subseteq Events
    /\ channel \in Seq(Events) /\ writer \in Writers /\ open_date \in Days \cup {None}
    /\ base \in Seq(Events) /\ rotated \in [Days -> Seq(Events)]
    /\ torn \subseteq Events /\ hurt \subseteq Events
    /\ prior \in Seq(Stamps) /\ Len(prior) = made
    /\ writtenOn \in Seq(Days) /\ Len(writtenOn) = made

\* Two callers never emit the same event, and the writer's stage tells which
\* file it has open.
Distinct ==
    /\ \A m \in Emitters : emitter[m].pc # "idle" => emitter[m].ev \in Events
    /\ \A m, n \in Emitters :
         m # n /\ emitter[m].pc # "idle" /\ emitter[n].pc # "idle" => emitter[m].ev # emitter[n].ev

WriterFits ==
    /\ writer.pc # "recv" => writer.ev \in Events
    /\ writer.pc = "rotate" => open_date \in Days
    /\ writer.pc = "rename" => open_date = None /\ writer.old \in Days
    /\ writer.pc = "open" => open_date = None
    /\ writer.pc = "write" => open_date = writer.today

\* An event waits for the ring once, and once in the ring it waits no more.
RingFits ==
    /\ Pushing \cap deferred = {} /\ Unpushed \cap ToSet(ring) = {}
    /\ \A e \in Events : prior[e].pushed \subseteq Events \ Unpushed

\* Callers, channel, writer and files hold different events, in the order in
\* which they may follow each other.
PipeFits ==
    /\ \A e \in Events : prior[e].sent \subseteq Events \ Emitting
    /\ Emitting \cap (ToSet(channel) \cup InHand \cup Lines \cup torn) = {}
    /\ torn \cap (ToSet(channel) \cup InHand) = {}
    /\ \A i, j \in 1..Len(channel) : i < j => MayFollow(channel[i], channel[j])
    /\ \A x \in InHand, y \in ToSet(channel) : MayFollow(x, y)
    /\ \A x \in Lines, y \in InHand \cup ToSet(channel) : MayFollow(x, y)

\* The day that no line of the open file is younger than.
Horizon ==
    CASE writer.pc = "rename" -> writer.old
      [] writer.pc = "open"   -> writer.today
      [] OTHER                -> IF open_date = None THEN day ELSE open_date

\* With a clock that is never set back, days only grow, and the dated files
\* are older than the open one.
DatesFit ==
    ~stepped =>
        /\ Horizon <= day
        /\ writer.pc # "recv" => Horizon <= writer.today /\ writer.today <= day
        /\ writer.pc \in {"rotate", "rename"} => Horizon < writer.today
        /\ \A e \in ToSet(base) : writtenOn[e] <= Horizon
        /\ \A d \in Days : rotated[d] # <<>> => d < Horizon

\* A torn line at the end of the open file will cost the next one written, and
\* an error not yet reported the next event.
HurtBounded ==
    /\ IsFiniteSet(hurt)
    /\ Cardinality(hurt) + (IF Glued THEN 1 ELSE 0) + (IF write_err THEN 1 ELSE 0) <= 3 * faults

AuditInv ==
    /\ TypeOK /\ Distinct /\ WriterFits
    /\ RingFits /\ RingOrdered /\ RingKeepsRecent
    /\ PipeFits /\ DatesFit /\ DatedAtMost /\ FilesOrdered
    /\ Accounted /\ HurtBounded
=============================================================================

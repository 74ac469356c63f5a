--------------------------- MODULE AuditLogProofs ---------------------------
(***************************************************************************)
(* The audit log for any number of emitters, events, faults and days, and  *)
(* every size of the ring and of the channel: what the ring keeps and in   *)
(* which order, what the files hold and in which order, and what a fault   *)
(* may cost.                                                               *)
(***************************************************************************)
EXTENDS AuditLog, FiniteSetTheorems, TLAPS

USE AuditAssumption DEF Days

-----------------------------------------------------------------------------
(***************************************************************************)
(* Sequences: what a push, a removal at the front and one at the end do.   *)
(***************************************************************************)
LEMMA ToSetIs ==
  ASSUME NEW S, NEW s \in Seq(S)
  PROVE  /\ DOMAIN s = 1..Len(s) /\ Len(s) \in Nat
         /\ \A x : x \in ToSet(s) <=> \E i \in 1..Len(s) : s[i] = x
         /\ ToSet(s) \subseteq S
         /\ s = <<>> <=> Len(s) = 0
  BY DEF ToSet

LEMMA WiderSeq ==
  ASSUME NEW S, NEW T, S \subseteq T, NEW s \in Seq(S)
  PROVE  s \in Seq(T)
  OBVIOUS

LEMMA Appended ==
  ASSUME NEW S, NEW s \in Seq(S), NEW e \in S
  PROVE  /\ Append(s, e) \in Seq(S) /\ Len(Append(s, e)) = Len(s) + 1
         /\ \A i \in 1..Len(s) : Append(s, e)[i] = s[i]
         /\ Append(s, e)[Len(s) + 1] = e
         /\ ToSet(Append(s, e)) = ToSet(s) \cup {e}
  <1>1. /\ Append(s, e) \in Seq(S) /\ DOMAIN Append(s, e) = 1..Len(s) + 1
        /\ \A i \in 1..Len(s) : Append(s, e)[i] = s[i]
        /\ Append(s, e)[Len(s) + 1] = e /\ Len(Append(s, e)) = Len(s) + 1
        /\ DOMAIN s = 1..Len(s) /\ Len(s) \in Nat
    OBVIOUS
  <1>2. 1..Len(s) + 1 = (1..Len(s)) \cup {Len(s) + 1}
    BY <1>1
  <1>3. ToSet(Append(s, e)) = ToSet(s) \cup {e}
    BY <1>1, <1>2 DEF ToSet
  <1> QED
    BY <1>1, <1>3

LEMMA Tailed ==
  ASSUME NEW S, NEW s \in Seq(S), s # <<>>
  PROVE  /\ Tail(s) \in Seq(S) /\ Len(Tail(s)) = Len(s) - 1 /\ Len(s) \in Nat \ {0}
         /\ \A i \in 1..Len(s) - 1 : Tail(s)[i] = s[i + 1]
         /\ Head(s) = s[1] /\ Head(s) \in S
         /\ ToSet(s) = ToSet(Tail(s)) \cup {Head(s)}
  <1>1. /\ Tail(s) \in Seq(S) /\ Len(s) \in Nat \ {0} /\ DOMAIN s = 1..Len(s)
        /\ DOMAIN Tail(s) = 1..Len(s) - 1 /\ Head(s) = s[1] /\ Len(Tail(s)) = Len(s) - 1
        /\ \A i \in 1..Len(s) - 1 : Tail(s)[i] = s[i + 1]
        /\ Head(s) \in S
    OBVIOUS
  <1>2. ASSUME NEW i \in 1..Len(s), i # 1 PROVE s[i] \in ToSet(Tail(s))
    <2>1. i - 1 \in 1..Len(s) - 1 /\ (i - 1) + 1 = i
      BY <1>1, <1>2
    <2>2. i - 1 \in DOMAIN Tail(s) /\ Tail(s)[i - 1] = s[i]
      BY <1>1, <2>1
    <2> QED
      BY <2>2 DEF ToSet
  <1>3. ASSUME NEW i \in DOMAIN Tail(s) PROVE Tail(s)[i] \in ToSet(s)
    <2>1. i + 1 \in DOMAIN s /\ Tail(s)[i] = s[i + 1]
      BY <1>1
    <2> QED
      BY <2>1 DEF ToSet
  <1>4. ToSet(Tail(s)) \subseteq ToSet(s)
    BY <1>3 DEF ToSet
  <1>5. ToSet(s) \subseteq ToSet(Tail(s)) \cup {Head(s)}
    <2>1. ASSUME NEW i \in DOMAIN s PROVE s[i] \in ToSet(Tail(s)) \cup {Head(s)}
      BY <1>1, <1>2
    <2> QED
      BY <2>1 DEF ToSet
  <1>6. Head(s) \in ToSet(s)
    BY <1>1 DEF ToSet
  <1> QED
    BY <1>1, <1>4, <1>5, <1>6

LEMMA Fronted ==
  ASSUME NEW S, NEW s \in Seq(S), s # <<>>
  PROVE  /\ Front(s) \in Seq(S) /\ Len(Front(s)) = Len(s) - 1 /\ Len(s) \in Nat \ {0}
         /\ \A i \in 1..Len(s) - 1 : Front(s)[i] = s[i]
         /\ Last(s) = s[Len(s)] /\ Last(s) \in S /\ Last(s) \in ToSet(s)
         /\ ToSet(s) = ToSet(Front(s)) \cup {Last(s)}
  <1>1. Len(s) \in Nat \ {0} /\ DOMAIN s = 1..Len(s) /\ Last(s) = s[Len(s)] /\ Last(s) \in S
    BY DEF Last
  <1>2. /\ Front(s) \in Seq(S) /\ Len(Front(s)) = Len(s) - 1
        /\ DOMAIN Front(s) = 1..Len(s) - 1
        /\ \A i \in 1..Len(s) - 1 : Front(s)[i] = s[i]
    BY <1>1 DEF Front
  <1>3. 1..Len(s) = (1..Len(s) - 1) \cup {Len(s)}
    BY <1>1
  <1>4. ToSet(s) = ToSet(Front(s)) \cup {Last(s)}
    BY <1>1, <1>2, <1>3 DEF ToSet
  <1> QED
    BY <1>1, <1>2, <1>4

-----------------------------------------------------------------------------
(***************************************************************************)
(* The callers of emit: which events they hold after a step of one.        *)
(***************************************************************************)
Callings == TypeOK /\ Distinct

LEMMA CallerSets ==
  ASSUME Callings
  PROVE  /\ made \in Nat /\ Pushing \subseteq Events /\ Sending \subseteq Events
         /\ Pushing \cap Sending = {}
         /\ \A m \in Emitters : emitter[m].pc = "ring" => emitter[m].ev \in Pushing
         /\ \A m \in Emitters : emitter[m].pc = "send" => emitter[m].ev \in Sending
  BY DEF Callings, TypeOK, Distinct, Pushing, Sending

LEMMA StampSets ==
  ASSUME Callings, NEW m \in Emitters, Stamp(m)
  PROVE  Pushing' = Pushing \cup {made + 1} /\ Sending' = Sending /\ Distinct'
  <1>1. /\ emitter[m].pc = "idle" /\ emitter \in [Emitters -> Callers] /\ made \in Nat
        /\ emitter' = [emitter EXCEPT ![m] = [pc |-> "ring", ev |-> made + 1]] /\ made' = made + 1
    BY DEF Callings, TypeOK, Stamp
  <1>2. /\ emitter'[m].pc = "ring" /\ emitter'[m].ev = made + 1
        /\ \A n \in Emitters \ {m} : emitter'[n] = emitter[n]
    BY <1>1
  <1> QED
    BY <1>1, <1>2 DEF Callings, Pushing, Sending, Distinct, Events

LEMMA PushSets ==
  ASSUME Callings, NEW m \in Emitters, emitter[m].pc = "ring", UNCHANGED made,
         emitter' = [emitter EXCEPT ![m].pc = "send"]
  PROVE  /\ emitter[m].ev \in Pushing /\ emitter[m].ev \in Events /\ emitter[m].ev \notin Sending
         /\ Pushing' = Pushing \ {emitter[m].ev} /\ Sending' = Sending \cup {emitter[m].ev}
         /\ Distinct' /\ emitter' \in [Emitters -> Callers]
  <1>1. emitter \in [Emitters -> Callers]
    BY DEF Callings, TypeOK
  <1>2. /\ emitter'[m].pc = "send" /\ emitter'[m].ev = emitter[m].ev
        /\ \A n \in Emitters \ {m} : emitter'[n] = emitter[n]
        /\ emitter' \in [Emitters -> Callers]
    BY <1>1 DEF Callers
  <1>3. \A n \in Emitters \ {m} : emitter[n].pc # "idle" => emitter[n].ev # emitter[m].ev
    BY DEF Callings, Distinct
  <1>4. Distinct'
    BY <1>2 DEF Callings, Distinct, Events
  <1> QED
    BY <1>2, <1>3, <1>4, CallerSets DEF Pushing, Sending

LEMMA SendSets ==
  ASSUME Callings, NEW m \in Emitters, Send(m)
  PROVE  /\ emitter[m].ev \in Sending /\ emitter[m].ev \in Events /\ emitter[m].ev \notin Pushing
         /\ Sending' = Sending \ {emitter[m].ev} /\ Pushing' = Pushing
         /\ Distinct' /\ emitter' \in [Emitters -> Callers]
  <1>1. /\ emitter \in [Emitters -> Callers] /\ emitter[m].pc = "send" /\ made' = made
        /\ emitter' = [emitter EXCEPT ![m] = Idle]
    BY DEF Callings, TypeOK, Send
  <1>2. /\ emitter'[m].pc = "idle" /\ emitter' \in [Emitters -> Callers]
        /\ \A n \in Emitters \ {m} : emitter'[n] = emitter[n]
    BY <1>1 DEF Callers, Idle
  <1>3. \A n \in Emitters \ {m} : emitter[n].pc # "idle" => emitter[n].ev # emitter[m].ev
    BY <1>1 DEF Callings, Distinct
  <1>4. Distinct'
    BY <1>1, <1>2 DEF Callings, Distinct, Events
  <1> QED
    BY <1>1, <1>2, <1>3, <1>4, CallerSets DEF Pushing, Sending

LEMMA CrashSets ==
  ASSUME emitter' = [m \in Emitters |-> Idle]
  PROVE  Pushing' = {} /\ Sending' = {} /\ Distinct' /\ emitter' \in [Emitters -> Callers]
  <1>1. \A m \in Emitters : emitter'[m].pc = "idle"
    BY DEF Idle
  <1>2. emitter' \in [Emitters -> Callers]
    BY DEF Idle, Callers
  <1> QED
    BY <1>1, <1>2 DEF Pushing, Sending, Distinct

LEMMA SameSets ==
  ASSUME UNCHANGED <<emitter, made>>
  PROVE  Pushing' = Pushing /\ Sending' = Sending /\ (Distinct => Distinct')
  BY DEF Pushing, Sending, Distinct, Events

-----------------------------------------------------------------------------
(***************************************************************************)
(* Types, and the writer's stages.                                         *)
(***************************************************************************)
Typed == TypeOK /\ Distinct /\ WriterFits

LEMMA TypedInit == Init => Typed
  <1> SUFFICES ASSUME Init PROVE Typed
    OBVIOUS
  <1>1. Events = {} /\ 0 \in Days
    BY DEF Init, Events
  <1>2. emitter \in [Emitters -> Callers] /\ writer \in Writers
    BY <1>1 DEF Init, Idle, Waiting, Callers, Writers
  <1>3. TypeOK
    BY <1>1, <1>2 DEF Init, TypeOK
  <1>4. Distinct
    BY DEF Init, Distinct, Idle
  <1>5. WriterFits
    BY DEF Init, WriterFits, Waiting
  <1> QED
    BY <1>3, <1>4, <1>5 DEF Typed

(***************************************************************************)
(* The steps of emit and of the ring.                                      *)
(***************************************************************************)
LEMMA StampTyped ==
  ASSUME Typed, NEW m \in Emitters, Stamp(m)
  PROVE  Typed'
  <1>1. TypeOK /\ Distinct /\ WriterFits /\ Callings
    BY DEF Typed, Callings
  <1>2. /\ made' = made + 1 /\ made \in Nat /\ 0 \in Days
        /\ emitter' = [emitter EXCEPT ![m] = [pc |-> "ring", ev |-> made + 1]]
        /\ prior' = Append(prior, [pushed |-> Events \ Unpushed, sent |-> Events \ Emitting])
        /\ writtenOn' = Append(writtenOn, 0)
        /\ UNCHANGED <<ring, querying, deferred, channel, writer, open_date, write_err, base, rotated,
                       torn, hurt, day, excused, faults, stepped>>
    BY <1>1 DEF Stamp, memVars, TypeOK
  <1>3. Events \subseteq Events' /\ Events \subseteq Nat
    BY <1>2 DEF Events
  <1>4. emitter' \in [Emitters -> Callers]
    <2>1. [pc |-> "ring", ev |-> made + 1] \in Callers
      BY <1>2 DEF Callers
    <2> QED
      BY <1>1, <1>2, <2>1 DEF TypeOK
  <1>5. prior' \in Seq(Stamps) /\ Len(prior') = made'
    <2> DEFINE stamp == [pushed |-> Events \ Unpushed, sent |-> Events \ Emitting]
    <2>1. stamp \in Stamps
      BY <1>3 DEF Stamps
    <2>2. prior' = Append(prior, stamp)
      BY <1>2
    <2> HIDE DEF stamp
    <2>3. prior \in Seq(Stamps) /\ Len(prior) = made
      BY <1>1 DEF TypeOK
    <2>4. Append(prior, stamp) \in Seq(Stamps) /\ Len(Append(prior, stamp)) = Len(prior) + 1
      BY <2>1, <2>3, Appended
    <2> QED
      BY <1>2, <2>2, <2>3, <2>4
  <1>6. writtenOn' \in Seq(Days) /\ Len(writtenOn') = made'
    <2>1. writtenOn \in Seq(Days) /\ Len(writtenOn) = made
      BY <1>1 DEF TypeOK
    <2>2. Append(writtenOn, 0) \in Seq(Days) /\ Len(Append(writtenOn, 0)) = Len(writtenOn) + 1
      BY <1>2, <2>1, Appended
    <2> QED
      BY <1>2, <2>1, <2>2
  <1>7. ring' \in Seq(Events') /\ channel' \in Seq(Events') /\ base' \in Seq(Events')
    BY <1>1, <1>2, <1>3, WiderSeq DEF TypeOK
  <1>8. rotated' \in [Days -> Seq(Events')]
    <2>1. \A d \in Days : rotated[d] \in Seq(Events')
      BY <1>1, <1>3, WiderSeq DEF TypeOK
    <2> QED
      BY <1>1, <1>2, <2>1 DEF TypeOK
  <1>9. TypeOK'
    BY <1>1, <1>2, <1>3, <1>4, <1>5, <1>6, <1>7, <1>8 DEF TypeOK
  <1>10. Distinct'
    BY <1>1, StampSets
  <1>11. WriterFits'
    BY <1>1, <1>2, <1>3 DEF WriterFits
  <1> QED
    BY <1>9, <1>10, <1>11 DEF Typed

LEMMA PushedSeq ==
  ASSUME TypeOK, NEW e \in Events
  PROVE  /\ Pushed(e) \in Seq(Events)
         /\ ToSet(Pushed(e)) \subseteq ToSet(ring) \cup {e} /\ e \in ToSet(Pushed(e))
         /\ Len(ring) < RingCapacity => ToSet(Pushed(e)) = ToSet(ring) \cup {e}
         /\ Len(ring) >= RingCapacity => ring # <<>> /\ ToSet(Pushed(e)) = ToSet(Tail(ring)) \cup {e}
  <1>1. ring \in Seq(Events) /\ Len(ring) \in Nat
    BY DEF TypeOK
  <1>2. CASE Len(ring) < RingCapacity
    BY <1>1, <1>2, Appended DEF Pushed
  <1>3. CASE Len(ring) >= RingCapacity
    <2>1. ring # <<>>
      BY <1>1, <1>3
    <2>2. Tail(ring) \in Seq(Events) /\ ToSet(Tail(ring)) \subseteq ToSet(ring)
      BY <1>1, <2>1, Tailed
    <2> DEFINE rest == Tail(ring)
    <2>3. Pushed(e) = Append(rest, e) /\ rest \in Seq(Events) /\ ToSet(rest) \subseteq ToSet(ring)
      BY <1>1, <1>3, <2>2 DEF Pushed
    <2> SUFFICES Append(rest, e) \in Seq(Events) /\ ToSet(Append(rest, e)) = ToSet(rest) \cup {e}
      BY <1>1, <1>3, <2>1, <2>3
    <2> HIDE DEF rest
    <2> QED
      BY <2>3, Appended
  <1> QED
    BY <1>1, <1>2, <1>3

LEMMA RingStepTyped ==
  ASSUME Typed,
         \/ Query \/ \E e \in deferred : Push(e)
         \/ \E m \in Emitters : PushInline(m) \/ PushDeferred(m)
  PROVE  Typed'
  <1>1. TypeOK /\ Distinct /\ WriterFits /\ Callings
    BY DEF Typed, Callings
  <1>2. /\ UNCHANGED <<made, channel, writer, open_date, write_err, base, rotated, torn, hurt, writtenOn,
                       day, prior, excused, faults, stepped>>
        /\ Events' = Events
    BY DEF Query, Push, PushInline, PushDeferred, diskVars, Events
  <1>3. WriterFits'
    BY <1>1, <1>2 DEF WriterFits
  <1>4. ASSUME ring' \in Seq(Events), deferred' \subseteq Events,
               emitter' \in [Emitters -> Callers], Distinct'
        PROVE  Typed'
    BY <1>1, <1>2, <1>3, <1>4 DEF Typed, TypeOK
  <1>5. CASE Query
    BY <1>1, <1>4, <1>5, SameSets DEF Query, TypeOK
  <1>6. ASSUME NEW e \in deferred, Push(e) PROVE Typed'
    <2>1. e \in Events /\ ring' = Pushed(e) /\ UNCHANGED <<emitter, made>>
          /\ deferred' = deferred \ {e}
      BY <1>1, <1>6 DEF Push, TypeOK
    <2> QED
      BY <1>1, <1>4, <2>1, PushedSeq, SameSets DEF TypeOK
  <1>7. ASSUME NEW m \in Emitters, PushInline(m) \/ PushDeferred(m) PROVE Typed'
    <2>1. emitter[m].pc = "ring" /\ emitter' = [emitter EXCEPT ![m].pc = "send"] /\ UNCHANGED made
      BY <1>7 DEF PushInline, PushDeferred
    <2>2. emitter[m].ev \in Events /\ Distinct' /\ emitter' \in [Emitters -> Callers]
      BY <1>1, <2>1, PushSets
    <2>3. ring' \in Seq(Events) /\ deferred' \subseteq Events
      BY <1>1, <1>7, <2>2, PushedSeq DEF PushInline, PushDeferred, TypeOK
    <2> QED
      BY <1>4, <2>2, <2>3
  <1> QED
    BY <1>5, <1>6, <1>7

LEMMA SendTyped ==
  ASSUME Typed, NEW m \in Emitters, Send(m)
  PROVE  Typed'
  <1>1. TypeOK /\ Distinct /\ WriterFits /\ Callings
    BY DEF Typed, Callings
  <1>2. /\ UNCHANGED <<made, ring, deferred, writer, open_date, write_err, base, rotated, torn, hurt,
                       writtenOn, day, prior, faults, stepped>>
        /\ channel' \in {channel, Append(channel, emitter[m].ev)} /\ Events' = Events
    BY DEF Send, memVars, diskVars, Events
  <1>3. emitter[m].ev \in Events /\ Distinct' /\ emitter' \in [Emitters -> Callers]
    BY <1>1, SendSets
  <1>4. channel' \in Seq(Events)
    <2>1. channel \in Seq(Events)
      BY <1>1 DEF TypeOK
    <2>2. Append(channel, emitter[m].ev) \in Seq(Events)
      BY <1>3, <2>1, Appended
    <2> QED
      BY <1>2, <2>1, <2>2
  <1>5. WriterFits'
    BY <1>1, <1>2 DEF WriterFits
  <1> QED
    BY <1>1, <1>2, <1>3, <1>4, <1>5 DEF Typed, TypeOK

(***************************************************************************)
(* The steps of the writer.                                                *)
(***************************************************************************)
LEMMA WaitingTyped == Waiting \in Writers /\ Waiting.pc = "recv"
  BY DEF Waiting, Writers

\* What a step of the writer does to its record.
LEMMA WriterMoves ==
  ASSUME Typed
  PROVE  /\ Recv => /\ writer' \in Writers /\ writer'.ev = Head(channel) /\ writer'.today = day
                     /\ writer'.old = writer.old
                     /\ writer'.pc = CASE open_date = None -> "open"
                                       [] open_date = day  -> "write"
                                       [] OTHER            -> "rotate"
         /\ CloseFile => /\ writer' \in Writers /\ writer'.pc = "rename" /\ writer'.ev = writer.ev
                          /\ writer'.old = open_date /\ writer'.today = writer.today
         /\ RenameFile \/ RenameFails =>
                          /\ writer' \in Writers /\ writer'.pc = "open" /\ writer'.ev = writer.ev
                          /\ writer'.today = writer.today
         /\ OpenLogFile => /\ writer' \in Writers /\ writer'.pc = "write"
                            /\ writer'.ev = writer.ev /\ writer'.today = writer.today
  <1>1. writer \in Writers /\ day \in Days /\ channel \in Seq(Events) /\ made \in Nat
        /\ open_date \in Days \cup {None}
    BY DEF Typed, TypeOK
  <1>2. CASE Recv
    <2>1. Head(channel) \in Nat
      <3>1. Head(channel) \in Events
        BY <1>1, <1>2, Tailed DEF Recv
      <3> QED
        BY <1>1, <3>1 DEF Events
    <2> DEFINE stage == CASE open_date = None -> "open"
                          [] open_date = day  -> "write"
                          [] OTHER            -> "rotate"
    <2>2. stage \in {"open", "write", "rotate"}
      OBVIOUS
    <2>3. writer' = [writer EXCEPT !.ev = Head(channel), !.today = day, !.pc = stage]
      BY <1>2 DEF Recv
    <2> HIDE DEF stage
    <2>4. /\ writer' \in Writers /\ writer'.ev = Head(channel) /\ writer'.today = day
          /\ writer'.pc = stage /\ writer'.old = writer.old
      BY <1>1, <2>1, <2>2, <2>3 DEF Writers
    <2> QED
      BY <1>2, <2>4 DEF stage, Recv, CloseFile, RenameFile, RenameFails, OpenLogFile
  <1>3. CASE CloseFile
    <2>1. writer' = [writer EXCEPT !.pc = "rename", !.old = open_date]
      BY <1>3 DEF CloseFile
    <2>2. /\ writer' \in Writers /\ writer'.pc = "rename" /\ writer'.ev = writer.ev
          /\ writer'.old = open_date /\ writer'.today = writer.today
      BY <1>1, <2>1 DEF Writers
    <2> QED
      BY <1>3, <2>2 DEF Recv, CloseFile, RenameFile, RenameFails, OpenLogFile
  <1>4. CASE RenameFile \/ RenameFails
    <2>1. writer' = [writer EXCEPT !.pc = "open"]
      BY <1>4 DEF RenameFile, RenameFails
    <2>2. /\ writer' \in Writers /\ writer'.pc = "open" /\ writer'.ev = writer.ev
          /\ writer'.today = writer.today
      BY <1>1, <2>1 DEF Writers
    <2> QED
      BY <1>4, <2>2 DEF Recv, CloseFile, RenameFile, RenameFails, OpenLogFile
  <1>5. CASE OpenLogFile
    <2>1. writer' = [writer EXCEPT !.pc = "write"]
      BY <1>5 DEF OpenLogFile
    <2>2. /\ writer' \in Writers /\ writer'.pc = "write" /\ writer'.ev = writer.ev
          /\ writer'.today = writer.today
      BY <1>1, <2>1 DEF Writers
    <2> QED
      BY <1>5, <2>2 DEF Recv, CloseFile, RenameFile, RenameFails, OpenLogFile
  <1> QED
    BY <1>2, <1>3, <1>4, <1>5

\* The steps that move no line: the writer takes an event, or works on its file.
LEMMA WriterStepTyped ==
  ASSUME Typed, Recv \/ CloseFile \/ RenameFile \/ RenameFails \/ OpenLogFile
  PROVE  Typed'
  <1>1. TypeOK /\ Distinct /\ WriterFits
    BY DEF Typed
  <1>2. /\ UNCHANGED <<made, emitter, ring, deferred, torn, hurt, writtenOn, day, prior, stepped>>
        /\ Events' = Events
    BY DEF Recv, CloseFile, RenameFile, RenameFails, OpenLogFile, memVars, diskVars, Events
  <1>3. Distinct' /\ write_err' \in BOOLEAN
    <2>1. write_err \in BOOLEAN /\ (write_err' = write_err \/ write_err' = FALSE)
      BY <1>1 DEF TypeOK, Recv, CloseFile, RenameFile, RenameFails, OpenLogFile
    <2>2. write_err' \in BOOLEAN
      BY <2>1, Zenon
    <2> QED
      BY <1>1, <1>2, <2>2, SameSets
  <1>4. ASSUME faults' \in Nat, channel' \in Seq(Events), writer' \in Writers,
               open_date' \in Days \cup {None}, base' \in Seq(Events),
               rotated' \in [Days -> Seq(Events)], WriterFits'
        PROVE  Typed'
    BY <1>1, <1>2, <1>3, <1>4 DEF Typed, TypeOK
  <1>5. CASE Recv
    <2>1. channel \in Seq(Events) /\ channel # <<>> /\ channel' = Tail(channel)
          /\ UNCHANGED <<open_date, base, rotated, faults>>
      BY <1>1, <1>5 DEF TypeOK, Recv, diskVars
    <2>2. Tail(channel) \in Seq(Events) /\ Head(channel) \in Events
      BY <2>1, Tailed
    <2>3. WriterFits'
      BY <1>1, <1>2, <1>5, <2>1, <2>2, WriterMoves DEF WriterFits, TypeOK
    <2> QED
      BY <1>1, <1>4, <1>5, <2>1, <2>2, <2>3, WriterMoves DEF TypeOK
  <1>6. CASE CloseFile
    <2>1. UNCHANGED <<channel, base, rotated, faults>> /\ open_date' = None
          /\ writer.pc = "rotate"
      BY <1>6 DEF CloseFile, diskVars
    <2>2. WriterFits'
      BY <1>1, <1>2, <1>6, <2>1, WriterMoves DEF WriterFits
    <2> QED
      BY <1>1, <1>4, <1>6, <2>1, <2>2, WriterMoves DEF TypeOK
  <1>7. CASE RenameFile \/ RenameFails
    <2>1. UNCHANGED <<channel, open_date>> /\ writer.pc = "rename" /\ faults' \in Nat
      BY <1>1, <1>7 DEF RenameFile, RenameFails, TypeOK
    <2>2. WriterFits'
      BY <1>1, <1>2, <1>7, <2>1, WriterMoves DEF WriterFits
    <2>3. base' \in Seq(Events) /\ rotated' \in [Days -> Seq(Events)]
      <3>1. base \in Seq(Events) /\ rotated \in [Days -> Seq(Events)] /\ <<>> \in Seq(Events)
        BY <1>1 DEF TypeOK
      <3> QED
        BY <1>7, <3>1 DEF RenameFile, RenameFails, diskVars
    <2> QED
      BY <1>1, <1>4, <1>7, <2>1, <2>2, <2>3, WriterMoves DEF TypeOK
  <1>8. CASE OpenLogFile
    <2>1. UNCHANGED <<channel, base, rotated, faults>> /\ writer.pc = "open"
          /\ open_date' = writer.today
      BY <1>8 DEF OpenLogFile, diskVars
    <2>2. writer.today \in Days
      BY <1>1 DEF TypeOK, Writers
    <2>3. WriterFits'
      BY <1>1, <1>2, <1>8, <2>1, WriterMoves DEF WriterFits
    <2> QED
      BY <1>1, <1>4, <1>8, <2>1, <2>2, <2>3, WriterMoves DEF TypeOK
  <1> QED
    BY <1>5, <1>6, <1>7, <1>8

\* The steps that end write_event, with a line or without.
LEMMA WriteTyped ==
  ASSUME Typed, OpenFails \/ WriteLine \/ WriteTorn \/ WriteFails \/ ReportError
  PROVE  Typed'
  <1>1. TypeOK /\ Distinct /\ WriterFits /\ writer.ev \in Events
    BY DEF Typed, WriterFits, OpenFails, WriteLine, WriteTorn, WriteFails, ReportError
  <1>2. /\ UNCHANGED <<made, emitter, ring, deferred, channel, open_date, rotated, day, prior,
                       stepped>>
        /\ Events' = Events /\ writer' = Waiting
    BY DEF OpenFails, WriteLine, WriteTorn, WriteFails, ReportError, AppendLine, memVars, Events
  <1>3. Distinct' /\ WriterFits'
    BY <1>1, <1>2, SameSets, WaitingTyped DEF WriterFits
  <1>4. faults' \in Nat /\ torn' \subseteq Events /\ hurt' \subseteq Events
    BY <1>1 DEF TypeOK, OpenFails, WriteLine, WriteTorn, WriteFails, ReportError
  <1>5. base' \in Seq(Events)
    <2>1. base \in Seq(Events) /\ base' \in {base, Append(base, writer.ev)}
      BY <1>1 DEF TypeOK, OpenFails, WriteLine, WriteTorn, WriteFails, ReportError, AppendLine
    <2>2. Append(base, writer.ev) \in Seq(Events)
      BY <1>1, <2>1, Appended
    <2> QED
      BY <2>1, <2>2
  <1>6. writtenOn' \in Seq(Days) /\ Len(writtenOn') = made
    <2>1. /\ writtenOn \in Seq(Days) /\ Len(writtenOn) = made /\ writer.today \in Days
          /\ writtenOn' \in {writtenOn, [writtenOn EXCEPT ![writer.ev] = writer.today]}
      BY <1>1 DEF TypeOK, Writers, OpenFails, WriteLine, WriteTorn, WriteFails, ReportError, AppendLine
    <2>2. /\ [writtenOn EXCEPT ![writer.ev] = writer.today] \in Seq(Days)
          /\ Len([writtenOn EXCEPT ![writer.ev] = writer.today]) = made
      BY <1>1, <2>1 DEF Events
    <2> QED
      BY <2>1, <2>2
  <1>7. write_err' \in BOOLEAN
    <2>1. CASE OpenFails \/ WriteLine \/ WriteFails
      <3>1. write_err' = write_err
        BY <2>1 DEF OpenFails, WriteLine, WriteFails
      <3> QED
        BY <1>1, <3>1 DEF TypeOK
    <2>2. CASE WriteTorn \/ ReportError
      BY <2>2, Zenon DEF WriteTorn, ReportError
    <2> QED
      BY <2>1, <2>2
  <1>8. TypeOK'
    BY <1>1, <1>2, <1>4, <1>5, <1>6, <1>7, WaitingTyped DEF TypeOK
  <1> QED
    BY <1>3, <1>8 DEF Typed

\* The clock and the end of the process.
LEMMA OutsideTyped ==
  ASSUME Typed, Midnight \/ ClockSetBack \/ Crash
  PROVE  Typed'
  <1>1. TypeOK /\ Distinct /\ WriterFits /\ made \in Nat
    BY DEF Typed, TypeOK
  <1>2. CASE Midnight \/ ClockSetBack
    <2>1. /\ UNCHANGED <<made, emitter, ring, deferred, channel, writer, open_date, write_err, base, rotated,
                         torn, hurt, writtenOn, prior, faults>>
          /\ Events' = Events /\ day' \in Days
      <3>1. UNCHANGED <<made, emitter, ring, deferred, channel, writer, open_date, write_err, base, rotated,
                        torn, hurt, writtenOn, prior, faults>>
        BY <1>2 DEF Midnight, ClockSetBack, memVars, diskVars
      <3>2. day' \in Days
        <4>1. LastDay \in Nat /\ day \in 0..LastDay
          BY <1>1, AuditAssumption DEF TypeOK, Days
        <4>2. \/ day < LastDay /\ day' = day + 1
              \/ day > 0 /\ day' = day - 1
          BY <1>2 DEF Midnight, ClockSetBack
        <4> QED
          BY <4>1, <4>2 DEF Days
      <3> QED
        BY <3>1, <3>2 DEF Events
    <2>2. stepped' \in BOOLEAN
      BY <1>1, <1>2, Zenon DEF Midnight, ClockSetBack, TypeOK
    <2>3. Distinct' /\ WriterFits'
      BY <1>1, <2>1, SameSets DEF WriterFits
    <2> QED
      BY <1>1, <2>1, <2>2, <2>3 DEF Typed, TypeOK
  <1>3. CASE Crash
    <2>1. /\ UNCHANGED <<made, rotated, writtenOn, day, prior, stepped>> /\ Events' = Events
          /\ emitter' = [m \in Emitters |-> Idle] /\ ring' = <<>> /\ deferred' = {}
          /\ channel' = <<>> /\ writer' = Waiting /\ open_date' = None /\ faults' = faults + 1
      BY <1>3 DEF Crash, Events
    <2>2. Distinct' /\ emitter' \in [Emitters -> Callers] /\ WriterFits'
      BY <2>1, CrashSets, WaitingTyped DEF WriterFits
    <2>3. /\ base \in Seq(Events)
          /\ base # <<>> => Front(base) \in Seq(Events) /\ Last(base) \in Events
      BY <1>1, Fronted DEF TypeOK
    <2>4. base' \in Seq(Events) /\ torn' \subseteq Events /\ hurt' \subseteq Events
      BY <1>1, <1>3, <2>3 DEF Crash, TypeOK
    <2>5. write_err' \in BOOLEAN
      BY <1>3, Zenon DEF Crash
    <2> QED
      BY <1>1, <2>1, <2>2, <2>4, <2>5, WaitingTyped DEF Typed, TypeOK
  <1> QED
    BY <1>2, <1>3

(***************************************************************************)
(* Every step keeps the types, the events of the callers apart and the     *)
(* writer's stage in agreement with its file.                              *)
(***************************************************************************)
LEMMA TypedNext == Typed /\ [Next]_vars => Typed'
  <1> SUFFICES ASSUME Typed, [Next]_vars PROVE Typed'
    OBVIOUS
  <1>1. CASE UNCHANGED vars
    BY <1>1 DEF vars, memVars, diskVars, Typed, TypeOK, Distinct, WriterFits, Events
  <1> QED
    BY <1>1, StampTyped, RingStepTyped, SendTyped, WriterStepTyped, WriteTyped, OutsideTyped
       DEF Next

-----------------------------------------------------------------------------
(***************************************************************************)
(* The ring.                                                               *)
(***************************************************************************)
RingPart == RingFits /\ RingOrdered /\ RingKeepsRecent

LEMMA EventsFinite ==
  ASSUME made \in Nat, NEW S \in SUBSET Events
  PROVE  IsFiniteSet(S) /\ Cardinality(S) \in Nat
  <1>1. 1 \in Int /\ made \in Int
    OBVIOUS
  <1>2. IsFiniteSet(Events)
    BY <1>1, FS_Interval DEF Events
  <1>3. IsFiniteSet(S)
    BY <1>2, FS_Subset
  <1> QED
    BY <1>3, FS_CardinalityType

LEMMA RingInit == Init => RingPart
  <1> SUFFICES ASSUME Init PROVE RingPart
    OBVIOUS
  <1>1. Events = {} /\ ring = <<>> /\ Len(ring) = 0 /\ ToSet(ring) = {} /\ deferred = {}
    BY DEF Init, Events, ToSet
  <1>2. Pushing = {}
    BY DEF Init, Pushing, Idle
  <1> QED
    BY <1>1, <1>2 DEF RingPart, RingFits, RingOrdered, RingKeepsRecent, Unpushed

(***************************************************************************)
(* A stamped event waits for the ring; everything that is in the ring or   *)
(* has left it precedes it.                                                *)
(***************************************************************************)
LEMMA Stamped ==
  ASSUME Typed, NEW m \in Emitters, Stamp(m)
  PROVE  /\ \A e \in Events : prior'[e] = prior[e]
         /\ prior'[made + 1].pushed = Events \ Unpushed
         /\ prior'[made + 1].sent = Events \ Emitting
         /\ Events' = Events \cup {made + 1} /\ made + 1 \notin Events
         /\ Unpushed' = Unpushed \cup {made + 1} /\ Emitting' = Emitting \cup {made + 1}
         /\ \A e \in Events : writtenOn'[e] = writtenOn[e]
  <1> DEFINE stamp == [pushed |-> Events \ Unpushed, sent |-> Events \ Emitting]
  <1>1. /\ prior' = Append(prior, stamp) /\ made' = made + 1 /\ made \in Nat
        /\ writtenOn' = Append(writtenOn, 0) /\ UNCHANGED deferred
        /\ prior \in Seq(Stamps) /\ Len(prior) = made
        /\ writtenOn \in Seq(Days) /\ Len(writtenOn) = made
    BY DEF Typed, TypeOK, Stamp, memVars
  <1>2. stamp.pushed = Events \ Unpushed /\ stamp.sent = Events \ Emitting
    OBVIOUS
  <1> HIDE DEF stamp
  <1>3. prior'[made + 1] = stamp /\ \A e \in 1..made : prior'[e] = prior[e]
    BY <1>1
  <1>4. \A e \in 1..made : writtenOn'[e] = writtenOn[e]
    BY <1>1
  <1>5. Events' = Events \cup {made + 1} /\ made + 1 \notin Events
    BY <1>1 DEF Events
  <1>6. Pushing' = Pushing \cup {made + 1} /\ Sending' = Sending
    BY StampSets DEF Typed, Callings
  <1>7. Unpushed' = Unpushed \cup {made + 1} /\ Emitting' = Emitting \cup {made + 1}
    BY <1>1, <1>6 DEF Unpushed, Emitting
  <1> QED
    BY <1>2, <1>3, <1>4, <1>5, <1>7 DEF Events

LEMMA StampRing ==
  ASSUME Typed, RingPart, NEW m \in Emitters, Stamp(m)
  PROVE  RingPart'
  <1>1. UNCHANGED <<ring, deferred, faults>>
    BY DEF Stamp, memVars
  <1>2. /\ ToSet(ring) \subseteq Events /\ deferred \subseteq Events
        /\ \A i \in 1..Len(ring) : ring[i] \in Events
    BY ToSetIs DEF Typed, TypeOK
  <1>3. RingFits'
    <2>1. Pushing' \cap deferred' = {}
      BY <1>1, <1>2, Stamped, StampSets DEF RingPart, RingFits, Typed, Callings
    <2>2. (Unpushed \cap ToSet(ring))' = {}
      BY <1>1, <1>2, Stamped DEF RingPart, RingFits
    <2>3. ASSUME NEW e \in Events' PROVE prior'[e].pushed \subseteq Events' \ Unpushed'
      <3>1. CASE e = made + 1
        BY <3>1, Stamped
      <3>2. CASE e \in Events
        <4>1. prior[e].pushed \subseteq Events \ Unpushed
          BY <3>2 DEF RingPart, RingFits
        <4> QED
          BY <3>2, <4>1, Stamped
      <3> QED
        BY <3>1, <3>2, Stamped
    <2> QED
      BY <2>1, <2>2, <2>3 DEF RingFits
  <1>4. RingOrdered'
    BY <1>1, <1>2, Stamped DEF RingPart, RingOrdered
  <1>5. RingKeepsRecent'
    <2>1. \A e \in Events : PushedSince(e)' = PushedSince(e)
      BY Stamped DEF PushedSince
    <2>2. (Events \ (Unpushed \cup ToSet(ring)))' \subseteq Events \ (Unpushed \cup ToSet(ring))
      BY <1>1, Stamped
    <2> QED
      BY <1>1, <2>1, <2>2 DEF RingPart, RingKeepsRecent
  <1> QED
    BY <1>3, <1>4, <1>5 DEF RingPart

(***************************************************************************)
(* The heart of the argument: a push appends an event that precedes none   *)
(* of those in the ring, so the ring stays in order; and the event that    *)
(* falls out of a full ring has a full ring of others behind it.           *)
(***************************************************************************)
LEMMA PushRing ==
  ASSUME Typed, RingPart, NEW e \in Unpushed, e \in Events, ring' = Pushed(e),
         Unpushed' = Unpushed \ {e}, Pushing' \cap deferred' = {},
         UNCHANGED <<made, prior, faults>>
  PROVE  RingPart'
  <1>1. /\ ring \in Seq(Events) /\ Events' = Events /\ Len(ring) \in Nat /\ made \in Nat
        /\ ToSet(ring) \subseteq Events /\ faults \in Nat /\ TypeOK
    <2>1. /\ ring \in Seq(Events) /\ made \in Nat /\ faults \in Nat /\ TypeOK
      BY DEF Typed, TypeOK
    <2>2. Events' = Events
      BY DEF Events
    <2>3. Len(ring) \in Nat /\ ToSet(ring) \subseteq Events
      BY <2>1, ToSetIs
    <2> QED
      BY <2>1, <2>2, <2>3
  <1>2. /\ Unpushed \cap ToSet(ring) = {} /\ e \notin ToSet(ring)
        /\ \A x \in Events : prior[x].pushed \subseteq Events \ Unpushed
    BY DEF RingPart, RingFits
  <1>3. \A i, j \in 1..Len(ring) : i < j =>
            ring[i] # ring[j] /\ ring[j] \notin prior[ring[i]].pushed
    BY DEF RingPart, RingOrdered
  <1> DEFINE rest == IF Len(ring) >= RingCapacity THEN Tail(ring) ELSE ring
  <1>4. /\ rest \in Seq(Events) /\ ToSet(rest) \subseteq ToSet(ring)
        /\ \A i, j \in 1..Len(rest) : i < j =>
               rest[i] # rest[j] /\ rest[j] \notin prior[rest[i]].pushed
    <2>1. CASE Len(ring) < RingCapacity
      BY <1>1, <1>3, <2>1
    <2>2. CASE Len(ring) >= RingCapacity
      <3>1. ring # <<>>
        BY <1>1, <2>2
      <3>2. /\ rest = Tail(ring) /\ Tail(ring) \in Seq(Events) /\ Len(Tail(ring)) = Len(ring) - 1
            /\ \A i \in 1..Len(ring) - 1 : Tail(ring)[i] = ring[i + 1]
            /\ ToSet(Tail(ring)) \subseteq ToSet(ring)
        BY <1>1, <2>2, <3>1, Tailed
      <3> HIDE DEF rest
      <3>3. ASSUME NEW i \in 1..Len(rest), NEW j \in 1..Len(rest), i < j
            PROVE  rest[i] # rest[j] /\ rest[j] \notin prior[rest[i]].pushed
        <4>1. /\ i + 1 \in 1..Len(ring) /\ j + 1 \in 1..Len(ring) /\ i + 1 < j + 1
              /\ rest[i] = ring[i + 1] /\ rest[j] = ring[j + 1]
          BY <1>1, <3>2, <3>3
        <4> QED
          BY <1>3, <4>1
      <3> QED
        BY <3>2, <3>3
    <2>3. Len(ring) < RingCapacity \/ Len(ring) >= RingCapacity
      BY <1>1
    <2> HIDE DEF rest
    <2> QED
      BY <2>1, <2>2, <2>3
  <1>5. ring' = Append(rest, e)
    BY DEF Pushed
  <1>6. /\ Len(ring) >= RingCapacity => ring # <<>> /\ ToSet(rest) = ToSet(Tail(ring))
        /\ Len(ring) < RingCapacity => rest = ring
        /\ Len(ring) >= RingCapacity => Len(rest) = Len(ring) - 1
    BY <1>1, PushedSeq, Tailed
  <1> HIDE DEF rest
  <1>7. /\ Len(ring') = Len(rest) + 1 /\ Len(rest) \in Nat /\ ring' \in Seq(Events)
        /\ ring'[Len(rest) + 1] = e /\ \A i \in 1..Len(rest) : ring'[i] = rest[i]
        /\ ToSet(ring') = ToSet(rest) \cup {e}
    BY <1>4, <1>5, Appended
  <1>8. RingOrdered'
    <2> SUFFICES ASSUME NEW i \in 1..Len(ring'), NEW j \in 1..Len(ring'), i < j
                 PROVE  ring'[i] # ring'[j] /\ ring'[j] \notin prior[ring'[i]].pushed
      BY DEF RingOrdered
    <2>1. i \in 1..Len(rest) /\ ring'[i] = rest[i] /\ rest[i] \in ToSet(ring)
      <3>1. i \in 1..Len(rest)
        BY <1>7
      <3> QED
        BY <1>4, <1>7, <3>1, ToSetIs
    <2>2. CASE j \in 1..Len(rest)
      BY <1>4, <1>7, <2>1, <2>2
    <2>3. CASE j = Len(rest) + 1
      BY <1>1, <1>2, <1>7, <2>1, <2>3
    <2> QED
      BY <1>7, <2>2, <2>3
  <1>9. RingFits'
    BY <1>1, <1>2, <1>4, <1>7 DEF RingFits
  <1>10. RingKeepsRecent'
    <2> SUFFICES ASSUME NEW x \in Events, x \notin Unpushed', x \notin ToSet(ring'), faults = 0
                 PROVE  Cardinality(PushedSince(x)') >= RingCapacity
      BY <1>1 DEF RingKeepsRecent
    <2>1. x # e /\ x \notin Unpushed
      BY <1>7
    <2>2. PushedSince(x) \subseteq PushedSince(x)' /\ PushedSince(x)' \subseteq Events
      BY <1>1 DEF PushedSince
    <2>3. IsFiniteSet(PushedSince(x)') /\ Cardinality(PushedSince(x)') \in Nat
          /\ IsFiniteSet(PushedSince(x)) /\ Cardinality(PushedSince(x)) \in Nat
      BY <1>1, <2>2, EventsFinite
    <2>4. CASE x \notin ToSet(ring)
      <3>1. Cardinality(PushedSince(x)) >= RingCapacity
        BY <2>1, <2>4 DEF RingPart, RingKeepsRecent
      <3>2. Cardinality(PushedSince(x)) <= Cardinality(PushedSince(x)')
        BY <2>2, <2>3, FS_Subset
      <3> QED
        BY <2>3, <3>1, <3>2
    <2>5. CASE x \in ToSet(ring)
      <3>1. Len(ring) >= RingCapacity /\ ring # <<>> /\ x \notin ToSet(Tail(ring))
        BY <1>1, <1>6, <1>7, <2>5
      <3>2. x = Head(ring) /\ x = ring[1]
        BY <1>1, <2>5, <3>1, Tailed
      <3>3. ASSUME NEW y \in ToSet(Tail(ring)) PROVE y # x /\ y \in Events /\ y \notin prior[x].pushed
        <4>1. PICK i \in 1..Len(ring) - 1 : y = ring[i + 1]
          <5> DEFINE tail == Tail(ring)
          <5>1. /\ tail \in Seq(Events) /\ Len(tail) = Len(ring) - 1 /\ y \in ToSet(tail)
                /\ \A i \in 1..Len(ring) - 1 : tail[i] = ring[i + 1]
            BY <1>1, <3>1, Tailed
          <5> HIDE DEF tail
          <5>2. PICK i \in 1..Len(tail) : tail[i] = y
            BY <5>1, ToSetIs
          <5> QED
            BY <5>1, <5>2
        <4>2. 1 \in 1..Len(ring) /\ i + 1 \in 1..Len(ring) /\ 1 < i + 1
          BY <1>1, <4>1
        <4> QED
          BY <1>1, <1>3, <3>1, <3>2, <4>1, <4>2
      <3>4. ToSet(ring') \subseteq PushedSince(x)'
        <4>1. ToSet(Tail(ring)) \cap Unpushed = {}
          BY <1>1, <1>2, <3>1, Tailed
        <4>2. \A y \in ToSet(Tail(ring)) : y \in PushedSince(x)'
          BY <1>1, <3>3, <4>1 DEF PushedSince
        <4>3. e \in PushedSince(x)'
          BY <1>1, <1>2, <2>1 DEF PushedSince
        <4> QED
          BY <1>6, <1>7, <3>1, <4>2, <4>3
      <3>5. ring' \in Injection(1..Len(ring'), PushedSince(x)')
        <4>1. \A i \in 1..Len(ring') : ring'[i] \in PushedSince(x)'
          BY <1>7, <3>4, ToSetIs
        <4>2. DOMAIN ring' = 1..Len(ring') /\ Len(ring') \in Nat
          BY <1>7
        <4>3. \A i, j \in 1..Len(ring') : ring'[i] = ring'[j] => i = j
          BY <1>8, <4>2 DEF RingOrdered
        <4>4. ring' \in [1..Len(ring') -> PushedSince(x)']
          BY <1>7, <4>1, <4>2
        <4> QED
          BY <4>2, <4>3, <4>4 DEF Injection, IsInjective
      <3>6. Cardinality(1..Len(ring')) <= Cardinality(PushedSince(x)')
        BY <2>3, <3>5, FS_Injection
      <3>7. Cardinality(1..Len(ring')) = Len(ring')
        <4>1. 1 \in Int /\ Len(ring') \in Int /\ ~(1 > Len(ring')) /\ Len(ring') - 1 + 1 = Len(ring')
          BY <1>7
        <4> QED
          BY <4>1, FS_Interval
      <3> QED
        BY <1>1, <1>6, <1>7, <2>3, <3>1, <3>6, <3>7
    <2> QED
      BY <2>4, <2>5
  <1> QED
    BY <1>8, <1>9, <1>10 DEF RingPart

(***************************************************************************)
(* The other steps leave the ring and those who wait for it alone, or      *)
(* empty both.                                                             *)
(***************************************************************************)
LEMMA SameRing ==
  ASSUME Typed, RingPart, UNCHANGED <<made, ring, prior>>, Unpushed' = Unpushed,
         Pushing' \cap deferred' = {}, faults' \in {faults, faults + 1}
  PROVE  RingPart'
  <1>1. Events' = Events /\ faults \in Nat /\ (faults > 0 => faults' > 0)
    BY DEF Events, Typed, TypeOK
  <1>2. \A e : PushedSince(e)' = PushedSince(e)
    BY <1>1 DEF PushedSince
  <1>3. RingKeepsRecent'
    BY <1>1, <1>2 DEF RingPart, RingKeepsRecent
  <1> QED
    BY <1>1, <1>3 DEF RingPart, RingFits, RingOrdered

LEMMA CrashRing ==
  ASSUME Typed, RingPart, Crash
  PROVE  RingPart'
  <1>1. /\ ring' = <<>> /\ deferred' = {} /\ faults' = faults + 1 /\ faults \in Nat
        /\ UNCHANGED <<made, prior>> /\ emitter' = [m \in Emitters |-> Idle]
    BY DEF Crash, Typed, TypeOK
  <1>2. Unpushed' = {} /\ Pushing' = {} /\ Events' = Events /\ faults' > 0
    BY <1>1, CrashSets DEF Unpushed, Events
  <1>3. RingFits'
    BY <1>1, <1>2 DEF RingPart, RingFits
  <1>4. RingOrdered'
    BY <1>1 DEF RingOrdered
  <1> QED
    BY <1>2, <1>3, <1>4 DEF RingPart, RingKeepsRecent

LEMMA RingNext == Typed /\ RingPart /\ [Next]_vars => RingPart'
  <1> SUFFICES ASSUME Typed, RingPart, [Next]_vars PROVE RingPart'
    OBVIOUS
  <1>1. Callings /\ Pushing \cap deferred = {} /\ deferred \subseteq Events
    BY DEF Typed, Callings, TypeOK, RingPart, RingFits
  <1>2. ASSUME NEW m \in Emitters, PushInline(m) PROVE RingPart'
    <2>1. /\ emitter[m].pc = "ring" /\ emitter' = [emitter EXCEPT ![m].pc = "send"]
          /\ ring' = Pushed(emitter[m].ev) /\ UNCHANGED <<made, prior, faults, deferred>>
      BY <1>2 DEF PushInline
    <2>2. /\ emitter[m].ev \in Pushing /\ emitter[m].ev \in Events
          /\ Pushing' = Pushing \ {emitter[m].ev}
      BY <1>1, <2>1, PushSets
    <2>3. emitter[m].ev \in Unpushed /\ Unpushed' = Unpushed \ {emitter[m].ev}
      BY <1>1, <2>1, <2>2 DEF Unpushed
    <2> QED
      BY <1>1, <2>1, <2>2, <2>3, PushRing
  <1>3. ASSUME NEW m \in Emitters, PushDeferred(m) PROVE RingPart'
    <2>1. /\ emitter[m].pc = "ring" /\ emitter' = [emitter EXCEPT ![m].pc = "send"]
          /\ deferred' = deferred \cup {emitter[m].ev} /\ UNCHANGED <<made, ring, prior, faults>>
      BY <1>3 DEF PushDeferred
    <2>2. emitter[m].ev \in Pushing /\ Pushing' = Pushing \ {emitter[m].ev}
      BY <1>1, <2>1, PushSets
    <2>3. Unpushed' = Unpushed /\ Pushing' \cap deferred' = {}
      BY <1>1, <2>1, <2>2 DEF Unpushed
    <2> QED
      BY <2>1, <2>3, SameRing
  <1>4. ASSUME NEW e \in deferred, Push(e) PROVE RingPart'
    <2>1. /\ ring' = Pushed(e) /\ deferred' = deferred \ {e}
          /\ UNCHANGED <<made, prior, faults, emitter>>
      BY <1>4 DEF Push
    <2>2. Pushing' = Pushing
      BY <2>1, SameSets
    <2>3. e \in Unpushed /\ Unpushed' = Unpushed \ {e} /\ Pushing' \cap deferred' = {} /\ e \in Events
      BY <1>1, <2>1, <2>2 DEF Unpushed
    <2> QED
      BY <2>1, <2>3, PushRing
  <1>5. ASSUME NEW m \in Emitters, Send(m) PROVE RingPart'
    <2>1. UNCHANGED <<made, ring, prior, deferred, faults>>
      BY <1>5 DEF Send, memVars
    <2>2. Pushing' = Pushing
      BY <1>1, <1>5, SendSets
    <2> QED
      BY <1>1, <2>1, <2>2, SameRing DEF Unpushed
  <1>6. ASSUME UNCHANGED <<made, ring, prior, deferred, emitter>>, faults' \in {faults, faults + 1}
        PROVE  RingPart'
    <2>1. Pushing' = Pushing
      BY <1>6, SameSets
    <2> QED
      BY <1>1, <1>6, <2>1, SameRing DEF Unpushed
  <1>7. CASE Query \/ UNCHANGED vars
    BY <1>6, <1>7 DEF Query, vars, memVars
  <1>8. CASE Recv \/ CloseFile \/ RenameFile \/ RenameFails \/ OpenLogFile
    BY <1>6, <1>8 DEF Recv, CloseFile, RenameFile, RenameFails, OpenLogFile, memVars
  <1>9. CASE OpenFails \/ WriteLine \/ WriteTorn \/ WriteFails \/ ReportError \/ Midnight \/ ClockSetBack
    BY <1>6, <1>9 DEF OpenFails, WriteLine, WriteTorn, WriteFails, ReportError, AppendLine, Midnight,
           ClockSetBack, memVars
  <1> QED
    BY <1>2, <1>3, <1>4, <1>5, <1>7, <1>8, <1>9, StampRing, CrashRing DEF Next

-----------------------------------------------------------------------------
(***************************************************************************)
(* From the callers through the channel and the writer to the files.       *)
(***************************************************************************)
LEMMA PipeSets ==
  ASSUME Typed
  PROVE  /\ ToSet(channel) \subseteq Events /\ InHand \subseteq Events /\ Lines \subseteq Events
         /\ Emitting \subseteq Events /\ torn \subseteq Events /\ ToSet(base) \subseteq Lines
         /\ \A d \in Days : ToSet(rotated[d]) \subseteq Lines
         /\ \A x \in Lines : x \in ToSet(base) \/ \E d \in Days : x \in ToSet(rotated[d])
         /\ \A i \in 1..Len(channel) : channel[i] \in ToSet(channel)
         /\ channel \in Seq(Events) /\ base \in Seq(Events)
  <1>1. /\ channel \in Seq(Events) /\ base \in Seq(Events) /\ torn \subseteq Events
        /\ \A d \in Days : rotated[d] \in Seq(Events)
    BY DEF Typed, TypeOK
  <1>2. /\ ToSet(channel) \subseteq Events /\ ToSet(base) \subseteq Events
        /\ \A d \in Days : ToSet(rotated[d]) \subseteq Events
        /\ \A i \in 1..Len(channel) : channel[i] \in ToSet(channel)
    BY <1>1, ToSetIs
  <1>3. InHand \subseteq Events
    BY DEF Typed, WriterFits, InHand
  <1>4. Emitting \subseteq Events
    BY CallerSets DEF Typed, Callings, Emitting
  <1> QED
    BY <1>1, <1>2, <1>3, <1>4 DEF Lines

LEMMA PipeInit == Init => PipeFits
  <1> SUFFICES ASSUME Init PROVE PipeFits
    OBVIOUS
  <1>1. Events = {} /\ Typed
    BY TypedInit DEF Init, Events
  <1>2. Emitting = {} /\ ToSet(channel) = {} /\ InHand = {} /\ Lines = {} /\ Len(channel) = 0
    BY <1>1, PipeSets DEF Init
  <1> QED
    BY <1>1, <1>2 DEF PipeFits

(***************************************************************************)
(* A step that brings nothing to the channel.                              *)
(***************************************************************************)
LEMMA PipeShrinks ==
  ASSUME Typed, PipeFits, UNCHANGED <<made, prior, channel, torn>>, Emitting' \subseteq Emitting,
         InHand' \subseteq InHand, Lines' \subseteq Lines
  PROVE  PipeFits'
  <1>1. Events' = Events
    BY DEF Events
  <1> QED
    BY <1>1 DEF PipeFits, MayFollow

LEMMA StampPipe ==
  ASSUME Typed, PipeFits, NEW m \in Emitters, Stamp(m)
  PROVE  PipeFits'
  <1>1. UNCHANGED <<channel, writer, base, rotated, torn>> /\ InHand' = InHand /\ Lines' = Lines
    BY DEF Stamp, InHand, Lines
  <1>2. \A x, y \in Events : MayFollow(x, y) => MayFollow(x, y)'
    BY Stamped DEF MayFollow
  <1>3. ASSUME NEW e \in Events' PROVE prior'[e].sent \subseteq Events' \ Emitting'
    <2>1. CASE e = made + 1
      BY <2>1, Stamped
    <2>2. CASE e \in Events
      <3>1. prior[e].sent \subseteq Events \ Emitting
        BY <2>2 DEF PipeFits
      <3> QED
        BY <2>2, <3>1, Stamped
    <2> QED
      BY <2>1, <2>2, Stamped
  <1>4. (Emitting \cap (ToSet(channel) \cup InHand \cup Lines \cup torn))' = {}
    BY <1>1, PipeSets, Stamped DEF PipeFits
  <1>5. /\ \A i, j \in 1..Len(channel) : i < j => MayFollow(channel[i], channel[j])'
        /\ \A x \in InHand, y \in ToSet(channel) : MayFollow(x, y)'
        /\ \A x \in Lines, y \in InHand \cup ToSet(channel) : MayFollow(x, y)'
    BY <1>1, <1>2, PipeSets DEF PipeFits
  <1> QED
    BY <1>1, <1>3, <1>4, <1>5 DEF PipeFits

(***************************************************************************)
(* try_send: what a caller holds may follow everything that was sent.      *)
(***************************************************************************)
LEMMA SendPipe ==
  ASSUME Typed, PipeFits, NEW m \in Emitters, Send(m)
  PROVE  PipeFits'
  <1> DEFINE e == emitter[m].ev
  <1>1. /\ e \in Sending /\ e \in Events /\ e \notin Pushing
        /\ Sending' = Sending \ {e} /\ Pushing' = Pushing
    BY SendSets DEF Typed, Callings
  <1>2. e \in Emitting /\ Emitting' = Emitting \ {e}
    BY <1>1 DEF Emitting
  <1>3. /\ UNCHANGED <<made, prior, writer, base, rotated, torn>> /\ InHand' = InHand
        /\ Lines' = Lines /\ Events' = Events
        /\ channel' = channel \/ channel' = Append(channel, e)
    BY DEF Send, memVars, diskVars, InHand, Lines, Events
  <1> HIDE DEF e
  <1>4. CASE channel' = channel
    BY <1>2, <1>3, <1>4, PipeShrinks
  <1>5. CASE channel' = Append(channel, e)
    <2>1. /\ channel' \in Seq(Events) /\ Len(channel') = Len(channel) + 1 /\ Len(channel) \in Nat
          /\ \A i \in 1..Len(channel) : channel'[i] = channel[i]
          /\ channel'[Len(channel) + 1] = e /\ ToSet(channel') = ToSet(channel) \cup {e}
      BY <1>1, <1>5, PipeSets, Appended, ToSetIs
    <2>2. \A x \in ToSet(channel) \cup InHand \cup Lines : MayFollow(x, e)
      BY <1>2, <1>3, PipeSets DEF PipeFits, MayFollow
    <2>3. \A i, j \in 1..Len(channel') : i < j => MayFollow(channel'[i], channel'[j])
      <3> SUFFICES ASSUME NEW i \in 1..Len(channel'), NEW j \in 1..Len(channel'), i < j
                   PROVE  MayFollow(channel'[i], channel'[j])
        OBVIOUS
      <3>1. i \in 1..Len(channel) /\ channel'[i] = channel[i] /\ channel[i] \in ToSet(channel)
        BY <2>1, PipeSets
      <3>2. CASE j \in 1..Len(channel)
        BY <1>3, <2>1, <3>1, <3>2 DEF PipeFits, MayFollow
      <3>3. CASE j = Len(channel) + 1
        BY <2>1, <2>2, <3>1, <3>3
      <3> QED
        BY <2>1, <3>2, <3>3
    <2>4. /\ \A x \in InHand, y \in ToSet(channel') : MayFollow(x, y)
          /\ \A x \in Lines, y \in InHand \cup ToSet(channel') : MayFollow(x, y)
      BY <1>3, <2>1, <2>2 DEF PipeFits, MayFollow
    <2>5. /\ (Emitting \cap (ToSet(channel) \cup InHand \cup Lines \cup torn))' = {}
          /\ (torn \cap (ToSet(channel) \cup InHand))' = {}
          /\ \A x \in Events' : prior'[x].sent \subseteq Events' \ Emitting'
      BY <1>2, <1>3, <2>1 DEF PipeFits
    <2> QED
      BY <1>3, <2>3, <2>4, <2>5 DEF PipeFits, MayFollow
  <1> QED
    BY <1>3, <1>4, <1>5

(***************************************************************************)
(* recv: the oldest event of the channel is next.                          *)
(***************************************************************************)
LEMMA RecvPipe ==
  ASSUME Typed, PipeFits, Recv
  PROVE  PipeFits'
  <1>1. /\ channel \in Seq(Events) /\ channel # <<>> /\ channel' = Tail(channel)
        /\ UNCHANGED <<made, emitter, prior, base, rotated, torn>> /\ writer.pc = "recv"
        /\ Lines' = Lines /\ Events' = Events
    BY PipeSets DEF Recv, diskVars, Lines, Events
  <1>2. Emitting' = Emitting
    BY <1>1, SameSets DEF Emitting
  <1>3. InHand = {} /\ InHand' = {Head(channel)}
    <2>1. writer'.ev = Head(channel) /\ writer'.pc # "recv"
      BY WriterMoves
    <2> QED
      BY <1>1, <2>1 DEF InHand
  <1>4. /\ Len(channel') = Len(channel) - 1 /\ Len(channel) \in Nat \ {0}
        /\ \A i \in 1..Len(channel) - 1 : channel'[i] = channel[i + 1]
        /\ ToSet(channel) = ToSet(channel') \cup {Head(channel)} /\ Head(channel) = channel[1]
        /\ channel' \in Seq(Events)
    BY <1>1, Tailed
  <1>5. ASSUME NEW i \in 1..Len(channel'), NEW j \in 1..Len(channel'), i < j
        PROVE  MayFollow(channel'[i], channel'[j])
    <2>1. /\ i + 1 \in 1..Len(channel) /\ j + 1 \in 1..Len(channel) /\ i + 1 < j + 1
          /\ channel'[i] = channel[i + 1] /\ channel'[j] = channel[j + 1]
      BY <1>4, <1>5
    <2> QED
      BY <1>1, <2>1 DEF PipeFits, MayFollow
  <1>6. ASSUME NEW y \in ToSet(channel') PROVE MayFollow(Head(channel), y)
    <2>1. PICK i \in 1..Len(channel') : y = channel'[i]
      BY <1>4, ToSetIs
    <2>2. 1 \in 1..Len(channel) /\ i + 1 \in 1..Len(channel) /\ 1 < i + 1 /\ y = channel[i + 1]
      BY <1>4, <2>1
    <2> QED
      BY <1>1, <1>4, <2>2 DEF PipeFits, MayFollow
  <1>7. \A x \in Lines', y \in InHand' \cup ToSet(channel') : MayFollow(x, y)
    BY <1>1, <1>3, <1>4 DEF PipeFits, MayFollow
  <1>8. /\ (Emitting \cap (ToSet(channel) \cup InHand \cup Lines \cup torn))' = {}
        /\ (torn \cap (ToSet(channel) \cup InHand))' = {}
        /\ \A x \in Events' : prior'[x].sent \subseteq Events' \ Emitting'
    BY <1>1, <1>2, <1>3, <1>4 DEF PipeFits
  <1> QED
    BY <1>1, <1>3, <1>5, <1>6, <1>7, <1>8 DEF PipeFits, MayFollow

(***************************************************************************)
(* A line is written: its event moves from the writer's hand to the file.  *)
(***************************************************************************)
LEMMA LineWritten ==
  ASSUME Typed, WriteLine \/ WriteTorn
  PROVE  /\ writer.pc = "write" /\ writer.ev \in Events /\ InHand = {writer.ev} /\ InHand' = {}
         /\ base' \in Seq(Events) /\ Len(base') = Len(base) + 1 /\ Len(base) \in Nat
         /\ \A i \in 1..Len(base) : base'[i] = base[i]
         /\ base'[Len(base) + 1] = writer.ev /\ ToSet(base') = ToSet(base) \cup {writer.ev}
         /\ Lines' = Lines \cup {writer.ev}
         /\ UNCHANGED <<made, emitter, channel, open_date, rotated, day, prior, excused, stepped>>
  <1>1. /\ writer.pc = "write" /\ base' = Append(base, writer.ev) /\ writer' = Waiting
        /\ UNCHANGED <<made, emitter, channel, open_date, rotated, day, prior, excused, stepped>>
    BY DEF WriteLine, WriteTorn, AppendLine
  <1>2. writer.ev \in Events /\ InHand = {writer.ev} /\ InHand' = {}
    BY <1>1, WaitingTyped DEF Typed, WriterFits, InHand
  <1>3. base \in Seq(Events) /\ Len(base) \in Nat
    BY PipeSets, ToSetIs
  <1>4. /\ base' \in Seq(Events) /\ Len(base') = Len(base) + 1
        /\ \A i \in 1..Len(base) : base'[i] = base[i]
        /\ base'[Len(base) + 1] = writer.ev /\ ToSet(base') = ToSet(base) \cup {writer.ev}
    BY <1>1, <1>2, <1>3, Appended
  <1>5. Lines' = Lines \cup {writer.ev}
    BY <1>1, <1>4 DEF Lines
  <1> QED
    BY <1>1, <1>2, <1>3, <1>4, <1>5

LEMMA WritePipe ==
  ASSUME Typed, PipeFits, WriteLine \/ WriteTorn
  PROVE  PipeFits'
  <1>1. torn' \subseteq torn \cup {writer.ev}
    BY DEF WriteLine, WriteTorn
  <1>2. Emitting' = Emitting /\ Events' = Events
    BY LineWritten, SameSets DEF Emitting, Events
  <1>3. \A y \in ToSet(channel) : MayFollow(writer.ev, y)
    BY LineWritten DEF PipeFits
  <1>4. \A x \in Lines', y \in ToSet(channel') : MayFollow(x, y)
    BY <1>3, LineWritten DEF PipeFits, MayFollow
  <1>5. writer.ev \notin ToSet(channel) /\ writer.ev \notin Emitting
    BY <1>3, LineWritten DEF PipeFits, MayFollow
  <1>6. /\ (Emitting \cap (ToSet(channel) \cup InHand \cup Lines \cup torn))' = {}
        /\ (torn \cap (ToSet(channel) \cup InHand))' = {}
        /\ \A x \in Events' : prior'[x].sent \subseteq Events' \ Emitting'
    BY <1>1, <1>2, <1>5, LineWritten DEF PipeFits
  <1>7. \A i, j \in 1..Len(channel') : i < j => MayFollow(channel'[i], channel'[j])
    BY LineWritten DEF PipeFits, MayFollow
  <1> QED
    BY <1>4, <1>6, <1>7, LineWritten DEF PipeFits, MayFollow

(***************************************************************************)
(* Renaming the file moves its lines; what was under the new name is gone. *)
(***************************************************************************)
LEMMA Renamed ==
  ASSUME Typed, RenameFile
  PROVE  /\ writer.pc = "rename" /\ writer.old \in Days /\ base' = <<>> /\ rotated'[writer.old] = base
         /\ \A d \in Days \ {writer.old} : rotated'[d] = rotated[d]
         /\ ToSet(base') = {} /\ Lines' \subseteq Lines /\ InHand' = InHand
         /\ rotated[writer.old] = <<>> => Lines' = Lines
         /\ UNCHANGED <<made, emitter, channel, open_date, torn, hurt, writtenOn, day, prior,
                        excused, faults, stepped>>
  <1>1. /\ writer.pc = "rename" /\ writer.old \in Days /\ base' = <<>>
        /\ rotated' = [rotated EXCEPT ![writer.old] = base]
        /\ UNCHANGED <<made, emitter, channel, open_date, torn, hurt, writtenOn, day, prior,
                       excused, faults, stepped>>
    BY DEF RenameFile, Typed, WriterFits
  <1>2. /\ rotated'[writer.old] = base
        /\ \A d \in Days \ {writer.old} : rotated'[d] = rotated[d]
    BY <1>1 DEF Typed, TypeOK
  <1>3. ToSet(<<>>) = {}
    BY DEF ToSet
  <1>4. InHand' = InHand
    BY <1>1, WriterMoves DEF InHand
  <1>5. Lines' \subseteq Lines
    BY <1>1, <1>2, <1>3 DEF Lines
  <1>6. rotated[writer.old] = <<>> => Lines \subseteq Lines'
    BY <1>1, <1>2, <1>3 DEF Lines
  <1> QED
    BY <1>1, <1>2, <1>3, <1>4, <1>5, <1>6

(***************************************************************************)
(* A crash drops what is in memory and at most the last line.              *)
(***************************************************************************)
LEMMA Crashed ==
  ASSUME Typed, Crash
  PROVE  /\ Emitting' = {} /\ ToSet(channel') = {} /\ Len(channel') = 0 /\ InHand' = {}
         /\ writer'.pc = "recv" /\ open_date' = None /\ faults' = faults + 1
         /\ UNCHANGED <<made, rotated, writtenOn, day, prior, stepped>>
         /\ excused' = excused \cup Emitting \cup ToSet(channel) \cup InHand
         /\ \/ base' = base /\ hurt' = hurt /\ torn' = torn
            \/ base # <<>> /\ hurt' = hurt \cup {Last(base)} /\ base' \in {base, Front(base)}
         /\ Lines' \subseteq Lines /\ Lines \subseteq Lines' \cup hurt'
  <1>1. /\ emitter' = [m \in Emitters |-> Idle] /\ channel' = <<>> /\ writer' = Waiting
        /\ open_date' = None /\ faults' = faults + 1
        /\ UNCHANGED <<made, rotated, writtenOn, day, prior, stepped>>
        /\ excused' = excused \cup Emitting \cup ToSet(channel) \cup InHand
    BY DEF Crash, InHand
  <1>2. Emitting' = {} /\ ToSet(channel') = {} /\ Len(channel') = 0 /\ InHand' = {} /\ writer'.pc = "recv"
    BY <1>1, CrashSets, WaitingTyped DEF Emitting, ToSet, InHand
  <1>3. \/ base' = base /\ hurt' = hurt /\ torn' = torn
        \/ base # <<>> /\ hurt' = hurt \cup {Last(base)} /\ base' \in {base, Front(base)}
    BY DEF Crash
  <1>4. base # <<>> => ToSet(base) = ToSet(Front(base)) \cup {Last(base)}
    BY PipeSets, Fronted
  <1>5. ToSet(base') \subseteq ToSet(base) /\ ToSet(base) \subseteq ToSet(base') \cup hurt'
    BY <1>3, <1>4
  <1>6. Lines' \subseteq Lines /\ Lines \subseteq Lines' \cup hurt'
    BY <1>1, <1>5 DEF Lines
  <1> QED
    BY <1>1, <1>2, <1>3, <1>6

LEMMA PipeNext == Typed /\ PipeFits /\ [Next]_vars => PipeFits'
  <1> SUFFICES ASSUME Typed, PipeFits, [Next]_vars PROVE PipeFits'
    OBVIOUS
  <1>1. ASSUME NEW m \in Emitters, PushInline(m) \/ PushDeferred(m) PROVE PipeFits'
    <2>1. /\ emitter[m].pc = "ring" /\ emitter' = [emitter EXCEPT ![m].pc = "send"]
          /\ UNCHANGED <<made, prior, channel, torn, writer, base, rotated>>
      BY <1>1 DEF PushInline, PushDeferred, diskVars
    <2>2. Emitting' = Emitting
      BY <2>1, PushSets DEF Typed, Callings, Emitting
    <2> QED
      BY <2>1, <2>2, PipeShrinks DEF InHand, Lines
  <1>2. ASSUME UNCHANGED <<made, emitter, prior, channel, torn>>, InHand' \subseteq InHand,
               Lines' \subseteq Lines
        PROVE  PipeFits'
    <2>1. Emitting' = Emitting
      BY <1>2, SameSets DEF Emitting
    <2> QED
      BY <1>2, <2>1, PipeShrinks
  <1>3. CASE Query \/ (\E e \in deferred : Push(e)) \/ Midnight \/ ClockSetBack \/ UNCHANGED vars
    <2>1. UNCHANGED <<made, emitter, prior, channel, torn, writer, base, rotated>>
      BY <1>3 DEF Query, Push, Midnight, ClockSetBack, vars, diskVars
    <2> QED
      BY <1>2, <2>1 DEF InHand, Lines
  <1>4. CASE CloseFile \/ RenameFails \/ OpenLogFile
    <2>1. UNCHANGED <<made, emitter, prior, channel, torn, base, rotated>> /\ writer.pc # "recv"
      BY <1>4 DEF CloseFile, RenameFails, OpenLogFile, diskVars
    <2>2. InHand' = InHand
      BY <1>4, <2>1, WriterMoves DEF InHand
    <2> QED
      BY <1>2, <2>1, <2>2 DEF Lines
  <1>5. CASE RenameFile
    BY <1>2, <1>5, Renamed
  <1>6. CASE OpenFails \/ WriteFails \/ ReportError
    <2>1. UNCHANGED <<made, emitter, prior, channel, torn, base, rotated>> /\ writer' = Waiting
      BY <1>6 DEF OpenFails, WriteFails, ReportError
    <2>2. InHand' = {}
      BY <2>1, WaitingTyped DEF InHand
    <2> QED
      BY <1>2, <2>1, <2>2 DEF Lines
  <1>7. CASE Crash
    <2>1. Events' = Events
      BY <1>7, Crashed DEF Events
    <2> QED
      BY <1>7, <2>1, Crashed DEF PipeFits
  <1> QED
    BY <1>1, <1>3, <1>4, <1>5, <1>6, <1>7, StampPipe, SendPipe, RecvPipe, WritePipe DEF Next

-----------------------------------------------------------------------------
(***************************************************************************)
(* The days.                                                               *)
(***************************************************************************)
DatePart == DatesFit /\ DatedAtMost

LEMMA HorizonTyped == Typed => Horizon \in Days /\ day \in Days /\ writer.today \in Days
  BY DEF Typed, TypeOK, WriterFits, Writers, Horizon

LEMMA HorizonTypedNext == Typed' => Horizon' \in Days /\ day' \in Days
  BY DEF Typed, TypeOK, WriterFits, Writers, Horizon

LEMMA DaysNat == Days \subseteq Nat
  BY AuditAssumption DEF Days

LEMMA DatesWritten ==
  ASSUME Typed
  PROVE  \A e \in Events : writtenOn[e] \in Nat
  <1>1. writtenOn \in Seq(Days) /\ Len(writtenOn) = made
    BY DEF Typed, TypeOK
  <1>2. \A e \in Events : writtenOn[e] \in Days
    BY <1>1 DEF Events
  <1> QED
    BY <1>2, DaysNat

LEMMA DateInit == Init => DatePart
  <1> SUFFICES ASSUME Init PROVE DatePart
    OBVIOUS
  <1>1. ToSet(<<>>) = {}
    BY DEF ToSet
  <1>2. writer.pc = "recv" /\ open_date = None /\ day = 0 /\ base = <<>>
        /\ \A d \in Days : rotated[d] = <<>>
    BY WaitingTyped DEF Init
  <1>3. Horizon = 0
    BY <1>2 DEF Horizon
  <1> QED
    BY <1>1, <1>2, <1>3 DEF DatePart, DatesFit, DatedAtMost

(***************************************************************************)
(* Steps that touch neither writer nor files, and stamps.                  *)
(***************************************************************************)
LEMMA SameDates ==
  ASSUME Typed, DatePart, UNCHANGED <<writer, open_date, base, rotated, day, stepped>>,
         \A e \in Events : writtenOn'[e] = writtenOn[e]
  PROVE  DatePart'
  <1>1. Horizon' = Horizon
    BY DEF Horizon
  <1>2. ToSet(base) \subseteq Events /\ \A d \in Days : ToSet(rotated[d]) \subseteq Events
    BY PipeSets
  <1> QED
    BY <1>1, <1>2 DEF DatePart, DatesFit, DatedAtMost

(***************************************************************************)
(* Steps that move no line: the horizon does not go back, and stays within *)
(* the days that the writer and the clock have seen.                       *)
(***************************************************************************)
LEMMA DatesMove ==
  ASSUME Typed, Typed', DatePart, UNCHANGED <<rotated, writtenOn, stepped>>,
         ToSet(base') \subseteq ToSet(base),
         ~stepped => /\ Horizon <= Horizon' /\ Horizon' <= day'
                     /\ writer'.pc # "recv" => Horizon' <= writer'.today /\ writer'.today <= day'
                     /\ writer'.pc \in {"rotate", "rename"} => Horizon' < writer'.today
  PROVE  DatePart'
  <1> SUFFICES ASSUME ~stepped PROVE DatePart'
    BY DEF DatePart, DatesFit, DatedAtMost
  <1>1. Horizon \in Nat /\ Horizon' \in Nat /\ Days \subseteq Nat
    BY HorizonTyped, HorizonTypedNext, DaysNat
  <1>2. \A e \in ToSet(base) : writtenOn[e] \in Nat
    BY PipeSets, DatesWritten
  <1>3. \A e \in ToSet(base') : writtenOn'[e] <= Horizon'
    BY <1>1, <1>2 DEF DatePart, DatesFit
  <1>4. \A d \in Days : rotated'[d] # <<>> => d < Horizon'
    BY <1>1 DEF DatePart, DatesFit
  <1> QED
    BY <1>3, <1>4 DEF DatePart, DatesFit, DatedAtMost

LEMMA WriterDates ==
  ASSUME Typed, Typed', DatePart,
         Recv \/ CloseFile \/ RenameFails \/ OpenLogFile \/ OpenFails \/ WriteFails \/ ReportError
  PROVE  DatePart'
  <1>1. UNCHANGED <<rotated, writtenOn, stepped, base, day>>
    BY DEF Recv, CloseFile, RenameFails, OpenLogFile, OpenFails, WriteFails, ReportError, diskVars
  <1>2. Horizon \in Nat /\ day \in Nat /\ writer.today \in Nat /\ (open_date \in Nat \/ open_date = None)
    BY HorizonTyped, DaysNat DEF Typed, TypeOK
  <1>3. ~stepped => /\ Horizon <= day
                    /\ writer.pc # "recv" => Horizon <= writer.today /\ writer.today <= day
                    /\ writer.pc \in {"rotate", "rename"} => Horizon < writer.today
    BY DEF DatePart, DatesFit
  <1> SUFFICES ASSUME ~stepped
               PROVE  /\ Horizon <= Horizon' /\ Horizon' <= day'
                      /\ writer'.pc # "recv" => Horizon' <= writer'.today /\ writer'.today <= day'
                      /\ writer'.pc \in {"rotate", "rename"} => Horizon' < writer'.today
    BY <1>1, DatesMove
  <1>4. CASE Recv
    <2>1. writer.pc = "recv" /\ UNCHANGED open_date
      BY <1>4 DEF Recv
    <2> QED
      BY <1>1, <1>2, <1>3, <1>4, <2>1, WriterMoves DEF Horizon
  <1>5. CASE CloseFile
    <2>1. writer.pc = "rotate" /\ open_date \in Days
      BY <1>5 DEF CloseFile, Typed, WriterFits
    <2> QED
      BY <1>1, <1>2, <1>3, <1>5, <2>1, WriterMoves DEF Horizon
  <1>6. CASE RenameFails
    <2>1. writer.pc = "rename"
      BY <1>6 DEF RenameFails
    <2> QED
      BY <1>1, <1>2, <1>3, <1>6, <2>1, WriterMoves DEF Horizon
  <1>7. CASE OpenLogFile
    <2>1. writer.pc = "open" /\ open_date' = writer.today
      BY <1>7 DEF OpenLogFile
    <2> QED
      BY <1>1, <1>2, <1>3, <1>7, <2>1, WriterMoves DEF Horizon
  <1>8. CASE OpenFails
    <2>1. writer.pc = "open" /\ open_date = None /\ open_date' = None /\ writer'.pc = "recv"
      BY <1>8, WaitingTyped DEF OpenFails, Typed, WriterFits
    <2> QED
      BY <1>1, <1>2, <1>3, <2>1 DEF Horizon
  <1>9. CASE WriteFails \/ ReportError
    <2>1. writer.pc = "write" /\ open_date' = open_date /\ writer'.pc = "recv"
      BY <1>9, WaitingTyped DEF WriteFails, ReportError
    <2> QED
      BY <1>1, <1>2, <1>3, <2>1 DEF Horizon
  <1> QED
    BY <1>4, <1>5, <1>6, <1>7, <1>8, <1>9

\* A file gets the name of a day that is over.
LEMMA RenameDates ==
  ASSUME Typed, DatePart, RenameFile
  PROVE  DatePart'
  <1> SUFFICES ASSUME ~stepped PROVE DatePart'
    BY Renamed DEF DatePart, DatesFit, DatedAtMost
  <1>1. Horizon = writer.old /\ writer.old \in Nat /\ writer.today \in Nat /\ day \in Nat
    BY Renamed, HorizonTyped, DaysNat DEF Horizon
  <1>2. Horizon' = writer.today /\ writer'.pc = "open" /\ writer'.today = writer.today
    BY Renamed, WriterMoves DEF Horizon
  <1>3. writer.old < writer.today /\ writer.today <= day
    BY <1>1, Renamed DEF DatePart, DatesFit
  <1>4. ASSUME NEW d \in Days, rotated'[d] # <<>> PROVE d < Horizon'
    <2>1. CASE d = writer.old
      BY <1>2, <1>3, <2>1
    <2>2. CASE d # writer.old
      <3>1. d < Horizon /\ d \in Nat
        BY <1>4, <2>2, Renamed, DaysNat DEF DatePart, DatesFit
      <3> QED
        BY <1>1, <1>2, <1>3, <3>1
    <2> QED
      BY <2>1, <2>2
  <1>5. ASSUME NEW d \in Days, NEW e \in ToSet(rotated'[d]) PROVE writtenOn'[e] <= d
    <2>1. CASE d = writer.old
      <3>1. e \in ToSet(base)
        BY <1>5, <2>1, Renamed
      <3> QED
        BY <1>1, <2>1, <3>1, Renamed DEF DatePart, DatesFit
    <2>2. CASE d # writer.old
      <3>1. e \in ToSet(rotated[d])
        BY <1>5, <2>2, Renamed
      <3> QED
        BY <3>1, Renamed DEF DatePart, DatedAtMost
    <2> QED
      BY <2>1, <2>2
  <1>6. DatedAtMost'
    BY <1>5 DEF DatedAtMost
  <1>7. DatesFit'
    BY <1>1, <1>2, <1>3, <1>4, Renamed DEF DatesFit
  <1> QED
    BY <1>6, <1>7 DEF DatePart

\* A line is dated like the open file, and no filed line changes its date.
LEMMA WriteDates ==
  ASSUME Typed, DatePart, PipeFits, WriteLine \/ WriteTorn
  PROVE  DatePart'
  <1> SUFFICES ASSUME ~stepped PROVE DatePart'
    BY LineWritten DEF DatePart, DatesFit, DatedAtMost
  <1>1. /\ writtenOn' = [writtenOn EXCEPT ![writer.ev] = writer.today] /\ writer' = Waiting
        /\ writtenOn \in Seq(Days) /\ Len(writtenOn) = made /\ made \in Nat
    BY DEF Typed, TypeOK, WriteLine, WriteTorn, AppendLine
  <1>2. writer.ev \in 1..made
    BY LineWritten DEF Events
  <1>3. /\ writtenOn'[writer.ev] = writer.today
        /\ \A e \in Events \ {writer.ev} : writtenOn'[e] = writtenOn[e]
    BY <1>1, <1>2 DEF Events
  <1>4. Horizon = writer.today /\ Horizon' = Horizon /\ writer'.pc = "recv" /\ Horizon \in Nat
    <2>1. writer.pc = "write" /\ open_date = writer.today /\ open_date' = open_date
          /\ writer'.pc = "recv" /\ writer.today \in Nat
      BY <1>1, LineWritten, WaitingTyped, HorizonTyped, DaysNat DEF Typed, WriterFits
    <2>2. open_date # None
      BY <2>1, AuditAssumption
    <2> QED
      BY <2>1, <2>2 DEF Horizon
  <1>5. \A e \in Lines : e \in Events /\ e # writer.ev
    BY LineWritten, PipeSets DEF PipeFits, MayFollow
  <1>6. \A e \in ToSet(base') : writtenOn'[e] <= Horizon'
    <2>1. \A e \in ToSet(base) : writtenOn'[e] <= Horizon'
      BY <1>3, <1>4, <1>5, PipeSets DEF DatePart, DatesFit
    <2> QED
      BY <1>3, <1>4, <2>1, LineWritten
  <1>7. DatedAtMost'
    BY <1>3, <1>5, LineWritten, PipeSets DEF DatePart, DatedAtMost
  <1>8. DatesFit'
    BY <1>4, <1>6, LineWritten DEF DatePart, DatesFit
  <1> QED
    BY <1>7, <1>8 DEF DatePart

LEMMA DateNext == Typed /\ Typed' /\ DatePart /\ PipeFits /\ [Next]_vars => DatePart'
  <1> SUFFICES ASSUME Typed, Typed', DatePart, PipeFits, [Next]_vars PROVE DatePart'
    OBVIOUS
  <1>1. ASSUME NEW m \in Emitters, Stamp(m) PROVE DatePart'
    BY <1>1, Stamped, SameDates DEF Stamp
  <1>2. ASSUME NEW m \in Emitters, PushInline(m) \/ PushDeferred(m) \/ Send(m) PROVE DatePart'
    BY <1>2, SameDates DEF PushInline, PushDeferred, Send, memVars, diskVars
  <1>3. CASE Query \/ (\E e \in deferred : Push(e)) \/ UNCHANGED vars
    BY <1>3, SameDates DEF Query, Push, vars, diskVars
  <1>4. CASE Midnight
    <2>1. UNCHANGED <<rotated, writtenOn, stepped, base, writer, open_date>> /\ day' = day + 1
      BY <1>4 DEF Midnight, diskVars
    <2>2. day \in Nat /\ Horizon \in Nat /\ writer.today \in Nat
      BY HorizonTyped, DaysNat
    <2>3. Horizon' = Horizon \/ (Horizon = day /\ Horizon' = day')
      BY <2>1 DEF Horizon
    <2>4. ASSUME ~stepped
          PROVE  /\ Horizon <= Horizon' /\ Horizon' <= day'
                 /\ writer.pc # "recv" => Horizon' <= writer.today /\ writer.today <= day'
                 /\ writer.pc \in {"rotate", "rename"} => Horizon' < writer.today
      <3>1. writer.pc # "recv" => Horizon' = Horizon
        <4>1. writer.pc \in {"recv", "rotate", "rename", "open", "write"} /\ None \notin Days
          BY AuditAssumption, DaysNat DEF Typed, TypeOK, Writers
        <4>2. writer.pc \in {"rotate", "write"} => open_date # None
          BY <4>1, HorizonTyped DEF Typed, WriterFits
        <4> QED
          BY <2>1, <4>1, <4>2 DEF Horizon
      <3>2. /\ Horizon <= day
            /\ writer.pc # "recv" => Horizon <= writer.today /\ writer.today <= day
            /\ writer.pc \in {"rotate", "rename"} => Horizon < writer.today
        BY <2>4 DEF DatePart, DatesFit
      <3> QED
        BY <2>1, <2>2, <2>3, <3>1, <3>2
    <2> QED
      BY <2>1, <2>4, DatesMove
  <1>5. CASE ClockSetBack
    <2>1. stepped'
      BY <1>5 DEF ClockSetBack
    <2> QED
      BY <2>1 DEF DatePart, DatesFit, DatedAtMost
  <1>6. CASE Crash
    <2>1. Horizon' = day /\ day' = day /\ writer'.pc = "recv" /\ day \in Nat
      BY <1>6, Crashed, HorizonTyped, DaysNat DEF Horizon
    <2>2. ToSet(base') \subseteq ToSet(base)
      BY <1>6, Crashed, PipeSets, Fronted
    <2>3. ~stepped => Horizon <= day
      BY DEF DatePart, DatesFit
    <2> QED
      BY <1>6, <2>1, <2>2, <2>3, Crashed, DatesMove
  <1> QED
    BY <1>1, <1>2, <1>3, <1>4, <1>5, <1>6, WriterDates, RenameDates, WriteDates DEF Next

-----------------------------------------------------------------------------
(***************************************************************************)
(* The order of the trail: within the dated files, from them to the open   *)
(* one, and within it.                                                     *)
(***************************************************************************)
DatedOrdered ==
    \A c, d \in Days : \A i \in 1..Len(rotated[c]), j \in 1..Len(rotated[d]) :
        c < d \/ (c = d /\ i < j) => MayFollow(rotated[c][i], rotated[d][j])
DatedFirst ==
    \A c \in Days : \A i \in 1..Len(rotated[c]), j \in 1..Len(base) :
        MayFollow(rotated[c][i], base[j])
OpenOrdered == \A i, j \in 1..Len(base) : i < j => MayFollow(base[i], base[j])

LEMMA FilesSplit == FilesOrdered <=> (~stepped => DatedOrdered /\ DatedFirst /\ OpenOrdered)
  <1>1. /\ \A d \in Days : d \in Shelf /\ File(d) = rotated[d] /\ d < LastDay + 1 /\ d \in Nat
        /\ LastDay + 1 \in Shelf /\ File(LastDay + 1) = base
        /\ \A d \in Shelf : d \in Days \/ d = LastDay + 1
        /\ LastDay + 1 \in Nat
    BY AuditAssumption DEF Days, Shelf, File
  <1>2. ASSUME FilesOrdered, ~stepped PROVE DatedOrdered /\ DatedFirst /\ OpenOrdered
    <2>1. \A c, d \in Shelf : \A i \in 1..Len(File(c)), j \in 1..Len(File(d)) :
            c < d \/ (c = d /\ i < j) => MayFollow(File(c)[i], File(d)[j])
      BY <1>2 DEF FilesOrdered
    <2>2. DatedOrdered
      BY <1>1, <2>1 DEF DatedOrdered
    <2>3. DatedFirst
      BY <1>1, <2>1 DEF DatedFirst
    <2>4. OpenOrdered
      BY <1>1, <2>1 DEF OpenOrdered
    <2> QED
      BY <2>2, <2>3, <2>4
  <1>3. ASSUME DatedOrdered, DatedFirst, OpenOrdered PROVE FilesOrdered
    <2> SUFFICES ASSUME NEW c \in Shelf, NEW d \in Shelf, NEW i \in 1..Len(File(c)),
                        NEW j \in 1..Len(File(d)), c < d \/ (c = d /\ i < j)
                 PROVE  MayFollow(File(c)[i], File(d)[j])
      BY DEF FilesOrdered
    <2>1. CASE c \in Days /\ d \in Days
      BY <1>1, <1>3, <2>1 DEF DatedOrdered
    <2>2. CASE c \in Days /\ d = LastDay + 1
      BY <1>1, <1>3, <2>2 DEF DatedFirst
    <2>3. CASE c = LastDay + 1 /\ d \in Days
      BY <1>1, <2>3
    <2>4. CASE c = LastDay + 1 /\ d = LastDay + 1
      <3>1. i < j
        BY <1>1, <2>4
      <3> QED
        BY <1>1, <1>3, <2>4, <3>1 DEF OpenOrdered
    <2> QED
      BY <1>1, <2>1, <2>2, <2>3, <2>4
  <1>4. stepped => FilesOrdered
    BY DEF FilesOrdered
  <1> QED
    BY <1>2, <1>3, <1>4

LEMMA FilesSplitNext ==
  FilesOrdered' <=> (~stepped' => DatedOrdered' /\ DatedFirst' /\ OpenOrdered')
  BY FilesSplit, PTL

LEMMA FilesInit == Init => FilesOrdered
  <1> SUFFICES ASSUME Init PROVE FilesOrdered
    OBVIOUS
  <1>1. base = <<>> /\ \A d \in Days : rotated[d] = <<>>
    BY DEF Init
  <1> QED
    BY <1>1, FilesSplit DEF DatedOrdered, DatedFirst, OpenOrdered

\* Lines stay where they are, but for those a crash takes off the end.
LEMMA FilesKept ==
  ASSUME Typed, FilesOrdered, UNCHANGED <<rotated, stepped>>,
         Len(base) \in Nat, Len(base') \in Nat,
         Len(base') <= Len(base), \A i \in 1..Len(base') : base'[i] = base[i],
         \A x, y \in Events : MayFollow(x, y) => MayFollow(x, y)'
  PROVE  FilesOrdered'
  <1> SUFFICES ASSUME ~stepped PROVE DatedOrdered' /\ DatedFirst' /\ OpenOrdered'
    BY FilesSplitNext
  <1>1. DatedOrdered /\ DatedFirst /\ OpenOrdered
    BY FilesSplit
  <1>2. /\ \A i \in 1..Len(base) : base[i] \in Events
        /\ \A d \in Days : \A i \in 1..Len(rotated[d]) : rotated[d][i] \in Events
    BY DEF Typed, TypeOK
  <1>3. \A i \in 1..Len(base') : i \in 1..Len(base)
    OBVIOUS
  <1>4. DatedOrdered'
    BY <1>1, <1>2 DEF DatedOrdered
  <1>5. DatedFirst'
    BY <1>1, <1>2, <1>3 DEF DatedFirst
  <1>6. OpenOrdered'
    BY <1>1, <1>2, <1>3 DEF OpenOrdered
  <1> QED
    BY <1>4, <1>5, <1>6

LEMMA FilesUntouched ==
  ASSUME Typed, FilesOrdered, UNCHANGED <<rotated, base, prior, stepped>>
  PROVE  FilesOrdered'
  <1>1. Len(base) \in Nat /\ Len(base') \in Nat
    BY PipeSets, ToSetIs
  <1>2. \A x, y \in Events : MayFollow(x, y) => MayFollow(x, y)'
    BY DEF MayFollow
  <1> QED
    BY <1>1, <1>2, FilesKept

\* A line goes to the end of the open file: all that is filed may precede it.
LEMMA WriteFiles ==
  ASSUME Typed, FilesOrdered, PipeFits, WriteLine \/ WriteTorn
  PROVE  FilesOrdered'
  <1> SUFFICES ASSUME ~stepped PROVE DatedOrdered' /\ DatedFirst' /\ OpenOrdered'
    BY FilesSplitNext, LineWritten
  <1>1. DatedOrdered /\ DatedFirst /\ OpenOrdered
    BY FilesSplit
  <1>2. \A x \in Lines : MayFollow(x, writer.ev)
    BY LineWritten DEF PipeFits
  <1>3. /\ \A i \in 1..Len(base) : base[i] \in Lines
        /\ \A d \in Days : \A i \in 1..Len(rotated[d]) : rotated[d][i] \in Lines
    <2>1. base \in Seq(Events) /\ \A d \in Days : rotated[d] \in Seq(Events)
      BY DEF Typed, TypeOK
    <2>2. \A i \in 1..Len(base) : base[i] \in Lines
      <3>1. ToSet(base) \subseteq Lines
        BY PipeSets
      <3> QED
        BY <2>1, <3>1, ToSetIs
    <2>3. ASSUME NEW d \in Days, NEW i \in 1..Len(rotated[d]) PROVE rotated[d][i] \in Lines
      <3>1. rotated[d] \in Seq(Events) /\ ToSet(rotated[d]) \subseteq Lines
        BY <2>1, PipeSets
      <3> QED
        BY <3>1, ToSetIs
    <2> QED
      BY <2>2, <2>3
  <1>4. \A j \in 1..Len(base') : j \in 1..Len(base) \/ j = Len(base) + 1
    BY LineWritten
  <1>5. \A x, y : MayFollow(x, y)' <=> MayFollow(x, y)
    BY LineWritten DEF MayFollow
  <1>6. DatedOrdered'
    BY <1>1, LineWritten DEF DatedOrdered, MayFollow
  <1>7. DatedFirst'
    <2> SUFFICES ASSUME NEW c \in Days, NEW i \in 1..Len(rotated[c]), NEW j \in 1..Len(base')
                 PROVE  MayFollow(rotated[c][i], base'[j])
      BY LineWritten DEF DatedFirst, MayFollow
    <2>1. CASE j \in 1..Len(base)
      BY <1>1, <2>1, LineWritten DEF DatedFirst
    <2>2. CASE j = Len(base) + 1
      BY <1>2, <1>3, <2>2, LineWritten
    <2> QED
      BY <1>4, <2>1, <2>2
  <1>8. OpenOrdered'
    <2> SUFFICES ASSUME NEW i \in 1..Len(base'), NEW j \in 1..Len(base'), i < j
                 PROVE  MayFollow(base'[i], base'[j])
      BY LineWritten DEF OpenOrdered, MayFollow
    <2>1. i \in 1..Len(base) /\ base'[i] = base[i]
      BY LineWritten
    <2>2. CASE j \in 1..Len(base)
      BY <1>1, <2>1, <2>2, LineWritten DEF OpenOrdered
    <2>3. CASE j = Len(base) + 1
      BY <1>2, <1>3, <2>1, <2>3, LineWritten
    <2> QED
      BY <1>4, <2>2, <2>3
  <1> QED
    BY <1>6, <1>7, <1>8

\* The file takes the name of a day younger than every dated file's.
LEMMA RenameFresh ==
  ASSUME Typed, DatePart, RenameFile, ~stepped
  PROVE  /\ rotated[writer.old] = <<>>
         /\ \A d \in Days : rotated[d] # <<>> => d < writer.old
  <1>1. Horizon = writer.old /\ writer.old \in Nat
    BY Renamed, DaysNat DEF Horizon
  <1>2. \A d \in Days : rotated[d] # <<>> => d < writer.old
    BY <1>1 DEF DatePart, DatesFit
  <1> QED
    BY <1>1, <1>2, Renamed

LEMMA RenameFiles ==
  ASSUME Typed, FilesOrdered, DatePart, RenameFile
  PROVE  FilesOrdered'
  <1> SUFFICES ASSUME ~stepped PROVE DatedOrdered' /\ DatedFirst' /\ OpenOrdered'
    BY FilesSplitNext, Renamed
  <1>1. DatedOrdered /\ DatedFirst /\ OpenOrdered
    BY FilesSplit
  <1>2. DatedFirst' /\ OpenOrdered'
    BY Renamed DEF DatedFirst, OpenOrdered
  <1>3. DatedOrdered'
    <2> SUFFICES ASSUME NEW c \in Days, NEW d \in Days,
                        NEW i \in 1..Len(rotated'[c]), NEW j \in 1..Len(rotated'[d]),
                        c < d \/ (c = d /\ i < j)
                 PROVE  MayFollow(rotated'[c][i], rotated'[d][j])
      BY Renamed DEF DatedOrdered, MayFollow
    <2>1. rotated'[c] # <<>> /\ rotated'[d] # <<>> /\ c \in Nat /\ d \in Nat /\ writer.old \in Nat
      BY DaysNat, Renamed
    <2>2. CASE c # writer.old /\ d # writer.old
      BY <1>1, <2>2, Renamed DEF DatedOrdered
    <2>3. CASE c # writer.old /\ d = writer.old
      BY <1>1, <2>3, Renamed DEF DatedFirst
    <2>4. CASE c = writer.old /\ d # writer.old
      <3>1. d < writer.old
        BY <2>1, <2>4, Renamed, RenameFresh
      <3> QED
        BY <2>1, <2>4, <3>1
    <2>5. CASE c = writer.old /\ d = writer.old
      <3>1. i < j
        BY <2>1, <2>5
      <3> QED
        BY <1>1, <2>5, <3>1, Renamed DEF OpenOrdered
    <2> QED
      BY <2>2, <2>3, <2>4, <2>5
  <1> QED
    BY <1>2, <1>3

LEMMA FilesNext ==
  Typed /\ FilesOrdered /\ PipeFits /\ DatePart /\ [Next]_vars => FilesOrdered'
  <1> SUFFICES ASSUME Typed, FilesOrdered, PipeFits, DatePart, [Next]_vars PROVE FilesOrdered'
    OBVIOUS
  <1>1. ASSUME NEW m \in Emitters, Stamp(m) PROVE FilesOrdered'
    <2>1. Len(base) \in Nat /\ UNCHANGED <<rotated, base, stepped>>
      BY <1>1, PipeSets, ToSetIs DEF Stamp
    <2>2. \A x, y \in Events : MayFollow(x, y) => MayFollow(x, y)'
      BY <1>1, Stamped DEF MayFollow
    <2> QED
      BY <2>1, <2>2, FilesKept
  <1>2. ASSUME NEW m \in Emitters, PushInline(m) \/ PushDeferred(m) \/ Send(m) PROVE FilesOrdered'
    BY <1>2, FilesUntouched DEF PushInline, PushDeferred, Send, memVars, diskVars
  <1>3. CASE Query \/ (\E e \in deferred : Push(e)) \/ Midnight \/ UNCHANGED vars
    BY <1>3, FilesUntouched DEF Query, Push, Midnight, vars, diskVars
  <1>4. CASE Recv \/ CloseFile \/ RenameFails \/ OpenLogFile \/ OpenFails \/ WriteFails \/ ReportError
    BY <1>4, FilesUntouched
    DEF Recv, CloseFile, RenameFails, OpenLogFile, OpenFails, WriteFails, ReportError, diskVars
  <1>5. CASE ClockSetBack
    BY <1>5 DEF ClockSetBack, FilesOrdered
  <1>6. CASE Crash
    <2>1. base \in Seq(Events) /\ Len(base) \in Nat
      BY PipeSets, ToSetIs
    <2>2. base # <<>> => /\ Len(Front(base)) = Len(base) - 1
                         /\ \A i \in 1..Len(base) - 1 : Front(base)[i] = base[i]
      BY <2>1, Fronted
    <2>3. /\ Len(base') \in Nat /\ Len(base') <= Len(base)
          /\ \A i \in 1..Len(base') : base'[i] = base[i]
      <3>1. CASE base' = base
        BY <2>1, <3>1
      <3>2. CASE base # <<>> /\ base' = Front(base)
        BY <2>1, <2>2, <3>2
      <3> QED
        BY <1>6, <3>1, <3>2, Crashed
    <2>4. \A x, y \in Events : MayFollow(x, y) => MayFollow(x, y)'
      BY <1>6, Crashed DEF MayFollow
    <2> QED
      BY <1>6, <2>1, <2>3, <2>4, Crashed, FilesKept
  <1> QED
    BY <1>1, <1>2, <1>3, <1>4, <1>5, <1>6, WriteFiles, RenameFiles DEF Next

-----------------------------------------------------------------------------
(***************************************************************************)
(* No event is lost unseen: what leaves one place is in the next, or it is *)
(* excused or hurt.                                                        *)
(***************************************************************************)
LEMMA AccountedInit == Init => Accounted
  BY DEF Init, Events, Accounted

LEMMA AccountedMoves ==
  ASSUME Accounted, ~stepped' => ~stepped,
         Events' \subseteq Events \cup Emitting', excused \subseteq excused', hurt \subseteq hurt',
         ~stepped' => Emitting \cup ToSet(channel) \cup InHand \cup Lines
                        \subseteq Emitting' \cup ToSet(channel') \cup InHand' \cup Lines'
                                    \cup excused' \cup hurt'
  PROVE  Accounted'
  BY DEF Accounted

LEMMA AccountedNext ==
  Typed /\ Accounted /\ DatePart /\ [Next]_vars => Accounted'
  <1> SUFFICES ASSUME Typed, Accounted, DatePart, [Next]_vars PROVE Accounted'
    OBVIOUS
  <1>1. ASSUME NEW m \in Emitters, Stamp(m) PROVE Accounted'
    <2>1. /\ UNCHANGED <<channel, writer, base, rotated, excused, hurt, stepped>>
          /\ InHand' = InHand /\ Lines' = Lines
      BY <1>1 DEF Stamp, InHand, Lines
    <2> QED
      BY <1>1, <2>1, Stamped, AccountedMoves
  <1>2. ASSUME NEW m \in Emitters, PushInline(m) \/ PushDeferred(m) PROVE Accounted'
    <2>1. /\ emitter[m].pc = "ring" /\ emitter' = [emitter EXCEPT ![m].pc = "send"]
          /\ UNCHANGED <<made, channel, writer, base, rotated, excused, hurt, stepped>>
      BY <1>2 DEF PushInline, PushDeferred, diskVars
    <2>2. Emitting' = Emitting
      BY <2>1, PushSets DEF Typed, Callings, Emitting
    <2>3. InHand' = InHand /\ Lines' = Lines /\ Events' = Events
      BY <2>1 DEF InHand, Lines, Events
    <2> QED
      BY <2>1, <2>2, <2>3, AccountedMoves
  <1>3. ASSUME NEW m \in Emitters, Send(m) PROVE Accounted'
    <2> DEFINE e == emitter[m].ev
    <2>1. /\ Sending' = Sending \ {e} /\ Pushing' = Pushing /\ e \in Events
      BY <1>3, SendSets DEF Typed, Callings
    <2>2. Emitting \subseteq Emitting' \cup {e}
      BY <2>1 DEF Emitting
    <2>3. /\ UNCHANGED <<made, writer, base, rotated, hurt, stepped>> /\ excused \subseteq excused'
          /\ \/ channel' = channel /\ e \in excused'
             \/ channel' = Append(channel, e)
      BY <1>3 DEF Send, diskVars
    <2> HIDE DEF e
    <2>4. ToSet(channel) \cup {e} \subseteq ToSet(channel') \cup excused'
      <3>1. CASE channel' = channel /\ e \in excused'
        BY <3>1
      <3>2. CASE channel' = Append(channel, e)
        <4>1. ToSet(channel') = ToSet(channel) \cup {e}
          BY <2>1, <3>2, PipeSets, Appended
        <4> QED
          BY <4>1
      <3> QED
        BY <2>3, <3>1, <3>2
    <2>5. InHand' = InHand /\ Lines' = Lines /\ Events' = Events
      BY <2>3 DEF InHand, Lines, Events
    <2> QED
      BY <2>2, <2>3, <2>4, <2>5, AccountedMoves
  <1>4. ASSUME UNCHANGED <<made, emitter>>, ~stepped' => ~stepped, excused \subseteq excused',
               hurt \subseteq hurt',
               ~stepped' => ToSet(channel) \cup InHand \cup Lines
                              \subseteq ToSet(channel') \cup InHand' \cup Lines' \cup excused' \cup hurt'
        PROVE  Accounted'
    <2>1. Emitting' = Emitting /\ Events' = Events
      BY <1>4, SameSets DEF Emitting, Events
    <2> QED
      BY <1>4, <2>1, AccountedMoves
  <1>5. CASE Query \/ (\E e \in deferred : Push(e)) \/ Midnight \/ ClockSetBack \/ UNCHANGED vars
    <2>1. /\ UNCHANGED <<made, emitter, excused, channel, hurt, writer, base, rotated>>
          /\ ~stepped' => ~stepped
      BY <1>5 DEF Query, Push, Midnight, ClockSetBack, vars, diskVars
    <2>2. InHand' = InHand /\ Lines' = Lines
      BY <2>1 DEF InHand, Lines
    <2> QED
      BY <1>4, <2>1, <2>2
  <1>6. CASE Recv
    <2>1. /\ UNCHANGED <<made, emitter, excused, hurt, stepped, base, rotated>> /\ channel # <<>>
          /\ channel' = Tail(channel) /\ writer.pc = "recv"
      BY <1>6 DEF Recv, diskVars
    <2>2. InHand = {} /\ InHand' = {Head(channel)} /\ Lines' = Lines
      BY <1>6, <2>1, WriterMoves DEF InHand, Lines
    <2>3. ToSet(channel) = ToSet(channel') \cup {Head(channel)}
      BY <2>1, PipeSets, Tailed
    <2> QED
      BY <1>4, <2>1, <2>2, <2>3
  <1>7. CASE CloseFile \/ RenameFails \/ OpenLogFile
    <2>1. /\ UNCHANGED <<made, emitter, excused, hurt, stepped, channel, base, rotated>>
          /\ writer.pc # "recv"
      BY <1>7 DEF CloseFile, RenameFails, OpenLogFile, diskVars
    <2>2. InHand' = InHand /\ Lines' = Lines
      BY <1>7, <2>1, WriterMoves DEF InHand, Lines
    <2> QED
      BY <1>4, <2>1, <2>2
  <1>8. CASE RenameFile
    <2>1. ~stepped => Lines' = Lines
      BY <1>8, Renamed, RenameFresh
    <2> QED
      BY <1>4, <1>8, <2>1, Renamed
  <1>9. CASE OpenFails \/ WriteFails \/ ReportError
    <2>1. /\ UNCHANGED <<made, emitter, excused, stepped, channel, base, rotated>>
          /\ hurt' = hurt \cup {writer.ev} /\ InHand \subseteq {writer.ev}
      BY <1>9 DEF OpenFails, WriteFails, ReportError, InHand
    <2>2. Lines' = Lines
      BY <2>1 DEF Lines
    <2> QED
      BY <1>4, <2>1, <2>2
  <1>10. CASE WriteLine \/ WriteTorn
    <2>1. hurt \subseteq hurt'
      BY <1>10 DEF WriteLine, WriteTorn
    <2> QED
      BY <1>4, <1>10, <2>1, LineWritten
  <1>11. CASE Crash
    <2>1. hurt \subseteq hurt' /\ Events' = Events
      BY <1>11, Crashed DEF Events
    <2> QED
      BY <1>11, <2>1, Crashed, AccountedMoves
  <1> QED
    BY <1>1, <1>2, <1>3, <1>5, <1>6, <1>7, <1>8, <1>9, <1>10, <1>11 DEF Next

-----------------------------------------------------------------------------
(***************************************************************************)
(* What faults cost.  A fault pays for three events: the one it hits, the  *)
(* next if it is told of the failure in its place and, if the line is left *)
(* without its end, the one that is glued to it.                           *)
(***************************************************************************)
LEMMA OneMore ==
  ASSUME NEW S, IsFiniteSet(S), NEW x
  PROVE  /\ IsFiniteSet(S \cup {x}) /\ Cardinality(S) \in Nat /\ Cardinality(S \cup {x}) \in Nat
         /\ Cardinality(S \cup {x}) <= Cardinality(S) + 1
  <1>1. /\ IsFiniteSet(S \cup {x})
        /\ Cardinality(S \cup {x}) = IF x \in S THEN Cardinality(S) ELSE Cardinality(S) + 1
    BY FS_AddElement
  <1>2. Cardinality(S) \in Nat
    BY FS_CardinalityType
  <1> QED
    BY <1>1, <1>2

LEMMA HurtInit == Init => HurtBounded
  <1> SUFFICES ASSUME Init PROVE HurtBounded
    OBVIOUS
  <1>1. hurt = {} /\ base = <<>> /\ faults = 0 /\ write_err = FALSE
    BY DEF Init
  <1>2. IsFiniteSet({}) /\ Cardinality({}) = 0
    BY FS_EmptySet
  <1> QED
    BY <1>1, <1>2 DEF HurtBounded, Glued

LEMMA FaultPays ==
  ASSUME HurtBounded, faults \in Nat, NEW x, hurt' = hurt \/ hurt' = hurt \cup {x}, faults' = faults + 1
  PROVE  HurtBounded'
  <1>1. /\ IsFiniteSet(hurt) /\ Cardinality(hurt) \in Nat
        /\ Cardinality(hurt) <= 3 * faults
    BY FS_CardinalityType DEF HurtBounded
  <1>2. IsFiniteSet(hurt') /\ Cardinality(hurt') \in Nat /\ Cardinality(hurt') <= Cardinality(hurt) + 1
    <2>1. CASE hurt' = hurt
      BY <1>1, <2>1
    <2>2. CASE hurt' = hurt \cup {x}
      BY <1>1, <2>2, OneMore
    <2> QED
      BY <2>1, <2>2
  <1>3. Cardinality(hurt') + (IF Glued' THEN 1 ELSE 0) + (IF write_err' THEN 1 ELSE 0) <= 3 * faults'
    BY <1>1, <1>2
  <1> QED
    BY <1>2, <1>3 DEF HurtBounded

LEMMA HurtSame ==
  ASSUME HurtBounded, faults \in Nat, UNCHANGED <<hurt, faults>>, Glued' => Glued, write_err' => write_err
  PROVE  HurtBounded'
  <1>1. IsFiniteSet(hurt) /\ Cardinality(hurt) \in Nat
    BY FS_CardinalityType DEF HurtBounded
  <1> QED
    BY <1>1 DEF HurtBounded

LEMMA HurtNext ==
  Typed /\ PipeFits /\ HurtBounded /\ [Next]_vars => HurtBounded'
  <1> SUFFICES ASSUME Typed, PipeFits, HurtBounded, [Next]_vars PROVE HurtBounded'
    OBVIOUS
  <1>1. faults \in Nat
    BY DEF Typed, TypeOK
  <1>2. ASSUME UNCHANGED <<hurt, faults, base, torn>>, write_err' => write_err PROVE HurtBounded'
    BY <1>1, <1>2, HurtSame DEF Glued
  <1>3. ASSUME NEW m \in Emitters, Stamp(m) \/ PushInline(m) \/ PushDeferred(m) \/ Send(m)
        PROVE  HurtBounded'
    BY <1>2, <1>3 DEF Stamp, PushInline, PushDeferred, Send, memVars, diskVars
  <1>4. CASE Query \/ (\E e \in deferred : Push(e)) \/ Midnight \/ ClockSetBack \/ UNCHANGED vars
    BY <1>2, <1>4 DEF Query, Push, Midnight, ClockSetBack, vars, diskVars
  <1>5. CASE Recv \/ CloseFile \/ OpenLogFile
    BY <1>2, <1>5 DEF Recv, CloseFile, OpenLogFile, diskVars
  <1>6. CASE RenameFails
    BY <1>1, <1>6, FaultPays DEF RenameFails, diskVars, Glued
  <1>7. CASE RenameFile
    <2>1. UNCHANGED write_err
      BY <1>7 DEF RenameFile
    <2> QED
      BY <1>1, <1>7, <2>1, Renamed, HurtSame DEF Glued
  <1>8. CASE OpenFails \/ WriteFails
    BY <1>1, <1>8, FaultPays DEF OpenFails, WriteFails, Glued
  <1>9. CASE WriteTorn
    <2>1. hurt' = hurt \cup {writer.ev} /\ faults' = faults + 1
      BY <1>9 DEF WriteTorn
    <2> QED
      BY <1>1, <2>1, FaultPays
  <1>10. CASE WriteLine
    <2>1. /\ hurt' = IF Glued THEN hurt \cup {writer.ev} ELSE hurt
          /\ UNCHANGED <<torn, faults, write_err>>
      BY <1>10 DEF WriteLine
    <2>2. ~Glued'
      <3>1. Last(base') = writer.ev
        BY <1>10, LineWritten DEF Last
      <3>2. writer.ev \notin torn
        BY <1>10, LineWritten DEF PipeFits
      <3> QED
        BY <2>1, <3>1, <3>2 DEF Glued
    <2>3. CASE ~Glued
      BY <1>1, <2>1, <2>2, <2>3, HurtSame
    <2>4. CASE Glued
      <3>1. /\ IsFiniteSet(hurt) /\ Cardinality(hurt) \in Nat
            /\ Cardinality(hurt) + 1 + (IF write_err THEN 1 ELSE 0) <= 3 * faults
        BY <2>4, FS_CardinalityType DEF HurtBounded
      <3>2. /\ IsFiniteSet(hurt') /\ Cardinality(hurt') \in Nat
            /\ Cardinality(hurt') <= Cardinality(hurt) + 1
        BY <2>1, <2>4, <3>1, OneMore
      <3> QED
        BY <1>1, <2>1, <2>2, <3>1, <3>2 DEF HurtBounded
    <2> QED
      BY <2>3, <2>4
  <1>11. CASE Crash
    <2>1. faults' = faults + 1
      BY <1>11, Crashed
    <2>2. hurt' = hurt \/ hurt' = hurt \cup {Last(base)}
      BY <1>11, Crashed
    <2> QED
      BY <1>1, <2>1, <2>2, FaultPays
  <1>12. CASE ReportError
    <2>1. /\ hurt' = hurt \cup {writer.ev} /\ write_err /\ ~write_err' /\ faults' = faults
          /\ Glued' = Glued
      BY <1>12 DEF ReportError, Glued
    <2>2. /\ IsFiniteSet(hurt) /\ Cardinality(hurt) \in Nat
          /\ Cardinality(hurt) + (IF Glued THEN 1 ELSE 0) + 1 <= 3 * faults
      BY <2>1, FS_CardinalityType DEF HurtBounded
    <2>3. /\ IsFiniteSet(hurt') /\ Cardinality(hurt') \in Nat
          /\ Cardinality(hurt') <= Cardinality(hurt) + 1
      BY <2>1, <2>2, OneMore
    <2> QED
      BY <1>1, <2>1, <2>2, <2>3 DEF HurtBounded
  <1> QED
    BY <1>3, <1>4, <1>5, <1>6, <1>7, <1>8, <1>9, <1>10, <1>11, <1>12 DEF Next

-----------------------------------------------------------------------------
(***************************************************************************)
(* The theorems.                                                           *)
(***************************************************************************)

\* The inductive invariant of the audit log holds in every reachable state: the
\* ring, the pipe from emit to the file, the dates of the files, their order
\* and the account of every event, whatever writes, renames and crashes do.
THEOREM AuditInvariant == Spec => []AuditInv
  <1> DEFINE IInv == /\ Typed /\ RingPart /\ PipeFits /\ DatePart /\ FilesOrdered
                     /\ Accounted /\ HurtBounded
  <1>1. Init => IInv
    BY TypedInit, RingInit, PipeInit, DateInit, FilesInit, AccountedInit, HurtInit
  <1>2. IInv /\ [Next]_vars => IInv'
    <2> SUFFICES ASSUME IInv, [Next]_vars PROVE IInv'
      OBVIOUS
    <2>1. Typed'
      BY TypedNext
    <2> QED
      BY <2>1, RingNext, PipeNext, DateNext, FilesNext, AccountedNext, HurtNext
  <1>3. IInv => AuditInv
    BY DEF Typed, RingPart, DatePart, AuditInv
  <1> QED
    BY <1>1, <1>2, <1>3, PTL DEF Spec

\* What AuditRing::query returns is in the order the pushes allow, each event once.
THEOREM RingStaysOrdered == Spec => []RingOrdered
  <1>1. AuditInv => RingOrdered
    BY DEF AuditInv
  <1> QED
    BY <1>1, AuditInvariant, PTL

\* AuditRing::push evicts an event only after RingCapacity others were pushed
\* that did not precede it.
THEOREM RingKeepsTheRecent == Spec => []RingKeepsRecent
  <1>1. AuditInv => RingKeepsRecent
    BY DEF AuditInv
  <1> QED
    BY <1>1, AuditInvariant, PTL

\* The two together, for any number of emitters, deferred pushes and readers.
THEOREM RingIsFaithful == Spec => []RingFaithful
  <1>1. RingOrdered /\ RingKeepsRecent => RingFaithful
    BY DEF RingFaithful
  <1> QED
    BY <1>1, RingStaysOrdered, RingKeepsTheRecent, PTL

\* Rotations, failed renames, crashes and restarts leave the trail in order and
\* without repetitions, as long as the clock is not set back.
THEOREM TrailStaysOrdered == Spec => []FilesOrdered
  <1>1. AuditInv => FilesOrdered
    BY DEF AuditInv
  <1> QED
    BY <1>1, AuditInvariant, PTL

\* Every event is in flight, in the trail, dropped at a full channel or by a
\* crash, or hit by a fault, and a fault hits at most three.
THEOREM EventsAreAccounted == Spec => []LossAccounted
  <1>1. AuditInv => LossAccounted
    <2> SUFFICES ASSUME AuditInv PROVE Cardinality(hurt) <= 3 * faults
      BY DEF AuditInv, LossAccounted
    <2>1. HurtBounded /\ faults \in Nat
      BY DEF AuditInv, TypeOK
    <2>2. Cardinality(hurt) \in Nat
      BY <2>1, FS_CardinalityType DEF HurtBounded
    <2> QED
      BY <2>1, <2>2 DEF HurtBounded
  <1> QED
    BY <1>1, AuditInvariant, PTL

\* rotate never gives a file a date older than one of its lines.
THEOREM DatesBoundTheirFiles == Spec => []DatedAtMost
  <1>1. AuditInv => DatedAtMost
    BY DEF AuditInv
  <1> QED
    BY <1>1, AuditInvariant, PTL
=============================================================================

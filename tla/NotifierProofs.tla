--------------------------- MODULE NotifierProofs ---------------------------
(* Theorems about CircuitBreaker and Notifier for any number of hosts,      *)
(* threads, notes, outages and restarts, and any limit and threshold.       *)
EXTENDS Notifier, FiniteSetTheorems, TLAPS

-----------------------------------------------------------------------------
(* The circuit breaker *)

LEMMA NewBreakerType == NewBreaker \in Breaker /\ NewBreaker.count < Threshold
BY ThresholdAssumption DEF NewBreaker, Breaker

Fresh(b) == b.state = "closed" => b.count < Threshold

LEMMA AdmittedType ==
    ASSUME NEW b \in Breaker, Fresh(b)
    PROVE  Admitted(b) \in Breaker /\ Fresh(Admitted(b))
BY DEF Admitted, Breaker, Fresh

LEMMA SucceededType ==
    ASSUME NEW b \in Breaker
    PROVE  Succeeded(b) \in Breaker /\ Fresh(Succeeded(b))
BY ThresholdAssumption DEF Succeeded, Breaker, Fresh

LEMMA FailedType ==
    ASSUME NEW b \in Breaker
    PROVE  Failed(b) \in Breaker /\ Fresh(Failed(b))
BY ThresholdAssumption DEF Failed, Breaker, Fresh

-----------------------------------------------------------------------------
(* The inductive invariant *)

(* A thread that is not idle has a note, and one that has not posted yet in *)
(* its attempt may still do so.                                             *)
Working ==
    \A s \in Senders :
        /\ sender[s].pc = "idle" <=> sender[s].note = None
        /\ sender[s].pc \in {"admit", "attempt"} => sender[s].tries < MaxAttempts
        /\ sender[s].pc \in {"attempt", "post"} =>
              Reaches(Event[sender[s].note], sender[s].channel)
        /\ sender[s].pc = "record" => delivered[sender[s].note] > 0

(* Every success of these notes is reported. *)
Reported(n) == \A c \in Channels : Reaches(Event[n], c) => Reports(Event[n], c)

(* What holds of a note nothing has happened to that excuses a repetition:  *)
(* Redis has never been away, one thread at most is sending it, and it is   *)
(* delivered once, which is recorded or about to be.                        *)
Orderly ==
    \A n \in Notes \ doubtful :
        /\ up
        /\ \A s, t \in Senders : sender[s].note = n /\ sender[t].note = n => s = t
        /\ Reported(n) =>
              /\ delivered[n] <= 1
              /\ delivered[n] = 1 =>
                    \/ n \in seen
                    \/ \E s \in Senders : sender[s].note = n /\ sender[s].pc = "record"
              /\ \A s \in Senders :
                    sender[s].note = n /\ sender[s].pc # "record" => delivered[n] = 0

Inv == TypeOK /\ Working /\ Orderly /\ SuppressedWasDelivered /\ ClosedBelowThreshold

LEMMA IdleType == Idle \in Thread /\ Idle.pc = "idle" /\ Idle.note = None
BY NotifierAssumption DEF Idle, Thread, Channels

LEMMA MemLimitType == MemLimit \in Nat \ {0} /\ Limit <= MemLimit
BY NotifierAssumption DEF MemLimit

LEMMA InvInit == Init => Inv
<1> SUFFICES ASSUME Init PROVE Inv
  OBVIOUS
<1>1. TypeOK
  BY IdleType, NewBreakerType, MemLimitType, NotifierAssumption DEF Init, TypeOK
<1>2. Working /\ Orderly
  BY IdleType, NotifierAssumption DEF Init, Working, Orderly
<1>3. SuppressedWasDelivered /\ ClosedBelowThreshold
  BY NewBreakerType DEF Init, SuppressedWasDelivered, ClosedBelowThreshold
<1> QED
  BY <1>1, <1>2, <1>3 DEF Inv

(* The channel that is selected is one of the two. *)
LEMMA SelectedType ==
    ASSUME NEW e, NEW contact \in Contacts, NEW daytime \in BOOLEAN
    PROVE  SelectChannel(e, contact, daytime) \in Channels \cup {None}
<1> DEFINE p == Priority(e)
           used == {p[i] : i \in DOMAIN p}
           first == IF contact.prefers \in used THEN contact.prefers ELSE p[1]
           usable == {c \in used \cap contact.reach : c = "whatsapp" => daytime}
<1>1. usable \subseteq Channels
  BY NotifierAssumption
<1>2. SelectChannel(e, contact, daytime) =
        CASE usable = {} -> None
          [] first \in usable -> first
          [] OTHER -> CHOOSE c \in usable : TRUE
  BY DEF SelectChannel
<1> HIDE DEF usable, first
<1>3. CASE usable = {} /\ first \notin usable
  BY <1>2, <1>3
<1>4. CASE first \in usable
  BY <1>1, <1>2, <1>4
<1>5. CASE usable # {} /\ first \notin usable
  <2>1. (CHOOSE c \in usable : TRUE) \in usable
    BY <1>5
  <2> QED
    BY <1>1, <1>2, <1>5, <2>1
<1> QED
  BY <1>3, <1>4, <1>5

-----------------------------------------------------------------------------
(* A send begins *)

LEMMA CheckStep ==
    ASSUME Inv, NEW s \in Senders, Check(s)
    PROVE  Inv'
<1>1. PICK n \in Notes, contact \in Contacts, daytime \in BOOLEAN :
          /\ ~IsDuplicate(HostOf[s], n)
          /\ SelectChannel(Event[n], contact, daytime) # None
          /\ sender' = [sender EXCEPT ![s] =
                [pc |-> "admit", note |-> n, tries |-> 0,
                 channel |-> SelectChannel(Event[n], contact, daytime)]]
          /\ doubtful' = IF \E o \in Senders : sender[o].note = n
                         THEN doubtful \cup {n} ELSE doubtful
  BY DEF Check
<1> DEFINE ch == SelectChannel(Event[n], contact, daytime)
<1>2. ch \in Channels
  BY <1>1, SelectedType
<1> HIDE DEF ch
<1>3. sender' = [sender EXCEPT ![s] = [pc |-> "admit", note |-> n, tries |-> 0, channel |-> ch]]
  BY <1>1 DEF ch
<1>4. /\ sender[s].pc = "idle"
      /\ UNCHANGED <<up, seen, memSeen, count, memCount, aged, client, outages, restarts, breaker, delivered, posts>>
  BY DEF Check, stores
<1>5. TypeOK'
  BY <1>1, <1>2, <1>3, <1>4, NotifierAssumption DEF Inv, TypeOK, Thread
<1>6. Working'
  BY <1>3, <1>4, NotifierAssumption DEF Inv, TypeOK, Working
<1>7. Orderly'
  <2>1. sender[s].note = None /\ None \notin Notes
    BY <1>4, NotifierAssumption DEF Inv, Working
  <2>2. \A t \in Senders \ {s} : sender'[t] = sender[t]
    BY <1>3 DEF Inv, TypeOK
  <2>3. sender'[s].note = n /\ sender'[s].pc = "admit"
    BY <1>3 DEF Inv, TypeOK
  <2>4. SUFFICES ASSUME NEW m \in Notes \ doubtful'
                 PROVE  /\ up
                        /\ \A t, u \in Senders : sender'[t].note = m /\ sender'[u].note = m => t = u
                        /\ Reported(m) =>
                              /\ delivered[m] <= 1
                              /\ delivered[m] = 1 =>
                                    \/ m \in seen
                                    \/ \E t \in Senders : sender'[t].note = m /\ sender'[t].pc = "record"
                              /\ \A t \in Senders :
                                    sender'[t].note = m /\ sender'[t].pc # "record" => delivered[m] = 0
    BY <1>4 DEF Orderly, Reported
  <2>5. m \in Notes \ doubtful
    BY <1>1
  <2>6. CASE m = n
    <3>1. \A o \in Senders : sender[o].note # n
      BY <1>1, <2>6
    <3>2. up /\ n \notin seen
      BY <1>1, <2>5, <2>6 DEF Inv, Orderly, IsDuplicate
    <3>3. Reported(n) => delivered[n] = 0
      BY <2>5, <2>6, <3>1, <3>2 DEF Inv, Orderly, TypeOK
    <3> QED
      BY <2>2, <2>3, <2>6, <3>1, <3>2, <3>3
  <2>7. CASE m # n
    BY <2>1, <2>2, <2>3, <2>5, <2>7 DEF Inv, Orderly
  <2> QED
    BY <2>6, <2>7
<1>8. SuppressedWasDelivered' /\ ClosedBelowThreshold'
  BY <1>4 DEF Inv, SuppressedWasDelivered, ClosedBelowThreshold
<1> QED
  BY <1>5, <1>6, <1>7, <1>8 DEF Inv

-----------------------------------------------------------------------------
(* The steps of a send *)

(* A thread that works keeps its note and channel and needs no excuse, so   *)
(* what the note's order asks for follows from its own part.                *)
Works(s) == sender[s].pc # "idle"

LEMMA NoteOf ==
    ASSUME Inv, NEW s \in Senders, Works(s)
    PROVE  /\ sender[s] \in Thread /\ sender[s].note \in Notes
           /\ HostOf[s] \in Hosts /\ breaker[HostOf[s]][sender[s].channel] \in Breaker
           /\ Fresh(breaker[HostOf[s]][sender[s].channel])
BY NotifierAssumption DEF Inv, TypeOK, Working, Works, Thread, ClosedBelowThreshold, Fresh

(* Replacing its breaker by a fresh one. *)
LEMMA BreakerStep ==
    ASSUME Inv, NEW s \in Senders, Works(s), NEW b \in Breaker, Fresh(b), SetBreaker(s, b)
    PROVE  breaker' \in [Hosts -> [Channels -> Breaker]] /\ ClosedBelowThreshold'
<1>1. sender[s].channel \in Channels /\ HostOf[s] \in Hosts
  BY NoteOf DEF Thread
<1>2. breaker' = [breaker EXCEPT ![HostOf[s]] = [@ EXCEPT ![sender[s].channel] = b]]
  BY DEF SetBreaker
<1> QED
  BY <1>1, <1>2 DEF Inv, TypeOK, ClosedBelowThreshold, Fresh

(* A thread goes on with its note, or is done with one it has not delivered. *)
LEMMA SameNote ==
    ASSUME Inv, NEW s \in Senders, Works(s), NEW th,
           th.note = sender[s].note \/ th.note = None,
           sender[s].pc # "record", th.pc # "record",
           sender' = [sender EXCEPT ![s] = th],
           UNCHANGED <<up, seen, delivered, doubtful>>
    PROVE  Orderly'
BY NotifierAssumption DEF Inv, TypeOK, Orderly, Reported

LEMMA RejectStep ==
    ASSUME Inv, NEW s \in Senders, Reject(s)
    PROVE  Inv'
<1>1. /\ Works(s) /\ sender[s].pc = "admit"
      /\ sender' = [sender EXCEPT ![s] = Idle]
      /\ UNCHANGED <<stores, breaker, delivered, posts, doubtful>>
  BY DEF Reject, Return, Works
<1>2. TypeOK'
  BY <1>1, IdleType DEF Inv, TypeOK, stores
<1>3. Working'
  BY <1>1, IdleType DEF Inv, TypeOK, Working
<1>4. Orderly'
  BY <1>1, IdleType, SameNote DEF stores
<1>5. SuppressedWasDelivered' /\ ClosedBelowThreshold'
  BY <1>1 DEF Inv, SuppressedWasDelivered, ClosedBelowThreshold, stores
<1> QED
  BY <1>2, <1>3, <1>4, <1>5 DEF Inv

LEMMA AdmitStep ==
    ASSUME Inv, NEW s \in Senders, Admit(s)
    PROVE  Inv'
<1> DEFINE th == [sender[s] EXCEPT !.pc = "attempt"]
<1>1. /\ Works(s) /\ sender[s].pc = "admit"
      /\ Reaches(Event[sender[s].note], sender[s].channel)
      /\ SetBreaker(s, Admitted(MyBreaker(s)))
      /\ sender' = [sender EXCEPT ![s] = th]
      /\ UNCHANGED <<stores, delivered, posts, doubtful>>
  BY DEF Admit, Works
<1>2. /\ th \in Thread /\ th.pc = "attempt" /\ th.note = sender[s].note
      /\ th.channel = sender[s].channel /\ th.tries = sender[s].tries
  BY <1>1, NoteOf DEF Thread
<1> HIDE DEF th
<1>3. breaker' \in [Hosts -> [Channels -> Breaker]] /\ ClosedBelowThreshold'
  BY <1>1, NoteOf, AdmittedType, BreakerStep DEF MyBreaker
<1>4. TypeOK'
  BY <1>1, <1>2, <1>3 DEF Inv, TypeOK, stores
<1>5. Working'
  BY <1>1, <1>2, NoteOf, NotifierAssumption DEF Inv, TypeOK, Working
<1>6. Orderly'
  BY <1>1, <1>2, SameNote DEF stores
<1>7. SuppressedWasDelivered'
  BY <1>1 DEF Inv, SuppressedWasDelivered, stores
<1> QED
  BY <1>3, <1>4, <1>5, <1>6, <1>7 DEF Inv

(* Counting an attempt keeps the counters in their bounds. *)
LEMMA CountType ==
    ASSUME TypeOK, NEW h \in Hosts, CountAttempt(h)
    PROVE  count' \in 0 .. Limit + 1 /\ memCount' \in [Hosts -> 0 .. MemLimit]
<1>1. CASE InRedis(h)
  <2>1. memCount' = memCount /\ count' = IF count > Limit THEN count ELSE count + 1
    BY <1>1 DEF CountAttempt
  <2> QED
    BY <2>1, NotifierAssumption DEF TypeOK
<1>2. CASE ~InRedis(h)
  <2> DEFINE m == IF memCount[h] = 0 \/ memCount[h] < Limit THEN memCount[h] + 1 ELSE memCount[h]
  <2>1. count' = count /\ memCount' = [memCount EXCEPT ![h] = m]
    BY <1>2 DEF CountAttempt, InLimit
  <2>2. m \in 0 .. MemLimit
    BY NotifierAssumption, MemLimitType DEF TypeOK
  <2> HIDE DEF m
  <2> QED
    BY <2>1, <2>2 DEF TypeOK
<1> QED
  BY <1>1, <1>2

LEMMA AttemptStep ==
    ASSUME Inv, NEW s \in Senders, Attempt(s)
    PROVE  Inv'
<1> DEFINE th == [sender[s] EXCEPT !.pc = "post", !.tries = @ + 1]
<1>1. /\ Works(s) /\ sender[s].pc = "attempt"
      /\ sender' = [sender EXCEPT ![s] = th]
      /\ UNCHANGED <<up, seen, memSeen, aged, client, outages, restarts, breaker, delivered, posts, doubtful>>
      /\ \/ UNCHANGED <<count, memCount>>
         \/ InLimit(HostOf[s]) /\ CountAttempt(HostOf[s])
  BY DEF Attempt, Works
<1>2. /\ th \in Thread /\ th.pc = "post" /\ th.note = sender[s].note
      /\ th.channel = sender[s].channel
  <2>1. sender[s] \in Thread /\ sender[s].tries + 1 \in 0 .. MaxAttempts
    BY <1>1, NoteOf, NotifierAssumption DEF Thread, Inv, Working
  <2> QED
    BY <2>1 DEF Thread
<1> HIDE DEF th
<1>3. count' \in 0 .. Limit + 1 /\ memCount' \in [Hosts -> 0 .. MemLimit]
  BY <1>1, NoteOf, CountType DEF Inv, TypeOK
<1>4. TypeOK'
  BY <1>1, <1>2, <1>3 DEF Inv, TypeOK
<1>5. Working'
  BY <1>1, <1>2, NoteOf, NotifierAssumption DEF Inv, TypeOK, Working
<1>6. Orderly'
  BY <1>1, <1>2, SameNote
<1>7. SuppressedWasDelivered' /\ ClosedBelowThreshold'
  BY <1>1 DEF Inv, SuppressedWasDelivered, ClosedBelowThreshold
<1> QED
  BY <1>4, <1>5, <1>6, <1>7 DEF Inv

LEMMA OverLimitStep ==
    ASSUME Inv, NEW s \in Senders, OverLimit(s)
    PROVE  Inv'
<1>1. /\ Works(s) /\ sender[s].pc = "attempt"
      /\ CountAttempt(HostOf[s])
      /\ SetBreaker(s, Failed(MyBreaker(s)))
      /\ sender' = [sender EXCEPT ![s] = Idle]
      /\ UNCHANGED <<up, seen, memSeen, aged, client, outages, restarts, delivered, posts, doubtful>>
  BY DEF OverLimit, Return, Works
<1>2. count' \in 0 .. Limit + 1 /\ memCount' \in [Hosts -> 0 .. MemLimit]
  BY <1>1, NoteOf, CountType DEF Inv
<1>3. breaker' \in [Hosts -> [Channels -> Breaker]] /\ ClosedBelowThreshold'
  BY <1>1, NoteOf, FailedType, BreakerStep DEF MyBreaker
<1>4. TypeOK'
  BY <1>1, <1>2, <1>3, IdleType DEF Inv, TypeOK
<1>5. Working'
  BY <1>1, IdleType DEF Inv, TypeOK, Working
<1>6. Orderly'
  BY <1>1, IdleType, SameNote
<1>7. SuppressedWasDelivered'
  BY <1>1 DEF Inv, SuppressedWasDelivered
<1> QED
  BY <1>3, <1>4, <1>5, <1>6, <1>7 DEF Inv

-----------------------------------------------------------------------------
(* The provider answers *)

(* A delivery counts for its note alone. *)
LEMMA AcceptedType ==
    ASSUME TypeOK, NEW n \in Notes, Accepted(n)
    PROVE  /\ delivered' \in [Notes -> 0 .. 2]
           /\ delivered'[n] > 0
           /\ delivered[n] = 0 => delivered'[n] = 1
           /\ \A m \in Notes \ {n} : delivered'[m] = delivered[m]
BY DEF Accepted, TypeOK

LEMMA PostedType ==
    ASSUME TypeOK, NEW s \in Senders, Posted(s)
    PROVE  posts' \in Nat
BY DEF Posted, TypeOK

LEMMA PostOkStep ==
    ASSUME Inv, NEW s \in Senders, PostOk(s)
    PROVE  Inv'
<1> DEFINE n == sender[s].note
           th == IF Reports(Event[n], sender[s].channel)
                 THEN [sender[s] EXCEPT !.pc = "record"] ELSE Idle
<1>1. /\ Works(s) /\ sender[s].pc = "post"
      /\ Posted(s) /\ Accepted(n)
      /\ SetBreaker(s, Succeeded(MyBreaker(s)))
      /\ sender' = [sender EXCEPT ![s] = th]
      /\ UNCHANGED <<stores, doubtful>>
  BY DEF PostOk, Return, Works
<1>2. /\ n \in Notes /\ sender[s].channel \in Channels
      /\ Reaches(Event[n], sender[s].channel)
      /\ posts' \in Nat
      /\ delivered' \in [Notes -> 0 .. 2] /\ delivered'[n] > 0
      /\ delivered[n] = 0 => delivered'[n] = 1
      /\ \A m \in Notes \ {n} : delivered'[m] = delivered[m]
  BY <1>1, NoteOf, AcceptedType, PostedType DEF Inv, Working, Thread
<1>3. /\ th \in Thread
      /\ \/ th.pc = "record" /\ th.note = n
         \/ th.pc = "idle" /\ th.note = None /\ ~Reported(n)
  BY <1>1, <1>2, NoteOf, IdleType DEF Thread, Reported
<1> HIDE DEF th
<1>4. breaker' \in [Hosts -> [Channels -> Breaker]] /\ ClosedBelowThreshold'
  BY <1>1, NoteOf, SucceededType, BreakerStep DEF MyBreaker
<1>5. TypeOK'
  BY <1>1, <1>2, <1>3, <1>4 DEF Inv, TypeOK, stores
<1>6. \A t \in Senders \ {s} : sender'[t] = sender[t]
  BY <1>1 DEF Inv, TypeOK
<1>7. sender'[s] = th
  BY <1>1 DEF Inv, TypeOK
<1>8. \A m \in Notes : delivered[m] > 0 => delivered'[m] > 0
  BY <1>2
<1> HIDE DEF n
<1>9. Working'
  <2> SUFFICES ASSUME NEW t \in Senders
               PROVE  /\ sender'[t].pc = "idle" <=> sender'[t].note = None
                      /\ sender'[t].pc \in {"admit", "attempt"} => sender'[t].tries < MaxAttempts
                      /\ sender'[t].pc \in {"attempt", "post"} =>
                            Reaches(Event[sender'[t].note], sender'[t].channel)
                      /\ sender'[t].pc = "record" => delivered'[sender'[t].note] > 0
    BY DEF Working
  <2>1. CASE t = s
    BY <1>2, <1>3, <1>7, <2>1, NotifierAssumption
  <2>2. CASE t # s
    <3>1. sender[t].pc = "record" => sender[t].note \in Notes
      BY NoteOf DEF Works
    <3> QED
      BY <1>6, <1>8, <2>2, <3>1 DEF Inv, Working
  <2> QED
    BY <2>1, <2>2
<1>10. Orderly'
  <2> SUFFICES ASSUME NEW m \in Notes \ doubtful
               PROVE  /\ up
                      /\ \A t, u \in Senders : sender'[t].note = m /\ sender'[u].note = m => t = u
                      /\ Reported(m) =>
                            /\ delivered'[m] <= 1
                            /\ delivered'[m] = 1 =>
                                  \/ m \in seen
                                  \/ \E t \in Senders : sender'[t].note = m /\ sender'[t].pc = "record"
                            /\ \A t \in Senders :
                                  sender'[t].note = m /\ sender'[t].pc # "record" => delivered'[m] = 0
    BY <1>1 DEF Orderly, Reported, stores
  <2>1. /\ up
        /\ \A t, u \in Senders : sender[t].note = m /\ sender[u].note = m => t = u
    BY DEF Inv, Orderly
  <2>2. th.note = m => m = n
    BY <1>3, NotifierAssumption
  <2>3. CASE m = n
    <3>1. Reported(m) => delivered[m] = 0
      BY <1>1, <2>3 DEF Inv, Orderly, n
    <3>2. Reported(m) => delivered'[m] = 1
      BY <1>2, <2>3, <3>1
    <3>3. \A t \in Senders \ {s} : sender'[t].note # m
      BY <1>6, <2>1, <2>3 DEF n
    <3> QED
      BY <1>3, <1>7, <2>1, <2>3, <3>2, <3>3
  <2>4. CASE m # n
    <3>1. delivered'[m] = delivered[m] /\ sender[s].note # m /\ th.note # m
      BY <1>2, <2>2, <2>4 DEF n
    <3> QED
      BY <1>6, <1>7, <2>1, <3>1 DEF Inv, Orderly
  <2> QED
    BY <2>3, <2>4
<1>11. SuppressedWasDelivered'
  BY <1>1, <1>8 DEF Inv, SuppressedWasDelivered, stores
<1> QED
  BY <1>4, <1>5, <1>9, <1>10, <1>11 DEF Inv

LEMMA PostErrorStep ==
    ASSUME Inv, NEW s \in Senders, PostError(s)
    PROVE  Inv'
<1> DEFINE n == sender[s].note
<1>1. /\ Works(s) /\ sender[s].pc = "post"
      /\ Posted(s)
      /\ UNCHANGED stores
  BY DEF PostError, Works
<1>2. PICK th \in Thread :
        /\ sender' = [sender EXCEPT ![s] = th]
        /\ \/ /\ th.pc = "attempt" /\ th.note = n /\ th.channel = sender[s].channel
              /\ th.tries < MaxAttempts
           \/ th = Idle
  <2>1. CASE sender[s].tries < MaxAttempts /\ sender' = [sender EXCEPT ![s].pc = "attempt"]
    <3> DEFINE th == [sender[s] EXCEPT !.pc = "attempt"]
    <3>1. /\ th \in Thread /\ th.pc = "attempt" /\ th.note = n
          /\ th.channel = sender[s].channel /\ th.tries < MaxAttempts
      BY <1>1, <2>1, NoteOf DEF Thread
    <3>2. sender' = [sender EXCEPT ![s] = th]
      BY <2>1
    <3> HIDE DEF th
    <3> QED
      BY <3>1, <3>2
  <2>2. CASE Return(s)
    BY <2>2, IdleType DEF Return
  <2> QED
    BY <2>1, <2>2 DEF PostError
<1>3. breaker' \in [Hosts -> [Channels -> Breaker]] /\ ClosedBelowThreshold'
  <2>1. CASE UNCHANGED breaker
    BY <2>1 DEF Inv, TypeOK, ClosedBelowThreshold
  <2>2. CASE SetBreaker(s, Failed(MyBreaker(s)))
    BY <1>1, <2>2, NoteOf, FailedType, BreakerStep DEF MyBreaker
  <2> QED
    BY <2>1, <2>2 DEF PostError
<1>4. /\ n \in Notes /\ sender[s].channel \in Channels
      /\ Reaches(Event[n], sender[s].channel)
      /\ posts' \in Nat
  BY <1>1, NoteOf, PostedType DEF Inv, Working, Thread
<1>5. /\ delivered' \in [Notes -> 0 .. 2]
      /\ \A m \in Notes : delivered[m] > 0 => delivered'[m] > 0
      /\ doubtful \subseteq doubtful' /\ doubtful' \subseteq Notes
      /\ \A m \in Notes \ doubtful' : delivered'[m] = delivered[m]
  <2>1. CASE UNCHANGED <<delivered, doubtful>>
    BY <2>1 DEF Inv, TypeOK
  <2>2. CASE Accepted(n) /\ doubtful' = doubtful \cup {n}
    BY <1>4, <2>2, AcceptedType DEF Inv, TypeOK
  <2> QED
    BY <2>1, <2>2 DEF PostError
<1>6. TypeOK'
  BY <1>1, <1>2, <1>3, <1>4, <1>5 DEF Inv, TypeOK, stores
<1>7. /\ \A t \in Senders \ {s} : sender'[t] = sender[t]
      /\ sender'[s] = th
  BY <1>2 DEF Inv, TypeOK
<1>8. Working'
  <2> SUFFICES ASSUME NEW t \in Senders
               PROVE  /\ sender'[t].pc = "idle" <=> sender'[t].note = None
                      /\ sender'[t].pc \in {"admit", "attempt"} => sender'[t].tries < MaxAttempts
                      /\ sender'[t].pc \in {"attempt", "post"} =>
                            Reaches(Event[sender'[t].note], sender'[t].channel)
                      /\ sender'[t].pc = "record" => delivered'[sender'[t].note] > 0
    BY DEF Working
  <2>1. CASE t = s
    BY <1>2, <1>4, <1>7, <2>1, IdleType, NotifierAssumption
  <2>2. CASE t # s
    <3>1. sender[t].pc = "record" => sender[t].note \in Notes
      BY NoteOf DEF Works
    <3> QED
      BY <1>5, <1>7, <2>2, <3>1 DEF Inv, Working
  <2> QED
    BY <2>1, <2>2
<1>9. Orderly'
  <2> SUFFICES ASSUME NEW m \in Notes \ doubtful'
               PROVE  /\ up
                      /\ \A t, u \in Senders : sender'[t].note = m /\ sender'[u].note = m => t = u
                      /\ Reported(m) =>
                            /\ delivered'[m] <= 1
                            /\ delivered'[m] = 1 =>
                                  \/ m \in seen
                                  \/ \E t \in Senders : sender'[t].note = m /\ sender'[t].pc = "record"
                            /\ \A t \in Senders :
                                  sender'[t].note = m /\ sender'[t].pc # "record" => delivered'[m] = 0
    BY <1>1 DEF Orderly, Reported, stores
  <2>1. m \in Notes \ doubtful /\ delivered'[m] = delivered[m]
    BY <1>5
  <2>2. th.note \in {n, None} /\ th.pc # "record"
    BY <1>2, IdleType
  <2> QED
    BY <1>1, <1>7, <2>1, <2>2, NotifierAssumption DEF Inv, Orderly
<1>10. SuppressedWasDelivered'
  BY <1>1, <1>5 DEF Inv, SuppressedWasDelivered, stores
<1> QED
  BY <1>3, <1>6, <1>8, <1>9, <1>10 DEF Inv

-----------------------------------------------------------------------------
(* Recording, restarts and outages *)

LEMMA RecordStep ==
    ASSUME Inv, NEW s \in Senders, Record(s)
    PROVE  Inv'
<1> DEFINE n == sender[s].note
<1>1. /\ Works(s) /\ sender[s].pc = "record"
      /\ sender' = [sender EXCEPT ![s] = Idle]
      /\ UNCHANGED <<up, count, memCount, aged, client, breaker, delivered, posts, doubtful,
                    outages, restarts>>
      /\ IF up THEN seen' = seen \cup {n} /\ UNCHANGED memSeen
         ELSE memSeen' = [memSeen EXCEPT ![HostOf[s]] = @ \cup {n}] /\ UNCHANGED seen
  BY DEF Record, Return, Works
<1>2. n \in Notes /\ HostOf[s] \in Hosts /\ delivered[n] > 0
  BY <1>1, NoteOf DEF Inv, Working
<1> HIDE DEF n
<1>3. TypeOK'
  <2>1. seen' \subseteq Notes /\ memSeen' \in [Hosts -> SUBSET Notes]
    BY <1>1, <1>2 DEF Inv, TypeOK
  <2> QED
    BY <1>1, <2>1, IdleType DEF Inv, TypeOK
<1>4. Working'
  BY <1>1, IdleType DEF Inv, TypeOK, Working
<1>5. Orderly'
  <2>1. \A t \in Senders \ {s} : sender'[t] = sender[t]
    BY <1>1 DEF Inv, TypeOK
  <2>2. sender'[s].note = None /\ sender'[s].pc = "idle"
    BY <1>1, IdleType DEF Inv, TypeOK
  <2> SUFFICES ASSUME NEW m \in Notes \ doubtful
               PROVE  /\ up
                      /\ \A t, u \in Senders : sender'[t].note = m /\ sender'[u].note = m => t = u
                      /\ Reported(m) =>
                            /\ delivered[m] <= 1
                            /\ delivered[m] = 1 =>
                                  \/ m \in seen'
                                  \/ \E t \in Senders : sender'[t].note = m /\ sender'[t].pc = "record"
                            /\ \A t \in Senders :
                                  sender'[t].note = m /\ sender'[t].pc # "record" => delivered[m] = 0
    BY <1>1 DEF Orderly, Reported
  <2>3. up /\ seen' = seen \cup {n}
    BY <1>1 DEF Inv, Orderly
  <2> QED
    BY <2>1, <2>2, <2>3, NotifierAssumption DEF Inv, Orderly, n
<1>6. SuppressedWasDelivered'
  <2> SUFFICES ASSUME NEW m \in Notes, m \in seen' \cup UNION {memSeen'[h] : h \in Hosts}
               PROVE  delivered[m] > 0
    BY <1>1 DEF SuppressedWasDelivered
  <2>1. m = n \/ m \in seen \cup UNION {memSeen[h] : h \in Hosts}
    BY <1>1, <1>2 DEF Inv, TypeOK
  <2> QED
    BY <1>2, <2>1 DEF Inv, SuppressedWasDelivered
<1>7. ClosedBelowThreshold'
  BY <1>1 DEF Inv, ClosedBelowThreshold
<1> QED
  BY <1>3, <1>4, <1>5, <1>6, <1>7 DEF Inv

LEMMA RestartStep ==
    ASSUME Inv, NEW h \in Hosts, Restart(h)
    PROVE  Inv'
<1> DEFINE mine == {s \in Senders : HostOf[s] = h}
<1>1. /\ restarts < MaxRestarts /\ restarts' = restarts + 1
      /\ memSeen' = [memSeen EXCEPT ![h] = {}]
      /\ memCount' = [memCount EXCEPT ![h] = 0] /\ aged' = aged \ {h}
      /\ client' = [client EXCEPT ![h] = "none"]
      /\ breaker' = [breaker EXCEPT ![h] = [c \in Channels |-> NewBreaker]]
      /\ sender' = [s \in Senders |-> IF s \in mine THEN Idle ELSE sender[s]]
      /\ doubtful' = doubtful \cup {n \in Notes : \E s \in mine : sender[s].note = n}
      /\ UNCHANGED <<up, seen, count, outages, delivered, posts>>
  BY DEF Restart
<1>2. TypeOK'
  <2>1. sender' \in [Senders -> Thread] /\ doubtful' \subseteq Notes
    BY <1>1, IdleType DEF Inv, TypeOK
  <2>2. breaker' \in [Hosts -> [Channels -> Breaker]]
    BY <1>1, NewBreakerType DEF Inv, TypeOK
  <2>3. memSeen' \in [Hosts -> SUBSET Notes] /\ memCount' \in [Hosts -> 0 .. MemLimit]
    BY <1>1, MemLimitType DEF Inv, TypeOK
  <2>5. aged' \subseteq Hosts /\ client' \in [Hosts -> {"none", "redis", "memory"}]
    BY <1>1 DEF Inv, TypeOK
  <2>4. restarts' \in 0 .. MaxRestarts
    BY <1>1, NotifierAssumption DEF Inv, TypeOK
  <2> QED
    BY <1>1, <2>1, <2>2, <2>3, <2>4, <2>5 DEF Inv, TypeOK
<1>3. Working'
  BY <1>1, IdleType DEF Inv, Working
<1>4. Orderly'
  <2> SUFFICES ASSUME NEW m \in Notes \ doubtful'
               PROVE  /\ up
                      /\ \A t, u \in Senders : sender'[t].note = m /\ sender'[u].note = m => t = u
                      /\ Reported(m) =>
                            /\ delivered[m] <= 1
                            /\ delivered[m] = 1 =>
                                  \/ m \in seen
                                  \/ \E t \in Senders : sender'[t].note = m /\ sender'[t].pc = "record"
                            /\ \A t \in Senders :
                                  sender'[t].note = m /\ sender'[t].pc # "record" => delivered[m] = 0
    BY <1>1 DEF Orderly, Reported
  <2>1. m \in Notes \ doubtful /\ \A s \in mine : sender[s].note # m
    BY <1>1
  <2>2. \A s \in Senders : \/ sender'[s].note = None
                           \/ s \notin mine /\ sender'[s] = sender[s]
    BY <1>1, IdleType
  <2>3. \A s \in Senders : sender[s].note = m => sender'[s] = sender[s]
    BY <1>1, <2>1
  <2> QED
    BY <2>1, <2>2, <2>3, NotifierAssumption DEF Inv, Orderly
<1>5. SuppressedWasDelivered'
  <2> SUFFICES ASSUME NEW m \in Notes, m \in seen \cup UNION {memSeen'[g] : g \in Hosts}
               PROVE  delivered[m] > 0
    BY <1>1 DEF SuppressedWasDelivered
  <2>1. m \in seen \cup UNION {memSeen[g] : g \in Hosts}
    BY <1>1 DEF Inv, TypeOK
  <2> QED
    BY <2>1 DEF Inv, SuppressedWasDelivered
<1>6. ClosedBelowThreshold'
  <2>1. \A g \in Hosts, c \in Channels :
            breaker'[g][c] = IF g = h THEN NewBreaker ELSE breaker[g][c]
    BY <1>1 DEF Inv, TypeOK
  <2> SUFFICES ASSUME NEW g \in Hosts, NEW c \in Channels, breaker'[g][c].state = "closed"
               PROVE  breaker'[g][c].count < Threshold
    BY DEF ClosedBelowThreshold
  <2>2. CASE g = h
    BY <2>1, <2>2, NewBreakerType
  <2>3. CASE g # h
    BY <2>1, <2>3 DEF Inv, ClosedBelowThreshold
  <2> QED
    BY <2>2, <2>3
<1> QED
  BY <1>2, <1>3, <1>4, <1>5, <1>6 DEF Inv

LEMMA RedisStep ==
    ASSUME Inv, RedisDown \/ RedisUp
    PROVE  Inv'
<1>1. /\ UNCHANGED <<seen, memSeen, count, memCount, aged, client, restarts, breaker, sender, delivered, posts>>
      /\ up' \in BOOLEAN /\ outages' \in 0 .. MaxOutages
      /\ doubtful' \subseteq Notes /\ Notes \ doubtful' = {}
  <2>1. CASE RedisDown
    <3>1. outages' \in 0 .. MaxOutages
      BY <2>1, NotifierAssumption DEF Inv, TypeOK, RedisDown
    <3> QED
      BY <2>1, <3>1 DEF RedisDown
  <2>2. CASE RedisUp
    <3>1. ~up /\ doubtful' = doubtful /\ up' = TRUE /\ outages' = outages
      BY <2>2 DEF RedisUp
    <3>2. Notes \ doubtful = {}
      BY <3>1 DEF Inv, Orderly
    <3> QED
      BY <2>2, <3>1, <3>2 DEF Inv, TypeOK, RedisUp
  <2> QED
    BY <2>1, <2>2
<1>2. TypeOK'
  BY <1>1 DEF Inv, TypeOK
<1>3. Working' /\ Orderly'
  BY <1>1 DEF Inv, Working, Orderly
<1>4. SuppressedWasDelivered' /\ ClosedBelowThreshold'
  BY <1>1 DEF Inv, SuppressedWasDelivered, ClosedBelowThreshold
<1> QED
  BY <1>2, <1>3, <1>4 DEF Inv

(* The client is built, or the window of the memory ends.                   *)
LEMMA CounterStep ==
    ASSUME Inv, (\E s \in Senders : BuildClient(s)) \/ (\E h \in Hosts : WindowEnds(h))
    PROVE  Inv'
<1>1. UNCHANGED <<up, seen, memSeen, count, outages, restarts, breaker, sender,
                  delivered, posts, doubtful>>
  BY DEF BuildClient, WindowEnds
<1>2. /\ memCount' \in [Hosts -> 0 .. MemLimit] /\ aged' \subseteq Hosts
      /\ client' \in [Hosts -> {"none", "redis", "memory"}]
  BY MemLimitType DEF BuildClient, WindowEnds, Inv, TypeOK
<1> QED
  BY <1>1, <1>2 DEF Inv, TypeOK, Working, Orderly, Reported, SuppressedWasDelivered,
                    ClosedBelowThreshold

(* Every step keeps the invariant. *)
LEMMA InvStep == Inv /\ [Next]_vars => Inv'
<1> SUFFICES ASSUME Inv, [Next]_vars PROVE Inv'
  OBVIOUS
<1>1. ASSUME NEW s \in Senders, Check(s) \/ Work(s) PROVE Inv'
  BY <1>1, CheckStep, RejectStep, AdmitStep, AttemptStep, OverLimitStep, PostOkStep,
     PostErrorStep, RecordStep, CounterStep DEF Work
<1>2. ASSUME NEW h \in Hosts, Restart(h) \/ WindowEnds(h) PROVE Inv'
  BY <1>2, RestartStep, CounterStep
<1>3. CASE RedisDown \/ RedisUp
  BY <1>3, RedisStep
<1>4. CASE UNCHANGED vars
  BY <1>4 DEF vars, Inv, TypeOK, Working, Orderly, Reported, SuppressedWasDelivered,
              ClosedBelowThreshold
<1> QED
  BY <1>1, <1>2, <1>3, <1>4 DEF Next

-----------------------------------------------------------------------------
(* Theorems *)

(* Every variable has its type. *)
THEOREM TypeCorrect == Spec => []TypeOK
<1>1. Inv => TypeOK
  BY DEF Inv
<1> QED
  BY <1>1, InvInit, InvStep, PTL DEF Spec

(* A suppressed notification was accepted by a provider: no failure of a    *)
(* channel, of Redis or of a process makes a key appear for a note that     *)
(* never went out.                                                          *)
THEOREM SuppressedDelivered == Spec => []SuppressedWasDelivered
<1>1. Inv => SuppressedWasDelivered
  BY DEF Inv
<1> QED
  BY <1>1, InvInit, InvStep, PTL DEF Spec

(* A note whose successes are all reported goes out twice only after one of *)
(* the events that excuse it.                                               *)
THEOREM RepeatsHaveCause == Spec => []RepeatHasCause
<1>1. Inv => RepeatHasCause
  BY DEF Inv, TypeOK, Orderly, Reported, RepeatHasCause
<1> QED
  BY <1>1, InvInit, InvStep, PTL DEF Spec

(* A closed breaker has counted fewer failures than the threshold, in       *)
(* whatever order the calls it let through come back.                       *)
THEOREM ClosedIsBelow == Spec => []ClosedBelowThreshold
<1>1. Inv => ClosedBelowThreshold
  BY DEF Inv
<1> QED
  BY <1>1, InvInit, InvStep, PTL DEF Spec

-----------------------------------------------------------------------------
(* The daily limit *)

(* The attempts of today that were granted and not yet posted, and those    *)
(* granted by Redis and by the memories of the processes that are alive.    *)
Posting == {s \in Senders : sender[s].pc = "post" /\ sender[s].channel = "whatsapp"}
FromRedis == IF count <= Limit THEN count ELSE Limit
FromMemory == {g \in Hosts \X (1 .. MemLimit) : g[2] <= memCount[g[1]]}

(* Every post was granted by one of them, by a memory that is gone or in a  *)
(* window that has ended.  A window of the day before had granted one       *)
(* attempt at least that was not of today.                                  *)
Granted ==
    posts + Cardinality(Posting) + MemLimit * Cardinality(aged)
        <= FromRedis + Cardinality(FromMemory) + (MemLimit - 1) * Cardinality(Hosts)
             + MemLimit * restarts

LEMMA ProductType == \A i, j \in Nat : i * j \in Nat
OBVIOUS

LEMMA GrantTypes ==
    ASSUME TypeOK
    PROVE  /\ IsFiniteSet(Posting) /\ Cardinality(Posting) \in Nat
           /\ IsFiniteSet(FromMemory) /\ Cardinality(FromMemory) \in Nat
           /\ Cardinality(FromMemory) <= Cardinality(Hosts) * MemLimit
           /\ IsFiniteSet(aged) /\ Cardinality(aged) \in Nat
           /\ Cardinality(aged) <= Cardinality(Hosts)
           /\ Cardinality(Hosts) \in Nat
           /\ FromRedis \in 0 .. Limit /\ posts \in Nat /\ MemLimit * restarts \in Nat
           /\ MemLimit * Cardinality(aged) \in Nat
           /\ (MemLimit - 1) * Cardinality(Hosts) \in Nat
<1>1. IsFiniteSet(Posting) /\ Cardinality(Posting) \in Nat
  BY NotifierAssumption, FS_Subset, FS_CardinalityType DEF Posting
<1>2. IsFiniteSet(1 .. MemLimit) /\ Cardinality(1 .. MemLimit) = MemLimit
  BY MemLimitType, FS_Interval
<1>3. /\ IsFiniteSet(Hosts \X (1 .. MemLimit))
      /\ Cardinality(Hosts \X (1 .. MemLimit)) = Cardinality(Hosts) * MemLimit
  BY <1>2, NotifierAssumption, FS_Product
<1>4. /\ IsFiniteSet(FromMemory) /\ Cardinality(FromMemory) \in Nat
      /\ Cardinality(FromMemory) <= Cardinality(Hosts) * MemLimit
  BY <1>3, FS_Subset, FS_CardinalityType DEF FromMemory
<1>5. FromRedis \in 0 .. Limit
  BY NotifierAssumption DEF TypeOK, FromRedis
<1>6. /\ Cardinality(Hosts) \in Nat /\ IsFiniteSet(aged) /\ Cardinality(aged) \in Nat
      /\ Cardinality(aged) <= Cardinality(Hosts)
  BY NotifierAssumption, FS_Subset, FS_CardinalityType DEF TypeOK
<1>7. restarts \in Nat /\ posts \in Nat
  BY NotifierAssumption DEF TypeOK
<1>8. MemLimit \in Nat /\ MemLimit - 1 \in Nat
  BY MemLimitType
<1>9. /\ MemLimit * restarts \in Nat /\ MemLimit * Cardinality(aged) \in Nat
      /\ (MemLimit - 1) * Cardinality(Hosts) \in Nat
  BY <1>6, <1>7, <1>8, ProductType
<1> QED
  BY <1>1, <1>4, <1>5, <1>6, <1>7, <1>9

LEMMA GrantTypesNext ==
    ASSUME TypeOK'
    PROVE  /\ Cardinality(FromMemory') \in Nat /\ MemLimit * restarts' \in Nat
           /\ MemLimit * Cardinality(aged') \in Nat
<1>1. IsFiniteSet(1 .. MemLimit) /\ MemLimit \in Nat
  BY MemLimitType, FS_Interval
<1>2. IsFiniteSet(Hosts \X (1 .. MemLimit))
  BY <1>1, NotifierAssumption, FS_Product
<1>3. Cardinality(FromMemory') \in Nat
  BY <1>2, FS_Subset, FS_CardinalityType DEF FromMemory
<1>4. Cardinality(aged') \in Nat /\ restarts' \in Nat
  BY NotifierAssumption, FS_Subset, FS_CardinalityType DEF TypeOK
<1> QED
  BY <1>1, <1>3, <1>4, ProductType

LEMMA GrantInit == Init => Granted
<1> SUFFICES ASSUME Init PROVE Granted
  OBVIOUS
<1>1. Posting = {}
  BY IdleType DEF Init, Posting
<1>2. TypeOK
  BY InvInit DEF Inv
<1>3. posts = 0 /\ Cardinality(Posting) = 0
  BY <1>1, FS_EmptySet DEF Init
<1> DEFINE A == Cardinality(aged)
           H == Cardinality(Hosts)
           m == Cardinality(FromMemory)
           M == MemLimit
<1>4. A <= m
  <2>1. IsFiniteSet({1}) /\ Cardinality({1}) = 1
    BY FS_Singleton
  <2>2. Cardinality(aged \X {1}) = A * 1
    BY <1>2, <2>1, GrantTypes, FS_Product
  <2>3. aged \X {1} \subseteq FromMemory
    <3> SUFFICES ASSUME NEW h \in aged PROVE <<h, 1>> \in FromMemory
      OBVIOUS
    <3>1. h \in Hosts /\ memCount[h] \in 0 .. MemLimit /\ memCount[h] > 0
      BY DEF Init
    <3> QED
      BY <3>1, MemLimitType DEF FromMemory
  <2>4. Cardinality(aged \X {1}) <= m
    BY <1>2, <2>3, GrantTypes, FS_Subset
  <2> QED
    BY <1>2, <2>2, <2>4, GrantTypes
<1>5. M * A <= m + (M - 1) * H
  <2>1. A \in Nat /\ H \in Nat /\ m \in Nat /\ A <= H /\ M \in Nat /\ M - 1 \in Nat
    BY <1>2, GrantTypes, MemLimitType
  <2> HIDE DEF A, H, m, M
  <2>2. M * A = (M - 1) * A + A
    BY <2>1
  <2>3. (M - 1) * A <= (M - 1) * H
    BY <2>1
  <2>4. (M - 1) * A \in Nat /\ (M - 1) * H \in Nat
    BY <2>1, ProductType
  <2> QED
    BY <1>4, <2>1, <2>2, <2>3, <2>4
<1> QED
  BY <1>2, <1>3, <1>5, GrantTypes DEF Granted

(* A step that neither grants nor posts. *)
LEMMA GrantKept ==
    ASSUME Granted, TypeOK, TypeOK', Posting' \subseteq Posting,
           FromRedis' >= FromRedis, memCount' = memCount, aged' = aged, posts' = posts,
           restarts' = restarts
    PROVE  Granted'
<1>1. FromMemory' = FromMemory
  BY DEF FromMemory
<1>2. Cardinality(Posting') <= Cardinality(Posting) /\ Cardinality(Posting') \in Nat
  BY GrantTypes, FS_Subset, FS_CardinalityType
<1>3. FromRedis' \in Nat
  BY NotifierAssumption DEF TypeOK, FromRedis
<1> QED
  BY <1>1, <1>2, <1>3, GrantTypes DEF Granted

(* An attempt is granted by Redis or by the memory of the host. *)
LEMMA GrantAttempt ==
    ASSUME Granted, TypeOK, TypeOK', NEW s \in Senders, Attempt(s)
    PROVE  Granted'
<1> DEFINE h == HostOf[s]
<1>1. /\ sender[s].pc = "attempt" /\ UNCHANGED <<posts, restarts, aged>>
      /\ sender'[s].pc = "post" /\ sender'[s].channel = sender[s].channel
      /\ \A t \in Senders \ {s} : sender'[t] = sender[t]
  BY DEF Attempt, TypeOK, Thread
<1>2. CASE sender[s].channel = "email"
  <2>1. Posting' = Posting
    BY <1>1, <1>2 DEF Posting
  <2>2. UNCHANGED <<count, memCount>>
    BY <1>2 DEF Attempt
  <2> QED
    BY <1>1, <2>1, <2>2, GrantKept, GrantTypes DEF FromRedis
<1>3. CASE sender[s].channel # "email"
  <2>1. Posting' = Posting \cup {s} /\ s \notin Posting
    BY <1>1, <1>3 DEF Posting, TypeOK, Thread, Channels
  <2>2. Cardinality(Posting') = Cardinality(Posting) + 1
    BY <2>1, GrantTypes, FS_AddElement
  <2>3. InLimit(h) /\ CountAttempt(h)
    BY <1>3 DEF Attempt
  <2>4. CASE InRedis(h)
    <3>1. count < Limit /\ count' = count + 1 /\ memCount' = memCount
      BY <2>3, <2>4, NotifierAssumption DEF InLimit, CountAttempt, TypeOK
    <3>2. FromRedis' = FromRedis + 1
      BY <3>1, NotifierAssumption DEF FromRedis, TypeOK
    <3>3. FromMemory' = FromMemory
      BY <3>1 DEF FromMemory
    <3> QED
      BY <1>1, <2>2, <3>2, <3>3, GrantTypes DEF Granted
  <2>5. CASE ~InRedis(h)
    <3>1. /\ h \in Hosts /\ memCount[h] \in 0 .. MemLimit /\ memCount[h] < MemLimit
          /\ memCount' = [memCount EXCEPT ![h] = @ + 1] /\ count' = count
      BY <2>3, <2>5, NotifierAssumption DEF InLimit, CountAttempt, TypeOK, MemLimit
    <3> DEFINE g == <<h, memCount[h] + 1>>
    <3>2. FromMemory' = FromMemory \cup {g} /\ g \notin FromMemory
      <4>1. g \in Hosts \X (1 .. MemLimit) /\ g \notin FromMemory
        BY <3>1, MemLimitType DEF FromMemory
      <4>2. ASSUME NEW k \in Hosts \X (1 .. MemLimit)
            PROVE  k[2] <= memCount'[k[1]] <=> k[2] <= memCount[k[1]] \/ k = g
        <5>1. k[1] \in Hosts /\ k[2] \in 1 .. MemLimit /\ k = <<k[1], k[2]>>
          OBVIOUS
        <5>2. CASE k[1] = h
          <6>1. memCount'[h] = memCount[h] + 1
            BY <3>1 DEF TypeOK
          <6>2. k = g <=> k[2] = memCount[h] + 1
            BY <5>1, <5>2
          <6> QED
            BY <3>1, <5>1, <5>2, <6>1, <6>2, MemLimitType
        <5>3. CASE k[1] # h
          BY <3>1, <5>1, <5>3 DEF TypeOK
        <5> QED
          BY <5>2, <5>3
      <4> QED
        BY <4>1, <4>2 DEF FromMemory
    <3> HIDE DEF g
    <3>3. Cardinality(FromMemory') = Cardinality(FromMemory) + 1
      BY <3>2, GrantTypes, FS_AddElement
    <3>4. FromRedis' = FromRedis
      BY <3>1 DEF FromRedis
    <3> QED
      BY <1>1, <2>2, <3>3, <3>4, GrantTypes DEF Granted
  <2> QED
    BY <2>4, <2>5
<1> QED
  BY <1>2, <1>3

(* A post uses up its grant. *)
LEMMA GrantPost ==
    ASSUME Granted, TypeOK, TypeOK', NEW s \in Senders, PostOk(s) \/ PostError(s)
    PROVE  Granted'
<1>1. /\ sender[s].pc = "post" /\ Posted(s)
      /\ UNCHANGED <<count, memCount, restarts, aged>>
  BY DEF PostOk, PostError, stores
<1>2. /\ sender'[s].pc # "post"
      /\ \A t \in Senders \ {s} : sender'[t] = sender[t]
  BY IdleType DEF PostOk, PostError, Return, TypeOK, Thread
<1>3. Posting' = Posting \ {s}
  BY <1>2 DEF Posting
<1>4. FromMemory' = FromMemory /\ FromRedis' = FromRedis
  BY <1>1 DEF FromMemory, FromRedis
<1>5. CASE sender[s].channel = "whatsapp"
  <2>1. s \in Posting
    BY <1>1, <1>5 DEF Posting
  <2>2. Cardinality(Posting') = Cardinality(Posting) - 1
    BY <1>3, <2>1, GrantTypes, FS_RemoveElement
  <2>3. posts' = posts + 1
    BY <1>1, <1>5 DEF Posted
  <2> QED
    BY <1>1, <1>4, <2>2, <2>3, GrantTypes DEF Granted
<1>6. CASE sender[s].channel # "whatsapp"
  <2>1. posts' = posts
    BY <1>1, <1>6 DEF Posted, TypeOK
  <2> QED
    BY <1>1, <1>3, <1>4, <2>1, GrantKept, GrantTypes
<1> QED
  BY <1>5, <1>6

(* A memory that is emptied forgets at most the grants of one window. *)
LEMMA MemoryForgets ==
    ASSUME TypeOK, TypeOK', NEW h \in Hosts, memCount' = [memCount EXCEPT ![h] = 0]
    PROVE  Cardinality(FromMemory) <= Cardinality(FromMemory') + MemLimit
<1> DEFINE mine == {h} \X (1 .. MemLimit)
<1>1. IsFiniteSet(mine) /\ Cardinality(mine) = MemLimit
  <2>1. IsFiniteSet(1 .. MemLimit) /\ Cardinality(1 .. MemLimit) = MemLimit
    BY MemLimitType, FS_Interval
  <2>2. IsFiniteSet({h}) /\ Cardinality({h}) = 1
    BY FS_Singleton
  <2>3. IsFiniteSet(mine) /\ Cardinality(mine) = 1 * MemLimit
    BY <2>1, <2>2, FS_Product
  <2> QED
    BY <2>3, MemLimitType
<1>2. FromMemory \subseteq FromMemory' \cup mine
  <2> SUFFICES ASSUME NEW g \in FromMemory, g[1] # h PROVE g \in FromMemory'
    BY DEF FromMemory
  <2> QED
    BY DEF FromMemory, TypeOK
<1>3. FromMemory' \subseteq FromMemory
  <2> SUFFICES ASSUME NEW g \in FromMemory' PROVE g \in FromMemory
    OBVIOUS
  <2>1. g \in Hosts \X (1 .. MemLimit) /\ g[2] <= memCount'[g[1]]
    BY DEF FromMemory
  <2>2. g[1] # h
    BY <2>1, MemLimitType DEF TypeOK
  <2> QED
    BY <2>1, <2>2 DEF FromMemory, TypeOK
<1>4. IsFiniteSet(FromMemory') /\ Cardinality(FromMemory') \in Nat
  BY <1>3, GrantTypes, FS_Subset, FS_CardinalityType
<1> HIDE DEF mine
<1> QED
  <2>1. /\ IsFiniteSet(FromMemory' \cup mine)
        /\ Cardinality(FromMemory' \cup mine)
             = Cardinality(FromMemory') + Cardinality(mine) - Cardinality(FromMemory' \cap mine)
    BY <1>1, <1>4, FS_Union
  <2>2. Cardinality(FromMemory) <= Cardinality(FromMemory' \cup mine)
    BY <1>2, <2>1, FS_Subset
  <2>3. Cardinality(FromMemory' \cap mine) \in Nat
    BY <1>4, FS_Subset, FS_CardinalityType
  <2>4. Cardinality(FromMemory' \cup mine) \in Nat
    BY <2>1, FS_CardinalityType
  <2> QED
    BY <1>1, <1>4, <2>1, <2>2, <2>3, <2>4, GrantTypes, MemLimitType

LEMMA GrantRestart ==
    ASSUME Granted, TypeOK, TypeOK', NEW h \in Hosts, Restart(h)
    PROVE  Granted'
<1>1. /\ restarts' = restarts + 1 /\ UNCHANGED <<count, posts>>
      /\ memCount' = [memCount EXCEPT ![h] = 0] /\ aged' = aged \ {h}
      /\ sender' = [s \in Senders |-> IF HostOf[s] = h THEN Idle ELSE sender[s]]
  BY DEF Restart
<1>2. Posting' \subseteq Posting
  BY <1>1, IdleType DEF Posting
<1>3. Cardinality(Posting') <= Cardinality(Posting) /\ Cardinality(Posting') \in Nat
  BY <1>2, GrantTypes, FS_Subset, FS_CardinalityType
<1>4. Cardinality(FromMemory) <= Cardinality(FromMemory') + MemLimit
  BY <1>1, MemoryForgets
<1>5. MemLimit * restarts' = MemLimit * restarts + MemLimit
  <2>1. restarts \in Nat /\ MemLimit \in Nat
    BY NotifierAssumption, MemLimitType DEF TypeOK
  <2> QED
    BY <1>1, <2>1
<1>6. MemLimit * Cardinality(aged') <= MemLimit * Cardinality(aged)
  <2> DEFINE a == Cardinality(aged)
             b == Cardinality(aged')
             M == MemLimit
  <2>1. a \in Nat /\ b \in Nat /\ b <= a /\ M \in Nat
    BY <1>1, GrantTypes, MemLimitType, FS_Subset, FS_CardinalityType
  <2> HIDE DEF a, b, M
  <2>2. M * b <= M * a
    BY <2>1
  <2> QED
    BY <2>2 DEF a, b, M
<1>7. FromRedis' = FromRedis
  BY <1>1 DEF FromRedis
<1>8. /\ Cardinality(FromMemory') \in Nat /\ MemLimit * restarts' \in Nat
      /\ MemLimit * Cardinality(aged') \in Nat /\ MemLimit \in Nat
  BY GrantTypesNext, MemLimitType
<1> QED
  BY <1>1, <1>3, <1>4, <1>5, <1>6, <1>7, <1>8, GrantTypes DEF Granted

(* The window of the day before ends: what was left of it is paid for.      *)
LEMMA GrantWindowEnds ==
    ASSUME Granted, TypeOK, TypeOK', NEW h \in Hosts, WindowEnds(h)
    PROVE  Granted'
<1>1. /\ UNCHANGED <<count, posts, restarts, sender>>
      /\ h \in aged /\ aged' = aged \ {h} /\ memCount' = [memCount EXCEPT ![h] = 0]
  BY DEF WindowEnds
<1>2. Cardinality(FromMemory) <= Cardinality(FromMemory') + MemLimit
  BY <1>1, MemoryForgets
<1>3. MemLimit * Cardinality(aged') = MemLimit * Cardinality(aged) - MemLimit
  <2>1. Cardinality(aged') = Cardinality(aged) - 1
    BY <1>1, GrantTypes, FS_RemoveElement
  <2>2. Cardinality(aged) \in Nat /\ MemLimit \in Nat
    BY GrantTypes, MemLimitType
  <2> QED
    BY <2>1, <2>2
<1>4. FromRedis' = FromRedis /\ Posting' = Posting
  BY <1>1 DEF FromRedis, Posting
<1>5. Cardinality(FromMemory') \in Nat /\ MemLimit \in Nat
  BY GrantTypesNext, MemLimitType
<1> QED
  BY <1>1, <1>2, <1>3, <1>4, <1>5, GrantTypes DEF Granted

LEMMA GrantStep == Granted /\ Inv /\ Inv' /\ [Next]_vars => Granted'
<1> SUFFICES ASSUME Granted, TypeOK, TypeOK', [Next]_vars PROVE Granted'
  BY DEF Inv
<1>1. ASSUME UNCHANGED <<count, memCount, aged, posts, restarts>>, Posting' \subseteq Posting
      PROVE  Granted'
  BY <1>1, GrantKept, GrantTypes DEF FromRedis
<1>2. ASSUME NEW s \in Senders, NEW x, sender' = [sender EXCEPT ![s] = x],
             x.pc # "post", UNCHANGED <<count, memCount, aged, posts, restarts>>
      PROVE  Granted'
  <2>1. Posting' \subseteq Posting
    BY <1>2 DEF Posting, TypeOK
  <2> QED
    BY <1>1, <1>2, <2>1
<1>3. ASSUME NEW s \in Senders, Check(s) PROVE Granted'
  <2>1. sender'[s].pc = "admit" /\ \A t \in Senders \ {s} : sender'[t] = sender[t]
    BY <1>3 DEF Check, TypeOK
  <2>2. Posting' \subseteq Posting
    BY <2>1 DEF Posting
  <2> QED
    BY <1>1, <1>3, <2>2 DEF Check, stores
<1>4. ASSUME NEW s \in Senders, Reject(s) \/ Record(s) PROVE Granted'
  BY <1>2, <1>4, IdleType DEF Reject, Record, Return, stores
<1>5. ASSUME NEW s \in Senders, Admit(s) PROVE Granted'
  <2>1. sender'[s].pc = "attempt" /\ \A t \in Senders \ {s} : sender'[t] = sender[t]
    BY <1>5 DEF Admit, TypeOK, Thread
  <2>2. Posting' \subseteq Posting
    BY <2>1 DEF Posting
  <2> QED
    BY <1>1, <1>5, <2>2 DEF Admit, stores
<1>6. ASSUME NEW s \in Senders, OverLimit(s) PROVE Granted'
  <2>1. /\ ~InLimit(HostOf[s]) /\ CountAttempt(HostOf[s]) /\ Return(s)
        /\ UNCHANGED <<restarts, posts, aged>>
    BY <1>6 DEF OverLimit
  <2>2. Posting' \subseteq Posting
    BY <2>1, IdleType DEF Return, Posting, TypeOK
  <2>3. memCount' = memCount
    BY <2>1, NotifierAssumption, MemLimitType DEF InLimit, CountAttempt, TypeOK
  <2>4. FromRedis' >= FromRedis
    BY <2>1, NotifierAssumption DEF InLimit, CountAttempt, FromRedis, TypeOK
  <2> QED
    BY <2>1, <2>2, <2>3, <2>4, GrantKept
<1>9. ASSUME NEW s \in Senders, BuildClient(s) PROVE Granted'
  <2>1. UNCHANGED <<count, memCount, aged, posts, restarts, sender>>
    BY <1>9 DEF BuildClient
  <2> QED
    BY <1>1, <2>1 DEF Posting
<1>7. ASSUME NEW s \in Senders, Work(s) PROVE Granted'
  BY <1>9, <1>4, <1>5, <1>6, <1>7, GrantAttempt, GrantPost DEF Work
<1>8. ASSUME RedisDown \/ RedisUp \/ UNCHANGED vars PROVE Granted'
  <2>1. UNCHANGED <<count, memCount, aged, posts, restarts, sender>>
    BY <1>8 DEF RedisDown, RedisUp, vars
  <2> QED
    BY <1>1, <2>1 DEF Posting
<1> QED
  BY <1>3, <1>7, <1>8, GrantRestart, GrantWindowEnds DEF Next

(* On no day are more requests posted to WhatsApp than the limit of Redis,  *)
(* what a window of the memory grants for each process there was, and what  *)
(* was left of the windows the day began with (whatsapp.py:208-221, 324),   *)
(* however the clients switch between the counters, retry and overlap.      *)
THEOREM DailyLimitHolds == Spec => []DailyLimit
<1>1. Init => Inv /\ Granted
  BY InvInit, GrantInit
<1>2. Inv /\ Granted /\ [Next]_vars => (Inv /\ Granted)'
  BY InvStep, GrantStep
<1>3. Inv /\ Granted => DailyLimit
  <2> SUFFICES ASSUME TypeOK, Granted PROVE DailyLimit
    BY DEF Inv
  <2> DEFINE H == Cardinality(Hosts)
             M == MemLimit
             m == Cardinality(FromMemory)
             g == Cardinality(Posting)
             a == M * Cardinality(aged)
             lost == M * restarts
             old == (M - 1) * H
  <2>1. /\ H \in Nat /\ m \in Nat /\ g \in Nat /\ a \in Nat /\ lost \in Nat /\ old \in Nat
        /\ m <= H * M /\ FromRedis \in 0 .. Limit /\ posts \in Nat
        /\ Limit \in Nat /\ M \in Nat
    BY GrantTypes, MemLimitType, NotifierAssumption
  <2>2. posts + g + a <= FromRedis + m + old + lost
    BY DEF Granted
  <2>3. (2 * M - 1) * H = H * M + old
    BY <2>1
  <2>4. H * M \in Nat
    BY <2>1, ProductType
  <2> HIDE DEF H, M, m, g, a, lost, old
  <2>5. posts <= Limit + (2 * M - 1) * H + lost
    BY <2>1, <2>2, <2>3, <2>4
  <2> QED
    BY <2>5 DEF DailyLimit, H, M, lost
<1> QED
  BY <1>1, <1>2, <1>3, PTL DEF Spec
=============================================================================

------------------------------ MODULE Notifier ------------------------------
(***************************************************************************)
(* Notifications of apps/api: NotificationOrchestrator.send, the WhatsApp  *)
(* and e-mail clients below it with their retries, circuit breakers and    *)
(* the daily limit of WhatsApp, on several hosts that share one Redis.     *)
(*                                                                         *)
(* Both the deduplication and the daily count live in Redis and fall back  *)
(* to the memory of the process whenever a call to Redis fails.  The model *)
(* covers one calendar day: no dedup key of the day expires, the count in  *)
(* Redis is the day's, and the count in memory is that of a window of 24   *)
(* hours, which may have been opened the day before.                       *)
(***************************************************************************)
EXTENDS CircuitBreaker, FiniteSets

CONSTANTS
    Hosts,         \* processes of the Python API
    Senders,       \* threads that call send
    HostOf,        \* the host of each sender
    Notes,         \* (renter, event, suffix): what the dedup key is made of
    Event,         \* the event of each note
    Contacts,      \* contacts a caller may pass: reachable channels and preference
    Limit,         \* WhatsApp's daily_limit
    MaxAttempts,   \* max_attempts of retry_with_backoff
    MaxOutages,    \* bound: Redis outages in a behaviour
    MaxRestarts,   \* bound: host restarts in a behaviour
    None

Channels == {"email", "whatsapp"}

Events == {"charge.due", "charge.overdue", "payment.confirmed", "maintenance.update",
           "maintenance.scheduled", "contract.expiring", "welcome", "owner.statement"}

ASSUME NotifierAssumption ==
    /\ IsFiniteSet(Hosts) /\ IsFiniteSet(Senders)
    /\ HostOf \in [Senders -> Hosts]
    /\ Event \in [Notes -> Events]
    /\ Contacts \subseteq [reach : SUBSET Channels, prefers : Channels \cup {None}]
    /\ Limit \in Nat /\ MaxAttempts \in Nat \ {0}
    /\ MaxOutages \in Nat /\ MaxRestarts \in Nat
    /\ None \notin Notes \cup Channels

VARIABLES
    up,          \* Redis answers
    seen,        \* dedup keys in Redis
    memSeen,     \* dedup keys in the memory of each host
    count,       \* the counter of the day in Redis, up to Limit + 1
    memCount,    \* the counter of the window in the memory of each host, 0: none
    aged,        \* hosts whose window was opened the day before
    client,      \* the counter the WhatsApp client of each host was built to use
    breaker,     \* the two breakers of each host
    sender,      \* what each thread is doing
    delivered,   \* how often the provider accepted each note, up to 2
    posts,       \* requests sent to the WhatsApp API
    doubtful,    \* notes a second send of which has an excuse (history)
    outages,
    restarts

vars == <<up, seen, memSeen, count, memCount, aged, client, breaker, sender, delivered, posts,
          doubtful, outages, restarts>>

stores == <<up, seen, memSeen, count, memCount, aged, client, outages, restarts>>

\* What a window of the memory grants: its first attempt always.
MemLimit == IF Limit = 0 THEN 1 ELSE Limit

Thread == [pc : {"idle", "admit", "attempt", "post", "record"},
           note : Notes \cup {None}, channel : Channels, tries : 0 .. MaxAttempts]
Idle == [pc |-> "idle", note |-> None, channel |-> "email", tries |-> 0]

Init ==
    /\ up = TRUE
    /\ seen = {} /\ memSeen = [h \in Hosts |-> {}]
    /\ count = 0 /\ aged \in SUBSET Hosts
    /\ memCount \in [Hosts -> 0 .. MemLimit]
    /\ \A h \in Hosts : memCount[h] > 0 <=> h \in aged
    /\ client \in [Hosts -> {"none", "redis", "memory"}]
    /\ \A h \in aged : client[h] # "none"
    /\ breaker = [h \in Hosts |-> [c \in Channels |-> NewBreaker]]
    /\ sender = [s \in Senders |-> Idle]
    /\ delivered = [n \in Notes |-> 0]
    /\ posts = 0 /\ doubtful = {} /\ outages = 0 /\ restarts = 0

-----------------------------------------------------------------------------
(* Channels and what becomes of an event on each *)

\* _EVENT_CHANNEL_PRIORITY
Priority(e) ==
    CASE e \in {"charge.due", "charge.overdue", "payment.confirmed"} -> <<"whatsapp", "email">>
      [] e \in {"maintenance.update", "maintenance.scheduled", "contract.expiring"} ->
            <<"email", "whatsapp">>
      [] OTHER -> <<"email">>

\* _select_channel: the preferred channel first, if the event uses it; WhatsApp
\* only in the daytime; None if nothing is left.
SelectChannel(e, contact, daytime) ==
    LET p == Priority(e)
        used == {p[i] : i \in DOMAIN p}
        first == IF contact.prefers \in used THEN contact.prefers ELSE p[1]
        usable == {c \in used \cap contact.reach : c = "whatsapp" => daytime}
    IN  CASE usable = {} -> None
          [] first \in usable -> first
          [] OTHER -> CHOOSE c \in usable : TRUE

\* The calls that reach a provider.  The others raise before: a helper called
\* with too few or too many arguments, and a class EmailMessage that does not
\* exist.
Reaches(e, c) ==
    \/ c = "email" /\ e \in {"charge.due", "charge.overdue", "payment.confirmed"}
    \/ c = "whatsapp" /\ e # "payment.confirmed"

\* send_text returns an object the caller reads as a dictionary: the message is
\* out and the send is reported as failed.
Reports(e, c) == c = "email" \/ e \in {"charge.due", "charge.overdue", "maintenance.update"}

-----------------------------------------------------------------------------
(* One send *)

\* Mutant of IsDuplicate: only the memory of the host is asked.
IsDuplicateHere(h, n) == n \in memSeen[h]
IsDuplicate(h, n) == IF up THEN n \in seen ELSE n \in memSeen[h]

\* send: the dedup key is looked up, the channel selected; a duplicate and a
\* contact without a channel return at once.
Check(s) ==
    /\ sender[s].pc = "idle"
    /\ \E n \in Notes, contact \in Contacts, daytime \in BOOLEAN :
        /\ ~IsDuplicate(HostOf[s], n)
        /\ SelectChannel(Event[n], contact, daytime) # None
        /\ sender' = [sender EXCEPT ![s] =
              [pc |-> "admit", note |-> n, tries |-> 0,
               channel |-> SelectChannel(Event[n], contact, daytime)]]
        /\ doubtful' = IF \E o \in Senders : sender[o].note = n THEN doubtful \cup {n} ELSE doubtful
    /\ UNCHANGED <<stores, breaker, delivered, posts>>

SetBreaker(s, b) == breaker' = [breaker EXCEPT ![HostOf[s]][sender[s].channel] = b]
MyBreaker(s) == breaker[HostOf[s]][sender[s].channel]
Return(s) == sender' = [sender EXCEPT ![s] = Idle]

ClientReady(s) == sender[s].channel = "whatsapp" => client[HostOf[s]] # "none"

\* get_whatsapp_client: a client that is built while Redis is away counts in
\* memory for good.
BuildClient(s) ==
    /\ sender[s].pc = "admit" /\ ~ClientReady(s)
    /\ client' = [client EXCEPT ![HostOf[s]] = IF up THEN "redis" ELSE "memory"]
    /\ UNCHANGED <<up, seen, memSeen, count, memCount, aged, outages, restarts, breaker, sender,
                   delivered, posts, doubtful>>

\* The call raises before it gets to the breaker, or the breaker rejects it.
Reject(s) ==
    /\ sender[s].pc = "admit" /\ ClientReady(s)
    /\ ~Reaches(Event[sender[s].note], sender[s].channel) \/ MayReject(MyBreaker(s))
    /\ Return(s)
    /\ UNCHANGED <<stores, breaker, delivered, posts, doubtful>>

Admit(s) ==
    /\ sender[s].pc = "admit" /\ ClientReady(s)
    /\ Reaches(Event[sender[s].note], sender[s].channel)
    /\ SetBreaker(s, Admitted(MyBreaker(s)))
    /\ sender' = [sender EXCEPT ![s].pc = "attempt"]
    /\ UNCHANGED <<stores, delivered, posts, doubtful>>

InRedis(h) == up /\ client[h] = "redis"

\* Mutant of InLimit: the counter is compared before it is increased.
InLimitLate(h) == IF InRedis(h) THEN count <= Limit ELSE memCount[h] = 0 \/ memCount[h] < Limit

\* The first attempt of a window in memory is granted without a look at the limit.
InLimit(h) == IF InRedis(h) THEN count < Limit ELSE memCount[h] = 0 \/ memCount[h] < Limit

\* Mutant of CountAttempt: the memory counts every attempt too.
CountEveryAttempt(h) ==
    IF InRedis(h)
    THEN /\ count' = IF count > Limit THEN count ELSE count + 1
         /\ UNCHANGED memCount
    ELSE /\ memCount' = [memCount EXCEPT ![h] = @ + 1]
         /\ UNCHANGED count

\* _check_rate_limit: Redis counts every attempt, the memory only those it
\* grants.
CountAttempt(h) ==
    IF InRedis(h)
    THEN /\ count' = IF count > Limit THEN count ELSE count + 1
         /\ UNCHANGED memCount
    ELSE /\ memCount' = [memCount EXCEPT ![h] = IF InLimit(h) THEN @ + 1 ELSE @]
         /\ UNCHANGED count

\* Mutant of Attempt: the loop does not count its attempts.
AttemptUncounted(s) ==
    /\ sender[s].pc = "attempt"
    /\ IF sender[s].channel = "email" THEN UNCHANGED <<count, memCount>>
       ELSE InLimit(HostOf[s]) /\ CountAttempt(HostOf[s])
    /\ sender' = [sender EXCEPT ![s].pc = "post"]
    /\ UNCHANGED <<up, seen, memSeen, aged, client, outages, restarts, breaker, delivered, posts, doubtful>>

\* An attempt of the retry loop; an e-mail is not counted.
Attempt(s) ==
    /\ sender[s].pc = "attempt"
    /\ IF sender[s].channel = "email" THEN UNCHANGED <<count, memCount>>
       ELSE InLimit(HostOf[s]) /\ CountAttempt(HostOf[s])
    /\ sender' = [sender EXCEPT ![s].pc = "post", ![s].tries = @ + 1]
    /\ UNCHANGED <<up, seen, memSeen, aged, client, outages, restarts, breaker, delivered, posts, doubtful>>

\* WhatsAppRateLimitError is not retried, and is a failure for the breaker.
OverLimit(s) ==
    /\ sender[s].pc = "attempt" /\ sender[s].channel = "whatsapp"
    /\ ~InLimit(HostOf[s])
    /\ CountAttempt(HostOf[s])
    /\ SetBreaker(s, Failed(MyBreaker(s)))
    /\ Return(s)
    /\ UNCHANGED <<up, seen, memSeen, aged, client, outages, restarts, delivered, posts, doubtful>>

Posted(s) == posts' = posts + IF sender[s].channel = "whatsapp" THEN 1 ELSE 0
Accepted(n) == delivered' = [delivered EXCEPT ![n] = IF @ < 2 THEN @ + 1 ELSE @]

\* The provider accepts and says so.
PostOk(s) ==
    /\ sender[s].pc = "post"
    /\ Posted(s)
    /\ Accepted(sender[s].note)
    /\ SetBreaker(s, Succeeded(MyBreaker(s)))
    /\ IF Reports(Event[sender[s].note], sender[s].channel)
       THEN sender' = [sender EXCEPT ![s].pc = "record"]
       ELSE Return(s)
    /\ UNCHANGED <<stores, doubtful>>

\* Mutant of PostError: a send that failed is recorded too.
PostErrorRecorded(s) ==
    /\ sender[s].pc = "post"
    /\ Posted(s)
    /\ UNCHANGED <<delivered, doubtful>>
    /\ IF sender[s].tries < MaxAttempts
       THEN /\ sender' = [sender EXCEPT ![s].pc = "attempt"]
            /\ UNCHANGED breaker
       ELSE /\ SetBreaker(s, Failed(MyBreaker(s)))
            /\ sender' = [sender EXCEPT ![s].pc = "record"]
    /\ UNCHANGED stores

\* An error, or an accepted request whose answer is lost: the loop tries again,
\* at last the breaker counts one failure.  An answer of WhatsApp that is no JSON
\* raises an error the loop does not retry.
PostError(s) ==
    /\ sender[s].pc = "post"
    /\ Posted(s)
    /\ \/ UNCHANGED <<delivered, doubtful>>
       \/ Accepted(sender[s].note) /\ doubtful' = doubtful \cup {sender[s].note}
    /\ \/ /\ sender[s].tries < MaxAttempts
          /\ sender' = [sender EXCEPT ![s].pc = "attempt"]
          /\ UNCHANGED breaker
       \/ /\ sender[s].tries = MaxAttempts \/ sender[s].channel = "whatsapp"
          /\ SetBreaker(s, Failed(MyBreaker(s)))
          /\ Return(s)
    /\ UNCHANGED stores

\* _record_sent
Record(s) ==
    LET h == HostOf[s]
        n == sender[s].note
    IN  /\ sender[s].pc = "record"
        /\ IF up THEN seen' = seen \cup {n} /\ UNCHANGED memSeen
           ELSE memSeen' = [memSeen EXCEPT ![h] = @ \cup {n}] /\ UNCHANGED seen
        /\ Return(s)
        /\ UNCHANGED <<up, count, memCount, aged, client, breaker, delivered, posts, doubtful, outages, restarts>>

-----------------------------------------------------------------------------
(* The environment *)

RedisDown ==
    /\ up /\ outages < MaxOutages
    /\ up' = FALSE /\ outages' = outages + 1
    /\ doubtful' = Notes
    /\ UNCHANGED <<seen, memSeen, count, memCount, aged, client, restarts, breaker, sender, delivered, posts>>

RedisUp ==
    /\ ~up
    /\ up' = TRUE
    /\ UNCHANGED <<seen, memSeen, count, memCount, aged, client, outages, restarts, breaker, sender,
                   delivered, posts, doubtful>>

\* The process starts anew: its memory, its breakers and its threads are gone.
Restart(h) ==
    LET mine == {s \in Senders : HostOf[s] = h} IN
    /\ restarts < MaxRestarts
    /\ restarts' = restarts + 1
    /\ memSeen' = [memSeen EXCEPT ![h] = {}]
    /\ memCount' = [memCount EXCEPT ![h] = 0] /\ aged' = aged \ {h}
    /\ client' = [client EXCEPT ![h] = "none"]
    /\ breaker' = [breaker EXCEPT ![h] = [c \in Channels |-> NewBreaker]]
    /\ sender' = [s \in Senders |-> IF s \in mine THEN Idle ELSE sender[s]]
    /\ doubtful' = doubtful \cup {n \in Notes : \E s \in mine : sender[s].note = n}
    /\ UNCHANGED <<up, seen, count, outages, delivered, posts>>

\* 24 hours have passed since a window was opened; the next attempt opens another,
\* which lasts for the rest of the day.
WindowEnds(h) ==
    /\ h \in aged
    /\ aged' = aged \ {h}
    /\ memCount' = [memCount EXCEPT ![h] = 0]
    /\ UNCHANGED <<up, seen, memSeen, count, client, outages, restarts, breaker, sender,
                   delivered, posts, doubtful>>

Work(s) ==
    \/ BuildClient(s) \/ Reject(s) \/ Admit(s) \/ Attempt(s) \/ OverLimit(s)
    \/ PostOk(s) \/ PostError(s) \/ Record(s)

Next ==
    \/ \E s \in Senders : Check(s) \/ Work(s)
    \/ \E h \in Hosts : Restart(h) \/ WindowEnds(h)
    \/ RedisDown \/ RedisUp

Spec == Init /\ [][Next]_vars

\* A thread inside send keeps running: every HTTP request has a timeout, and a call
\* to Redis is taken to answer or to fail (the clients set no timeout for one that
\* hangs).
FairSpec == Spec /\ \A s \in Senders : WF_vars(Work(s))

-----------------------------------------------------------------------------
(* Properties *)

TypeOK ==
    /\ up \in BOOLEAN
    /\ seen \subseteq Notes /\ memSeen \in [Hosts -> SUBSET Notes]
    /\ count \in 0 .. Limit + 1 /\ memCount \in [Hosts -> 0 .. MemLimit]
    /\ aged \subseteq Hosts /\ client \in [Hosts -> {"none", "redis", "memory"}]
    /\ breaker \in [Hosts -> [Channels -> Breaker]]
    /\ sender \in [Senders -> Thread]
    /\ delivered \in [Notes -> 0 .. 2]
    /\ posts \in Nat /\ doubtful \subseteq Notes
    /\ outages \in 0 .. MaxOutages /\ restarts \in 0 .. MaxRestarts

(* "Record dedup key only on success to allow retry on failure"            *)
(* (notification_orchestrator.py:467): a notification that is suppressed,  *)
(* by the keys in Redis or in the memory of any host, was accepted by a    *)
(* provider, whatever failed on the way.                                   *)
SuppressedWasDelivered ==
    \A n \in Notes : n \in seen \cup UNION {memSeen[h] : h \in Hosts} => delivered[n] > 0

(* A notification whose success is reported goes out twice only if two     *)
(* sends of it overlapped, an answer of the provider was lost, Redis was   *)
(* away, or a process died during the send.                                *)
RepeatHasCause ==
    \A n \in Notes :
        (\A c \in Channels : Reaches(Event[n], c) => Reports(Event[n], c))
            => (delivered[n] > 1 => n \in doubtful)

(* "no duplicate notifications for the same (renter, event, suffix) within *)
(* 24 hours" (notification_orchestrator.py:156), of every event and with   *)
(* the same excuses.                                                       *)
NotifiedOnce == \A n \in Notes : delivered[n] > 1 => n \in doubtful

(* The requests of a day never exceed the limit of Redis, what the memory  *)
(* of every process grants in a window of 24 hours, and for the processes  *)
(* the day began with what was left of the window they had open, however   *)
(* often the clients switch between the counters and whatever is retried.  *)
DailyLimit ==
    posts <= Limit + (2 * MemLimit - 1) * Cardinality(Hosts) + MemLimit * restarts

(* A closed breaker has counted fewer failures than the threshold:         *)
(* whichever success closed it, late answers included, the failures that   *)
(* opened it are forgotten.                                                *)
ClosedBelowThreshold ==
    \A h \in Hosts, c \in Channels :
        breaker[h][c].state = "closed" => breaker[h][c].count < Threshold

(* send always returns ("never raises"), however often the provider fails, *)
(* the limit is hit or Redis goes away.                                    *)
SendReturns == \A s \in Senders : []<>(sender[s].pc = "idle")
=============================================================================

---------------------------- MODULE AsyncService ----------------------------
(* The timers and one-second polling tasks of src/src/async_service.rs, and   *)
(* the channel that carries their messages to the user interface. Client      *)
(* threads change two shared tables (`entry_ttls' and `periodic_timers'),     *)
(* tasks of the runtime read them between their sleeps. One step is one       *)
(* section that holds a mutex, or one completed send.                         *)
EXTENDS Naturals, Sequences, FiniteSets, Functions

CONSTANTS
    Clients,      \* threads of the user interface
    Entries,      \* entries with one-time passwords
    ClientTimers, \* timer ids that clients name: their own, or one handed out earlier
    TimeIdStart,  \* first id handed out by the library
    MaxTimerId,   \* bound: the last id that is handed out
    Tasks,        \* bound: slots for the tasks alive at the same time
    Delays,       \* periods of timers, in seconds
    Period,       \* period of a one-time password, in seconds
    Epochs,       \* bound: periods are counted modulo Epochs
    MaxLag,       \* bound: one-second ticks a polling task may be behind
    Capacity,     \* messages that fit into the channel
    MaxChannels,  \* bound: channels created
    Restarts,     \* whether clients restart the polling of an entry within a second
    Android,      \* target_os = "android"
    None          \* no sender, no token, no task, no call

ASSUME ConstantsAssumption ==
    /\ {TimeIdStart, MaxTimerId} \subseteq Nat /\ TimeIdStart <= MaxTimerId + 1
    /\ ClientTimers \subseteq Nat
    /\ Delays \subseteq Nat \ {0}
    /\ {Period, Epochs, Capacity, MaxLag} \subseteq Nat \ {0}
    /\ MaxChannels \in Nat
    /\ {Android, Restarts} \subseteq BOOLEAN
    /\ None \notin Nat \cup Entries /\ "shutdown" \notin Entries \cup {None}

VARIABLES
    ttls,       \* entry_ttls: polled entry -> seconds its token is still shown
    timers,     \* periodic_timers: the ids that are not cancelled
    counter,    \* timer_id_counter
    sender,     \* the channel of the stored sender, or None
    listening,  \* the channel whose receiver is alive, or None
    created,    \* channels created so far
    queue,      \* messages in the channel that is listened to
    task,       \* slot -> the task in it
    client,     \* thread -> the rest of the call it is in
    phase,      \* seconds of the current token period that are over
    epoch,      \* number of the current token period
    readable,   \* whether the database of the entries is open and unlocked
    shown       \* entry -> the period of the token that the user sees

tables == <<ttls, timers, counter>>
channel == <<sender, listening, created, queue>>
clock == <<phase, epoch>>
vars == <<tables, channel, task, client, clock, readable, shown>>

TimerIds == ClientTimers \cup (TimeIdStart .. MaxTimerId)
Epoch == 0 .. (Epochs - 1)
Token == Epoch \cup {None}
Channel == (1 .. MaxChannels) \cup {None}

Messages ==
    [type : {"EntryOtpToken"}, entry : Entries, token : Token]
      \cup [type : {"Tick"}, id : TimerIds] \cup {[type |-> "ServiceStopped"]}

Polls == [kind : {"poll"}, entry : Entries, at : {"started", "waiting", "checked"},
          via : Channel, owed : 0 .. MaxLag]
           \cup [kind : {"poll"}, entry : Entries, at : {"first", "sending"},
                 via : Channel, owed : 0 .. MaxLag, token : Token]
TimerTasks ==
    [kind : {"periodic", "timeout"}, id : TimerIds, delay : Delays, via : Channel,
     at : {"started", "sleeping", "expired", "sending"}, left : Nat]
StopTasks == [kind : {"stop"}, at : {"sending", "sent"}, via : Channel]

(* The types of the state; the tables hold no more than what was started. *)
TypeOK ==
    /\ ttls \in UNION {[D -> 0 .. Period] : D \in SUBSET Entries}
    /\ timers \subseteq TimerIds
    /\ counter \in TimeIdStart .. (MaxTimerId + 1)
    /\ {sender, listening} \subseteq Channel
    /\ created \in 0 .. MaxChannels
    /\ queue \in Seq(Messages) /\ Len(queue) <= Capacity
    /\ task \in [Tasks -> Polls \cup TimerTasks \cup StopTasks \cup {None}]
    /\ client \in [Clients -> Entries \cup {None, "shutdown"}]
    /\ phase \in 0 .. (Period - 1) /\ epoch \in Epoch
    /\ readable \in BOOLEAN
    /\ shown \in [Entries -> Token]

Init ==
    /\ ttls = <<>> /\ timers = {} /\ counter = TimeIdStart
    /\ sender = None /\ listening = None /\ created = 0 /\ queue = <<>>
    /\ task = [t \in Tasks |-> None]
    /\ client = [c \in Clients |-> None]
    /\ phase = 0 /\ epoch = 0
    /\ readable = TRUE
    /\ shown = [e \in Entries |-> None]

\* Bounds: a call begins only if there is a slot for the task it spawns, and a channel
\* that its tasks can use; tasks may be left without one
HasSlot ==
    /\ sender # None
    /\ Cardinality({t \in Tasks : task[t] = None}) > Cardinality({c \in Clients : client[c] # None})
Spawn(job) == \E t \in Tasks : task[t] = None /\ task' = [task EXCEPT ![t] = job]
Becomes(t, job) == task' = [task EXCEPT ![t] = job]
Moves(t, place) == task' = [task EXCEPT ![t].at = place]
Ends(t) == task' = [task EXCEPT ![t] = None]

Polled == DOMAIN ttls
PollsOf(e) == {t \in Tasks : task[t] # None /\ task[t].kind = "poll" /\ task[t].entry = e}

-----------------------------------------------------------------------------
(* The channel. A send waits for room while a receiver listens, and fails     *)
(* when the receiver is gone.                                                 *)

\* init_entry_channels; the client listens to one channel at a time
InitEntryChannels ==
    /\ listening = None /\ created < MaxChannels
    /\ created' = created + 1
    /\ sender' = created' /\ listening' = created'
    /\ queue' = <<>>
    /\ UNCHANGED <<tables, task, client, clock, readable, shown>>

HasRoom(via) == via = listening /\ Len(queue) < Capacity
IsGone(via) == via # None /\ via # listening
Sends(message) == queue' = Append(queue, message) /\ UNCHANGED <<sender, listening, created>>

\* The listener shows tokens and stops at ServiceStopped
Receive ==
    /\ listening # None /\ queue # <<>>
    /\ LET message == Head(queue) IN
       IF message.type = "ServiceStopped"
       THEN /\ listening' = None /\ queue' = <<>>
            /\ UNCHANGED shown
       ELSE /\ queue' = Tail(queue)
            /\ shown' = IF message.type = "EntryOtpToken" /\ message.token # None
                        THEN [shown EXCEPT ![message.entry] = message.token]
                        ELSE shown
            /\ UNCHANGED listening
    /\ UNCHANGED <<tables, sender, created, task, client, clock, readable>>

-----------------------------------------------------------------------------
(* Calls of the client *)

\* OtpData::ttl: seconds for which the current token is shown
Remaining == Period - phase

\* start_polling_entry_otp_fields: the check, the entry in the table and the task
StartPolling(c, e) ==
    /\ client[c] = None /\ HasSlot
    /\ readable
    /\ e \notin Polled
    /\ Restarts \/ PollsOf(e) = {}
    /\ client' = [client EXCEPT ![c] = e]
    /\ shown' = [shown EXCEPT ![e] = None]
    /\ UNCHANGED <<tables, channel, task, clock, readable>>

BeginPolling(c) ==
    /\ client[c] \in Entries
    /\ ttls' = [x \in Polled \cup {client[c]} |-> IF x = client[c] THEN Remaining ELSE ttls[x]]
    /\ Spawn([kind |-> "poll", entry |-> client[c], at |-> "started", via |-> None, owed |-> 0])
    /\ client' = [client EXCEPT ![c] = None]
    /\ UNCHANGED <<timers, counter, channel, clock, readable, shown>>

\* stop_polling_entry_otp_fields, stop_polling_all_entries_otp_fields
StopPolling(c, stopped) ==
    /\ client[c] = None
    /\ stopped \cap Polled # {}
    /\ ttls' = Restrict(ttls, Polled \ stopped)
    /\ UNCHANGED <<timers, counter, channel, task, client, clock, readable, shown>>

\* init_timer_id: an id of the client, or the next one of the counter
InitTimerId(given, id) ==
    /\ IF given = None
       THEN id = counter /\ counter <= MaxTimerId /\ counter' = counter + 1
       ELSE id = given /\ UNCHANGED counter
    /\ timers' = timers \cup {id}

StartTimer(c, kind, given, delay) ==
    \E id \in TimerIds :
        /\ client[c] = None /\ HasSlot
        /\ InitTimerId(given, id)
        /\ Spawn([kind |-> kind, id |-> id, delay |-> delay, via |-> None,
                  at |-> IF kind = "periodic" THEN "started" ELSE "sleeping",
                  left |-> IF kind = "periodic" THEN 0 ELSE delay])
        /\ UNCHANGED <<ttls, channel, client, clock, readable, shown>>

StartPeriodicTimer(c, given, delay) == StartTimer(c, "periodic", given, delay)
SetTimeout(c, given, delay) == StartTimer(c, "timeout", given, delay)

CancelTimer(c, id) ==
    /\ client[c] = None
    /\ id \in timers
    /\ timers' = timers \ {id}
    /\ UNCHANGED <<ttls, counter, channel, task, client, clock, readable, shown>>

\* shutdown_async_services: two tables, then the counter and, on Android, a last message
Shutdown(c) ==
    /\ client[c] = None /\ HasSlot
    /\ timers' = {}
    /\ client' = [client EXCEPT ![c] = "shutdown"]
    /\ UNCHANGED <<ttls, counter, channel, task, clock, readable, shown>>

ShutdownPolling(c) ==
    /\ client[c] = "shutdown"
    /\ ttls' = <<>> /\ counter' = TimeIdStart
    /\ client' = [client EXCEPT ![c] = None]
    /\ IF Android THEN Spawn([kind |-> "stop", at |-> "sending", via |-> sender])
                  ELSE UNCHANGED task
    /\ UNCHANGED <<timers, channel, clock, readable, shown>>

-----------------------------------------------------------------------------
(* poll_token_generation *)

Reply(e, token) == [type |-> "EntryOtpToken", entry |-> e, token |-> token]

\* The sender is cloned once; form_first_reply asks for the current token
PollStart(t) ==
    /\ task[t].kind = "poll" /\ task[t].at = "started"
    /\ LET e == task[t].entry
           fresh == e \in Polled /\ readable
       IN /\ ttls' = IF fresh THEN [ttls EXCEPT ![e] = Remaining] ELSE ttls
          /\ Becomes(t, [kind |-> "poll", entry |-> e, at |-> "first", via |-> sender, owed |-> 0,
                         token |-> IF fresh THEN epoch ELSE None])
    /\ UNCHANGED <<timers, counter, channel, client, clock, readable, shown>>

Waiting(job) == [kind |-> "poll", entry |-> job.entry, at |-> "waiting", via |-> job.via,
                 owed |-> job.owed]

\* A failed send panics (`unwrap') and ends the task
PollSend(t) ==
    /\ task[t].kind = "poll" /\ task[t].at \in {"first", "sending"}
    /\ \/ task[t].via = None /\ Becomes(t, Waiting(task[t])) /\ UNCHANGED channel
       \/ HasRoom(task[t].via) /\ Becomes(t, Waiting(task[t]))
            /\ Sends(Reply(task[t].entry, task[t].token))
       \/ IsGone(task[t].via) /\ Ends(t) /\ UNCHANGED channel
    /\ UNCHANGED <<tables, client, clock, readable, shown>>

\* interval.tick() and is_entry_polling_stopped
PollTick(t) ==
    /\ task[t].kind = "poll" /\ task[t].at = "waiting" /\ task[t].owed > 0
    /\ IF task[t].entry \in Polled
       THEN Becomes(t, [kind |-> "poll", entry |-> task[t].entry, at |-> "checked",
                        via |-> task[t].via, owed |-> task[t].owed - 1])
       ELSE Ends(t)
    /\ UNCHANGED <<tables, channel, client, clock, readable, shown>>

PollReply_WholePeriod(t) ==
    /\ task[t].kind = "poll" /\ task[t].at = "checked"
    /\ LET e == task[t].entry
           counted == IF e \notin Polled \/ ttls[e] = 0 THEN 0 ELSE ttls[e] - 1
           fresh == e \in Polled /\ counted = 0 /\ readable
       IN /\ ttls' = IF e \notin Polled THEN ttls
                     ELSE [ttls EXCEPT ![e] = IF fresh THEN Period ELSE counted]
          /\ Becomes(t, [kind |-> "poll", entry |-> e, at |-> "sending", via |-> task[t].via,
                         owed |-> task[t].owed, token |-> IF fresh THEN epoch ELSE None])
    /\ UNCHANGED <<timers, counter, channel, client, clock, readable, shown>>

PollReply_Underflow(t) ==
    /\ task[t].kind = "poll" /\ task[t].at = "checked"
    /\ LET e == task[t].entry
           counted == IF e \in Polled THEN ttls[e] - 1 ELSE 0
           fresh == e \in Polled /\ counted = 0 /\ readable
       IN /\ ttls' = IF e \notin Polled THEN ttls
                     ELSE [ttls EXCEPT ![e] = IF fresh THEN Remaining ELSE counted]
          /\ Becomes(t, [kind |-> "poll", entry |-> e, at |-> "sending", via |-> task[t].via,
                         owed |-> task[t].owed, token |-> IF fresh THEN epoch ELSE None])
    /\ UNCHANGED <<timers, counter, channel, client, clock, readable, shown>>

\* form_reply: a new token when the shown one is over
PollReply(t) ==
    /\ task[t].kind = "poll" /\ task[t].at = "checked"
    /\ LET e == task[t].entry
           counted == IF e \notin Polled \/ ttls[e] = 0 THEN 0 ELSE ttls[e] - 1
           fresh == e \in Polled /\ counted = 0 /\ readable
       IN /\ ttls' = IF e \notin Polled THEN ttls
                     ELSE [ttls EXCEPT ![e] = IF fresh THEN Remaining ELSE counted]
          /\ Becomes(t, [kind |-> "poll", entry |-> e, at |-> "sending", via |-> task[t].via,
                         owed |-> task[t].owed, token |-> IF fresh THEN epoch ELSE None])
    /\ UNCHANGED <<timers, counter, channel, client, clock, readable, shown>>

-----------------------------------------------------------------------------
(* run_periodic_timer, run_specified_timeout, send_stop_service_message *)

IsTimer(t) == task[t].kind \in {"periodic", "timeout"}

TimerStart(t) ==
    /\ IsTimer(t) /\ task[t].at = "started"
    /\ IF task[t].id \in timers
       THEN task' = [task EXCEPT ![t].at = "sleeping", ![t].left = task[t].delay]
       ELSE Ends(t)
    /\ UNCHANGED <<tables, channel, client, clock, readable, shown>>

TimerWake_Unchecked(t) ==
    /\ IsTimer(t) /\ task[t].at = "sleeping" /\ task[t].left = 0
    /\ IF task[t].kind = "timeout" THEN Moves(t, "expired")
       ELSE task' = [task EXCEPT ![t].at = "sending", ![t].via = sender]
    /\ UNCHANGED <<tables, channel, client, clock, readable, shown>>

\* The sleep is over: the check, and the sender for the tick
TimerWake(t) ==
    /\ IsTimer(t) /\ task[t].at = "sleeping" /\ task[t].left = 0
    /\ IF task[t].id \notin timers THEN Ends(t)
       ELSE IF task[t].kind = "timeout" THEN Moves(t, "expired")
       ELSE task' = [task EXCEPT ![t].at = "sending", ![t].via = sender]
    /\ UNCHANGED <<tables, channel, client, clock, readable, shown>>

\* remove_timer of a timeout
TimeoutRemove(t) ==
    /\ IsTimer(t) /\ task[t].at = "expired"
    /\ timers' = timers \ {task[t].id}
    /\ task' = [task EXCEPT ![t].at = "sending", ![t].via = sender]
    /\ UNCHANGED <<ttls, counter, channel, client, clock, readable, shown>>

AfterTick_Once(t) == Ends(t)

AfterTick(t) ==
    IF task[t].kind = "timeout" THEN Ends(t)
    ELSE task' = [task EXCEPT ![t].at = "sleeping", ![t].left = task[t].delay, ![t].via = None]

TimerSend(t) ==
    /\ IsTimer(t) /\ task[t].at = "sending"
    /\ \/ (task[t].via = None \/ IsGone(task[t].via)) /\ UNCHANGED channel
       \/ HasRoom(task[t].via) /\ Sends([type |-> "Tick", id |-> task[t].id])
    /\ AfterTick(t)
    /\ UNCHANGED <<tables, client, clock, readable, shown>>

StopSend(t) ==
    /\ task[t].kind = "stop" /\ task[t].at = "sending"
    /\ \/ (task[t].via = None \/ IsGone(task[t].via)) /\ UNCHANGED channel
       \/ HasRoom(task[t].via) /\ Sends([type |-> "ServiceStopped"])
    /\ Moves(t, "sent")
    /\ UNCHANGED <<tables, client, clock, readable, shown>>

\* remove_sender
StopRemove(t) ==
    /\ task[t].kind = "stop" /\ task[t].at = "sent"
    /\ sender' = None
    /\ Ends(t)
    /\ UNCHANGED <<tables, listening, created, queue, client, clock, readable, shown>>

-----------------------------------------------------------------------------
(* The clock, and the database of the entries *)

PollsAt(places) == {t \in Tasks : task[t] # None /\ task[t].kind = "poll" /\ task[t].at \in places}
Starting == PollsAt({"started"}) # {} \/ \E c \in Clients : client[c] \in Entries

\* Bound on delays: a start and its first reply take less than a second, and a polling
\* task is at most MaxLag ticks behind. Ticks that are owed come at once.
InTime ==
    /\ ~Starting /\ PollsAt({"first"}) = {}
    /\ \A t \in PollsAt({"waiting", "checked", "sending"}) : task[t].owed < MaxLag

OneSecondLater(job) ==
    IF job = None THEN job
    ELSE IF job.kind = "poll" THEN [job EXCEPT !.owed = @ + 1]
    ELSE IF job.kind # "stop" /\ job.at = "sleeping" /\ job.left > 0 THEN [job EXCEPT !.left = @ - 1]
    ELSE job

Second ==
    /\ InTime
    /\ task' = [t \in Tasks |-> OneSecondLater(task[t])]
    /\ phase' = (phase + 1) % Period
    /\ epoch' = IF phase' = 0 THEN (epoch + 1) % Epochs ELSE epoch
    /\ UNCHANGED <<tables, channel, client, readable, shown>>

\* The database is locked, unlocked, closed or opened, not while an entry of it is opened
ToggleReadable ==
    /\ ~Starting
    /\ readable' = ~readable
    /\ UNCHANGED <<tables, channel, task, client, clock, shown>>

-----------------------------------------------------------------------------
Call(c) ==
    \/ \E e \in Entries : StartPolling(c, e) \/ StopPolling(c, {e})
    \/ StopPolling(c, Entries)
    \/ BeginPolling(c)
    \/ \E given \in ClientTimers \cup {None}, delay \in Delays :
          StartPeriodicTimer(c, given, delay) \/ SetTimeout(c, given, delay)
    \/ \E id \in TimerIds : CancelTimer(c, id)
    \/ Shutdown(c)
    \/ ShutdownPolling(c)

Run(t) ==
    /\ task[t] # None
    /\ \/ PollStart(t) \/ PollTick(t) \/ PollReply(t)
       \/ TimerStart(t) \/ TimerWake(t) \/ TimeoutRemove(t)
       \/ StopRemove(t)

Send(t) ==
    /\ task[t] # None
    /\ PollSend(t) \/ TimerSend(t) \/ StopSend(t)

Next ==
    \/ \E c \in Clients : Call(c)
    \/ \E t \in Tasks : Run(t) \/ Send(t)
    \/ InitEntryChannels \/ Receive
    \/ Second \/ ToggleReadable

Spec == Init /\ [][Next]_vars

\* The runtime runs every task that can run, time passes, and the listener listens. The
\* places in a channel are given out in the order of the senders (strong fairness).
Fairness ==
    /\ \A t \in Tasks : WF_vars(Run(t)) /\ SF_vars(Send(t))
    /\ WF_vars(Receive) /\ WF_vars(Second)
    /\ \A c \in Clients : WF_vars(BeginPolling(c)) /\ WF_vars(ShutdownPolling(c))

FairSpec == Spec /\ Fairness

-----------------------------------------------------------------------------
(* Properties *)

Quiet(t) == task[t].at = "waiting" /\ task[t].owed = 0

\* The tasks that poll the entry are between two ticks, and the user has all their messages
Settled(e) ==
    /\ PollsOf(e) # {} /\ \A t \in PollsOf(e) : Quiet(t) /\ task[t].via = listening
    /\ listening # None /\ queue = <<>>

\* A token that the user sees beside a running countdown is the current one, through
\* late ticks, a full channel, one that is closed, polling that is stopped and started
\* again, and locking, which delays a token and leaves the countdown at 0
\* (form_first_reply, form_reply).
TokenIsCurrent ==
    \A e \in Polled : Settled(e) /\ ttls[e] > 0 => shown[e] \in {None, epoch}

RunsFor(id) == {t \in Tasks : task[t] # None /\ IsTimer(t) /\ task[t].id = id}

\* What is cancelled for good ends: no task of a timer or entry that stays out of its
\* table runs for ever (remove_timer, remove_entry_otp_polling_data, shutdown).
CancelledTasksEnd ==
    /\ \A id \in TimerIds : <>[](id \notin timers) => <>[](RunsFor(id) = {})
    /\ \A e \in Entries : <>[](e \notin Polled) => <>[](PollsOf(e) = {})

\* A timer that is neither cancelled nor over ticks for ever while somebody listens
\* (run_periodic_timer), whatever else happens to its id and goes through the channel.
TimersTick ==
    \A id \in TimerIds :
        <>[](id \in timers /\ listening # None /\ sender = listening)
          => []<>(queue # <<>> /\ Head(queue) = [type |-> "Tick", id |-> id])
=============================================================================

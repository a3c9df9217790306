------------------------- MODULE AsyncServiceProofs -------------------------
(* Theorems about AsyncService, for every value of its constants. *)
EXTENDS AsyncService, TLAPS

-----------------------------------------------------------------------------
(* Types *)

Jobs == Polls \cup TimerTasks \cup StopTasks
Countdowns == UNION {[D -> 0 .. Period] : D \in SUBSET Entries}

TablesOK == ttls \in Countdowns /\ timers \subseteq TimerIds /\ counter \in TimeIdStart .. (MaxTimerId + 1)
ChannelOK ==
    /\ {sender, listening} \subseteq Channel
    /\ created \in 0 .. MaxChannels
    /\ queue \in Seq(Messages) /\ Len(queue) <= Capacity
TasksOK == task \in [Tasks -> Jobs \cup {None}]
ClockOK == phase \in 0 .. (Period - 1) /\ epoch \in Epoch
RestOK ==
    /\ client \in [Clients -> Entries \cup {None, "shutdown"}]
    /\ readable \in BOOLEAN
    /\ shown \in [Entries -> Token]

\* The types of the groups of variables that the actions change or leave together.
LEMMA Parts ==
    /\ TypeOK <=> TablesOK /\ ChannelOK /\ TasksOK /\ ClockOK /\ RestOK
    /\ TypeOK' <=> TablesOK' /\ ChannelOK' /\ TasksOK' /\ ClockOK' /\ RestOK'
BY DEF TypeOK, TablesOK, ChannelOK, TasksOK, ClockOK, RestOK, Jobs, Countdowns

\* What is left as it is keeps its type.
LEMMA Unchanged ==
    /\ TablesOK /\ UNCHANGED tables => TablesOK'
    /\ ChannelOK /\ UNCHANGED channel => ChannelOK'
    /\ TasksOK /\ UNCHANGED task => TasksOK'
    /\ ClockOK /\ UNCHANGED clock => ClockOK'
    /\ RestOK /\ UNCHANGED <<client, readable, shown>> => RestOK'
BY DEF TablesOK, ChannelOK, TasksOK, ClockOK, RestOK, tables, channel, clock

\* Setting a countdown keeps countdowns, and a countdown of an entry is at most a period.
LEMMA CountdownTypes ==
    ASSUME NEW f \in Countdowns, NEW e \in Entries, NEW n \in 0 .. Period
    PROVE  /\ [x \in (DOMAIN f) \cup {e} |-> IF x = e THEN n ELSE f[x]] \in Countdowns
           /\ [f EXCEPT ![e] = n] \in Countdowns
           /\ e \in DOMAIN f => f[e] \in 0 .. Period
<1>1. PICK D \in SUBSET Entries : f \in [D -> 0 .. Period]
  BY DEF Countdowns
<1>2. [x \in (DOMAIN f) \cup {e} |-> IF x = e THEN n ELSE f[x]] \in [D \cup {e} -> 0 .. Period]
  BY <1>1
<1>3. [f EXCEPT ![e] = n] \in [D -> 0 .. Period]
  BY <1>1
<1>4. D \cup {e} \in SUBSET Entries
  BY <1>1
<1>5. e \in DOMAIN f => f[e] \in 0 .. Period
  BY <1>1
<1>6. QED BY <1>1, <1>2, <1>3, <1>4, <1>5 DEF Countdowns

\* Taking entries out of the table leaves countdowns.
LEMMA FewerCountdowns ==
    ASSUME NEW f \in Countdowns, NEW S
    PROVE  Restrict(f, (DOMAIN f) \ S) \in Countdowns
<1>1. PICK D \in SUBSET Entries : f \in [D -> 0 .. Period]
  BY DEF Countdowns
<1>2. Restrict(f, (DOMAIN f) \ S) \in [D \ S -> 0 .. Period]
  BY <1>1 DEF Restrict
<1>3. D \ S \in SUBSET Entries
  BY <1>1
<1>4. QED BY <1>2, <1>3 DEF Countdowns

\* No countdown at all is the empty table.
LEMMA NoCountdown == <<>> \in Countdowns
<1>1. <<>> \in [{} -> 0 .. Period]
  OBVIOUS
<1>2. QED BY <1>1 DEF Countdowns

\* The seconds a token is still shown are a countdown.
LEMMA RemainingType == ASSUME ClockOK PROVE Remaining \in 1 .. Period
BY ConstantsAssumption DEF ClockOK, Remaining

\* Putting a job, or none, in the place of a task keeps the types of the tasks.
LEMMA PutTask ==
    ASSUME TasksOK, NEW t \in Tasks, NEW job \in Jobs \cup {None}, task' = [task EXCEPT ![t] = job]
    PROVE  TasksOK'
BY DEF TasksOK

\* A task of a kind has the fields of that kind.
LEMMA Kinds ==
    ASSUME TasksOK, NEW t \in Tasks, task[t] # None
    PROVE  /\ task[t] \in Jobs
           /\ task[t].kind = "poll" => task[t] \in Polls
           /\ task[t].kind \in {"periodic", "timeout"} => task[t] \in TimerTasks
           /\ task[t].kind = "stop" => task[t] \in StopTasks
<1>1. task[t] \in Jobs BY DEF TasksOK
<1>2. CASE task[t] \in Polls BY <1>1, <1>2 DEF Polls
<1>3. CASE task[t] \in TimerTasks BY <1>1, <1>3 DEF TimerTasks
<1>4. CASE task[t] \in StopTasks BY <1>1, <1>4 DEF StopTasks
<1>5. QED BY <1>1, <1>2, <1>3, <1>4 DEF Jobs

\* Appending a message where there is room, or taking the first away, keeps the channel.
LEMMA SendType ==
    ASSUME ChannelOK, NEW via, HasRoom(via), NEW message \in Messages, Sends(message)
    PROVE  ChannelOK'
BY ConstantsAssumption DEF ChannelOK, HasRoom, Sends

-----------------------------------------------------------------------------
(* The initial state *)

LEMMA InitTypes == Init => TypeOK
<1> SUFFICES ASSUME Init PROVE TypeOK
  OBVIOUS
<1>2. TablesOK /\ ChannelOK
  BY NoCountdown, ConstantsAssumption DEF Init, TablesOK, ChannelOK, Channel
<1>3. TasksOK /\ ClockOK /\ RestOK
  BY ConstantsAssumption DEF Init, TasksOK, ClockOK, RestOK, Epoch, Token
<1>4. QED BY <1>2, <1>3, Parts

-----------------------------------------------------------------------------
(* The steps *)

\* The calls of a client.
LEMMA CallTypes ==
    ASSUME TypeOK, NEW c \in Clients, Call(c)
    PROVE  TypeOK'
<1> USE Parts
<1>1. ASSUME NEW e \in Entries, StartPolling(c, e) PROVE TypeOK'
  <2>1. RestOK' BY <1>1 DEF StartPolling, RestOK, Token
  <2>2. QED BY <1>1, <2>1, Unchanged DEF StartPolling
<1>2. ASSUME NEW S, StopPolling(c, S) PROVE TypeOK'
  <2>1. TablesOK' BY <1>2, FewerCountdowns DEF StopPolling, TablesOK, Polled
  <2>2. QED BY <1>2, <2>1, Unchanged DEF StopPolling
<1>3. CASE BeginPolling(c)
  <2>1. Remaining \in 0 .. Period
    BY RemainingType, ConstantsAssumption
  <2>0. TablesOK'
    BY <1>3, <2>1, CountdownTypes DEF BeginPolling, TablesOK, Polled
  <2>2. [kind |-> "poll", entry |-> client[c], at |-> "started", via |-> None, owed |-> 0] \in Jobs
    BY <1>3, ConstantsAssumption DEF BeginPolling, Jobs, Polls, Channel
  <2>3. TasksOK' BY <1>3, <2>2, PutTask DEF BeginPolling, Spawn
  <2>4. RestOK' BY <1>3 DEF BeginPolling, RestOK
  <2>5. QED BY <1>3, <2>0, <2>3, <2>4, Unchanged DEF BeginPolling
<1>4. ASSUME NEW kind \in {"periodic", "timeout"}, NEW given \in ClientTimers \cup {None},
             NEW delay \in Delays, StartTimer(c, kind, given, delay)
      PROVE  TypeOK'
  <2>1. PICK id \in TimerIds :
          /\ InitTimerId(given, id)
          /\ Spawn([kind |-> kind, id |-> id, delay |-> delay, via |-> None,
                    at |-> IF kind = "periodic" THEN "started" ELSE "sleeping",
                    left |-> IF kind = "periodic" THEN 0 ELSE delay])
          /\ UNCHANGED <<ttls, channel, client, clock, readable, shown>>
    BY <1>4 DEF StartTimer
  <2>2. TablesOK'
    BY <2>1, ConstantsAssumption DEF InitTimerId, TablesOK
  <2>3. [kind |-> kind, id |-> id, delay |-> delay, via |-> None,
         at |-> IF kind = "periodic" THEN "started" ELSE "sleeping",
         left |-> IF kind = "periodic" THEN 0 ELSE delay] \in TimerTasks
    BY ConstantsAssumption DEF TimerTasks, Channel
  <2>4. TasksOK' BY <2>1, <2>3, PutTask DEF Spawn, Jobs
  <2>5. QED BY <2>1, <2>2, <2>4, Unchanged
<1>5. ASSUME NEW id \in TimerIds, CancelTimer(c, id) PROVE TypeOK'
  <2>1. TablesOK' BY <1>5 DEF CancelTimer, TablesOK
  <2>2. QED BY <1>5, <2>1, Unchanged DEF CancelTimer
<1>6. CASE Shutdown(c)
  <2>1. TablesOK' /\ RestOK' BY <1>6 DEF Shutdown, TablesOK, RestOK
  <2>2. QED BY <1>6, <2>1, Unchanged DEF Shutdown
<1>7. CASE ShutdownPolling(c)
  <2>1. <<>> \in Countdowns
    BY NoCountdown
  <2>2. TablesOK' BY <1>7, <2>1, ConstantsAssumption DEF ShutdownPolling, TablesOK
  <2>3. [kind |-> "stop", at |-> "sending", via |-> sender] \in Jobs
    BY DEF ChannelOK, Jobs, StopTasks
  <2>4. TasksOK'
    BY <1>7, <2>3, PutTask, Unchanged DEF ShutdownPolling, Spawn
  <2>5. RestOK' BY <1>7 DEF ShutdownPolling, RestOK
  <2>6. QED BY <1>7, <2>2, <2>4, <2>5, Unchanged DEF ShutdownPolling
<1>8. QED
  BY <1>1, <1>2, <1>3, <1>4, <1>5, <1>6, <1>7 DEF Call, StartPeriodicTimer, SetTimeout

\* The steps of a polling task.
LEMMA PollTypes ==
    ASSUME TypeOK, NEW t \in Tasks, task[t] # None,
           PollStart(t) \/ PollSend(t) \/ PollTick(t) \/ PollReply(t)
    PROVE  TypeOK'
<1> USE Parts
<1>0. task[t] \in Polls /\ task[t].kind = "poll"
  BY Kinds DEF PollStart, PollSend, PollTick, PollReply
<1>1. CASE PollStart(t)
  <2> DEFINE e == task[t].entry
             fresh == e \in Polled /\ readable
             job == [kind |-> "poll", entry |-> e, at |-> "first", via |-> sender, owed |-> 0,
                     token |-> IF fresh THEN epoch ELSE None]
  <2>1. e \in Entries
    BY <1>0 DEF Polls
  <2>2. Remaining \in 0 .. Period
    BY RemainingType, ConstantsAssumption
  <2>3. TablesOK'
    BY <1>1, <2>1, <2>2, CountdownTypes DEF PollStart, TablesOK
  <2>4. job \in Polls
    BY <2>1, ConstantsAssumption DEF ChannelOK, ClockOK, Polls, Token
  <2>5. TasksOK'
    BY <1>1, <2>4, PutTask DEF PollStart, Becomes, Jobs
  <2>6. QED BY <1>1, <2>3, <2>5, Unchanged DEF PollStart
<1>2. CASE PollSend(t)
  <2>1. task[t] \in [kind : {"poll"}, entry : Entries, at : {"first", "sending"},
                     via : Channel, owed : 0 .. MaxLag, token : Token]
    BY <1>0, <1>2 DEF PollSend, Polls
  <2>2. Waiting(task[t]) \in Polls
    BY <2>1 DEF Waiting, Polls
  <2>3. Reply(task[t].entry, task[t].token) \in Messages
    BY <2>1 DEF Reply, Messages
  <2>4. TasksOK'
    BY <1>2, <2>2, PutTask DEF PollSend, Becomes, Ends, Jobs
  <2>5. ChannelOK'
    BY <1>2, <2>3, SendType, Unchanged DEF PollSend
  <2>6. QED BY <1>2, <2>4, <2>5, Unchanged DEF PollSend
<1>3. CASE PollTick(t)
  <2>1. task[t] \in [kind : {"poll"}, entry : Entries, at : {"waiting"},
                     via : Channel, owed : 0 .. MaxLag] /\ task[t].owed > 0
    BY <1>0, <1>3 DEF PollTick, Polls
  <2>2. [kind |-> "poll", entry |-> task[t].entry, at |-> "checked",
         via |-> task[t].via, owed |-> task[t].owed - 1] \in Polls
    BY <2>1, ConstantsAssumption DEF Polls
  <2>4. TasksOK'
    BY <1>3, <2>2, PutTask DEF PollTick, Becomes, Ends, Jobs
  <2>5. QED BY <1>3, <2>4, Unchanged DEF PollTick
<1>4. CASE PollReply(t)
  <2> DEFINE e == task[t].entry
             counted == IF e \notin Polled \/ ttls[e] = 0 THEN 0 ELSE ttls[e] - 1
             fresh == e \in Polled /\ counted = 0 /\ readable
             job == [kind |-> "poll", entry |-> e, at |-> "sending", via |-> task[t].via,
                     owed |-> task[t].owed, token |-> IF fresh THEN epoch ELSE None]
  <2>1. e \in Entries /\ task[t].via \in Channel /\ task[t].owed \in 0 .. MaxLag
    BY <1>0 DEF Polls
  <2>2. Remaining \in 0 .. Period
    BY RemainingType, ConstantsAssumption
  <2>3. e \in Polled => counted \in 0 .. Period
    <3>1. e \in DOMAIN ttls => ttls[e] \in 0 .. Period
      BY <2>1, <2>2, CountdownTypes DEF TablesOK
    <3>2. QED BY <3>1, ConstantsAssumption DEF Polled
  <2>4. TablesOK'
    <3>1. CASE e \notin Polled
      BY <1>4, <3>1 DEF PollReply, TablesOK
    <3>2. CASE e \in Polled
      <4>1. (IF fresh THEN Remaining ELSE counted) \in 0 .. Period
        BY <2>2, <2>3, <3>2
      <4>2. ttls' = [ttls EXCEPT ![e] = IF fresh THEN Remaining ELSE counted]
        BY <1>4, <3>2 DEF PollReply
      <4>3. ttls' \in Countdowns
        <5> DEFINE n == IF fresh THEN Remaining ELSE counted
        <5>1. ttls' = [ttls EXCEPT ![e] = n] /\ n \in 0 .. Period
          BY <4>1, <4>2
        <5> HIDE DEF n
        <5>2. QED BY <2>1, <5>1, CountdownTypes DEF TablesOK
      <4>4. QED BY <1>4, <4>3 DEF PollReply, TablesOK
    <3>3. QED BY <3>1, <3>2
  <2>5. job \in Polls
    BY <2>1 DEF ClockOK, Polls, Token
  <2>6. TasksOK'
    BY <1>4, <2>5, PutTask DEF PollReply, Becomes, Jobs
  <2>7. QED BY <1>4, <2>4, <2>6, Unchanged DEF PollReply
<1>5. QED BY <1>1, <1>2, <1>3, <1>4

\* The steps of a timer.
LEMMA TimerTypes ==
    ASSUME TypeOK, NEW t \in Tasks, task[t] # None,
           TimerStart(t) \/ TimerWake(t) \/ TimeoutRemove(t) \/ TimerSend(t)
    PROVE  TypeOK'
<1> USE Parts
<1>0. task[t] \in TimerTasks
  BY Kinds DEF IsTimer, TimerStart, TimerWake, TimeoutRemove, TimerSend
<1>1. /\ [task[t] EXCEPT !.at = "sleeping", !.left = task[t].delay] \in Jobs
      /\ [task[t] EXCEPT !.at = "expired"] \in Jobs
      /\ [task[t] EXCEPT !.at = "sending", !.via = sender] \in Jobs
      /\ [task[t] EXCEPT !.at = "sleeping", !.left = task[t].delay, !.via = None] \in Jobs
  BY <1>0, ConstantsAssumption DEF ChannelOK, TimerTasks, Jobs, Channel
<1>2. CASE TimerStart(t)
  <2>1. \/ task' = [task EXCEPT ![t] = [task[t] EXCEPT !.at = "sleeping", !.left = task[t].delay]]
        \/ task' = [task EXCEPT ![t] = None]
    BY <1>2 DEF TimerStart, Ends
  <2>2. TasksOK' BY <1>1, <2>1, PutTask
  <2>3. QED BY <1>2, <2>2, Unchanged DEF TimerStart
<1>3. CASE TimerWake(t)
  <2>1. \/ task' = [task EXCEPT ![t] = [task[t] EXCEPT !.at = "sending", !.via = sender]]
        \/ task' = [task EXCEPT ![t] = [task[t] EXCEPT !.at = "expired"]]
        \/ task' = [task EXCEPT ![t] = None]
    BY <1>3 DEF TimerWake, Moves, Ends
  <2>2. TasksOK' BY <1>1, <2>1, PutTask
  <2>3. QED BY <1>3, <2>2, Unchanged DEF TimerWake
<1>4. CASE TimeoutRemove(t)
  <2>1. task' = [task EXCEPT ![t] = [task[t] EXCEPT !.at = "sending", !.via = sender]]
    BY <1>4 DEF TimeoutRemove
  <2>2. TasksOK' BY <1>1, <2>1, PutTask
  <2>3. TablesOK' BY <1>4 DEF TimeoutRemove, TablesOK
  <2>4. QED BY <1>4, <2>2, <2>3, Unchanged DEF TimeoutRemove
<1>5. CASE TimerSend(t)
  <2>1. \/ task' = [task EXCEPT ![t] =
                      [task[t] EXCEPT !.at = "sleeping", !.left = task[t].delay, !.via = None]]
        \/ task' = [task EXCEPT ![t] = None]
    BY <1>5 DEF TimerSend, AfterTick, Ends
  <2>2. TasksOK' BY <1>1, <2>1, PutTask
  <2>3. [type |-> "Tick", id |-> task[t].id] \in Messages
    BY <1>0 DEF TimerTasks, Messages
  <2>4. ChannelOK'
    BY <1>5, <2>3, SendType, Unchanged DEF TimerSend
  <2>5. QED BY <1>5, <2>2, <2>4, Unchanged DEF TimerSend
<1>6. QED BY <1>2, <1>3, <1>4, <1>5

\* The steps of the task that ends the services.
LEMMA StopTypes ==
    ASSUME TypeOK, NEW t \in Tasks, task[t] # None, StopSend(t) \/ StopRemove(t)
    PROVE  TypeOK'
<1> USE Parts
<1>0. task[t] \in StopTasks
  BY Kinds DEF StopSend, StopRemove
<1>1. CASE StopSend(t)
  <2>1. [task[t] EXCEPT !.at = "sent"] \in Jobs
    BY <1>0 DEF StopTasks, Jobs
  <2>2. task' = [task EXCEPT ![t] = [task[t] EXCEPT !.at = "sent"]]
    BY <1>1 DEF StopSend, Moves
  <2>3. TasksOK' BY <2>1, <2>2, PutTask
  <2>4. [type |-> "ServiceStopped"] \in Messages
    BY DEF Messages
  <2>5. ChannelOK'
    BY <1>1, <2>4, SendType, Unchanged DEF StopSend
  <2>6. QED BY <1>1, <2>3, <2>5, Unchanged DEF StopSend
<1>2. CASE StopRemove(t)
  <2>1. TasksOK' BY <1>2, PutTask DEF StopRemove, Ends
  <2>2. ChannelOK' BY <1>2 DEF StopRemove, ChannelOK, Channel
  <2>3. QED BY <1>2, <2>1, <2>2, Unchanged DEF StopRemove
<1>3. QED BY <1>1, <1>2

\* A new channel, and a message that is received.
LEMMA ListenerTypes ==
    ASSUME TypeOK, InitEntryChannels \/ Receive
    PROVE  TypeOK'
<1> USE Parts
<1>1. CASE InitEntryChannels
  <2>1. ChannelOK'
    BY <1>1, ConstantsAssumption DEF InitEntryChannels, ChannelOK, Channel
  <2>2. QED BY <1>1, <2>1, Unchanged DEF InitEntryChannels
<1>2. CASE Receive
  <2>1. Head(queue) \in Messages /\ Tail(queue) \in Seq(Messages) /\ Len(Tail(queue)) <= Capacity
    <3>1. queue \in Seq(Messages) /\ queue # <<>> /\ Len(queue) <= Capacity
      BY <1>2 DEF Receive, ChannelOK
    <3>2. Len(Tail(queue)) = Len(queue) - 1 /\ Len(queue) \in Nat
      BY <3>1
    <3>3. QED BY <3>1, <3>2, ConstantsAssumption
  <2>2. ChannelOK'
    <3>1. CASE Head(queue).type = "ServiceStopped"
      BY <1>2, <3>1, ConstantsAssumption DEF Receive, ChannelOK, Channel
    <3>2. CASE Head(queue).type # "ServiceStopped"
      BY <1>2, <2>1, <3>2 DEF Receive, ChannelOK
    <3>3. QED BY <3>1, <3>2
  <2>3. Head(queue).type = "EntryOtpToken"
          => Head(queue).entry \in Entries /\ Head(queue).token \in Token
    BY <2>1 DEF Messages
  <2>4. RestOK'
    BY <1>2, <2>3 DEF Receive, RestOK
  <2>5. QED BY <1>2, <2>2, <2>4, Unchanged DEF Receive
<1>3. QED BY <1>1, <1>2

\* A second later every task is still one of its kind: no polling task is so late that
\* it owes more than MaxLag ticks, and no timer has less than nothing left.
LEMMA SecondTypes ==
    ASSUME TypeOK, Second
    PROVE  TypeOK'
<1> USE Parts
<1>1. ASSUME NEW t \in Tasks PROVE OneSecondLater(task[t]) \in Jobs \cup {None}
  <2>1. CASE task[t] = None
    BY <2>1 DEF OneSecondLater
  <2>2. CASE task[t] # None /\ task[t].kind = "poll"
    <3>1. task[t] \in Polls
      BY <2>2, Kinds
    <3>2. task[t].at \in {"waiting", "checked", "sending"} /\ task[t].owed < MaxLag
      BY <2>2, <3>1 DEF Second, InTime, Starting, PollsAt, Polls
    <3>3. [task[t] EXCEPT !.owed = @ + 1] \in Polls
      BY <3>1, <3>2, ConstantsAssumption DEF Polls
    <3>4. QED BY <2>2, <3>3 DEF OneSecondLater, Jobs
  <2>3. CASE task[t] # None /\ task[t].kind # "poll"
    <3>1. task[t] \in TimerTasks \cup StopTasks
      BY <2>3, Kinds DEF Jobs, Polls
    <3>2. CASE task[t].kind # "stop" /\ task[t].at = "sleeping" /\ task[t].left > 0
      <4>1. task[t] \in TimerTasks
        BY <3>1, <3>2 DEF StopTasks
      <4>2. [task[t] EXCEPT !.left = @ - 1] \in TimerTasks
        BY <3>2, <4>1 DEF TimerTasks
      <4>3. QED BY <2>3, <3>2, <4>2 DEF OneSecondLater, Jobs
    <3>3. CASE ~(task[t].kind # "stop" /\ task[t].at = "sleeping" /\ task[t].left > 0)
      BY <2>3, <3>1, <3>3 DEF OneSecondLater, Jobs
    <3>4. QED BY <3>2, <3>3
  <2>4. QED BY <2>1, <2>2, <2>3
<1>2. TasksOK'
  BY <1>1 DEF Second, TasksOK
<1>3. ClockOK'
  BY ConstantsAssumption DEF Second, ClockOK, Epoch
<1>4. QED BY <1>2, <1>3, Unchanged DEF Second

\* Every step keeps the types.
LEMMA StepTypes == TypeOK /\ [Next]_vars => TypeOK'
<1> SUFFICES ASSUME TypeOK, [Next]_vars PROVE TypeOK'
  OBVIOUS
<1>1. ASSUME NEW c \in Clients, Call(c) PROVE TypeOK'
  BY <1>1, CallTypes
<1>2. ASSUME NEW t \in Tasks, Run(t) \/ Send(t) PROVE TypeOK'
  BY <1>2, PollTypes, TimerTypes, StopTypes DEF Run, Send
<1>3. CASE InitEntryChannels \/ Receive
  BY <1>3, ListenerTypes
<1>4. CASE Second
  BY <1>4, SecondTypes
<1>5. CASE ToggleReadable
  <2>1. RestOK'
    BY <1>5, Parts DEF ToggleReadable, RestOK
  <2>2. QED BY <1>5, <2>1, Parts, Unchanged DEF ToggleReadable
<1>6. CASE UNCHANGED vars
  BY <1>6, Parts, Unchanged DEF vars
<1>7. QED
  BY <1>1, <1>2, <1>3, <1>4, <1>5, <1>6 DEF Next

\* The types of the state hold in every behaviour, for every number of clients, entries,
\* timers, tasks and channels: a countdown never leaves 0 .. Period, although two tasks may
\* count it down, no timer counts below nothing, and the channel holds at most Capacity
\* messages (form_reply, run_periodic_timer, ASYNC_CHANNEL).
THEOREM AsyncTypeCorrect == Spec => []TypeOK
<1>1. QED BY InitTypes, StepTypes, PTL DEF Spec

-----------------------------------------------------------------------------
(* The token that a user sees beside a running countdown is the current one,  *)
(* for any number of entries, timers and tasks, any period, any capacity of   *)
(* the channel and any delay of the polling tasks.                            *)

\* One thread opens and closes entries, and opens none again in the second in which its
\* old polling task may not have seen yet that it was stopped.
OneAtATime == Restarts = FALSE /\ \E c : Clients = {c}

-----------------------------------------------------------------------------
(* The inductive invariant *)

IsPoll(t) == task[t] # None /\ task[t].kind = "poll"

\* An entry has one polling task at most, and none yet when its polling begins.
Alone ==
    /\ \A t, u \in Tasks : IsPoll(t) /\ IsPoll(u) /\ task[t].entry = task[u].entry => t = u
    /\ \A c \in Clients : client[c] \in Entries =>
          client[c] \notin Polled /\ PollsOf(client[c]) = {}

\* Nobody knows a channel that was not created yet.
Known(via) == via # None => via <= created

ChannelsKnown ==
    Known(sender) /\ Known(listening) /\ \A t \in Tasks : IsPoll(t) => Known(task[t].via)

\* No entry is opened in a database that cannot be read.
OpenedReadable == Starting => readable

Books == Alone /\ ChannelsKnown /\ OpenedReadable

\* Ticks that a polling task has still to count
Lag(t) == IF task[t].at = "checked" THEN task[t].owed + 1 ELSE task[t].owed

\* The tokens of entry e that are on their way to the user
Sent(e) == {i \in DOMAIN queue : /\ queue[i].type = "EntryOtpToken" /\ queue[i].entry = e
                                 /\ queue[i].token # None}

\* What the user sees of entry e when all messages have arrived is the current token.
ArrivesCurrent(e) ==
    /\ \A i \in Sent(e) : (\A j \in Sent(e) : j <= i) => queue[i].token = epoch
    /\ Sent(e) = {} => shown[e] \in {None, epoch}

\* The task has a token to send.
Holding(t) == task[t].at \in {"first", "sending"} /\ task[t].token # None

\* A countdown that outlasts the ticks still to count ends no later than the period
\* does, and the last token is the one of this period.
Counted(t) ==
    LET e == task[t].entry IN
    e \in Polled /\ task[t].at # "started" =>
        /\ task[t].at = "first" => Holding(t)
        /\ task[t].via = listening /\ listening # None /\ ttls[e] > Lag(t) =>
              /\ ttls[e] - Lag(t) <= Remaining
              /\ IF Holding(t) THEN task[t].token = epoch ELSE ArrivesCurrent(e)

AllCounted == \A t \in Tasks : IsPoll(t) => Counted(t)

TokenInv == TypeOK /\ Books /\ AllCounted

-----------------------------------------------------------------------------
(* What is on its way to the user *)

\* Nothing arrives and nothing is sent.
LEMMA SameArrives ==
    ASSUME NEW e \in Entries, UNCHANGED <<queue, epoch>>, shown'[e] \in {None, shown[e]},
           ArrivesCurrent(e)
    PROVE  ArrivesCurrent(e)'
<1>1. Sent(e)' = Sent(e) BY DEF Sent
<1>2. QED BY <1>1 DEF ArrivesCurrent

\* A message that is no token of the entry is sent.
LEMMA OtherSent ==
    ASSUME TypeOK, NEW e \in Entries, NEW m \in Messages, Sends(m), UNCHANGED <<shown, epoch>>,
           ~(m.type = "EntryOtpToken" /\ m.entry = e /\ m.token # None),
           ArrivesCurrent(e)
    PROVE  ArrivesCurrent(e)'
<1>1. queue \in Seq(Messages) /\ queue' = Append(queue, m) BY DEF TypeOK, Sends
<1>2. /\ DOMAIN queue = 1 .. Len(queue) /\ DOMAIN queue' = 1 .. (Len(queue) + 1)
      /\ Len(queue) \in Nat
      /\ \A i \in DOMAIN queue : queue'[i] = queue[i]
      /\ queue'[Len(queue) + 1] = m
  BY <1>1
<1>3. Sent(e)' = Sent(e) BY <1>2 DEF Sent
<1>4. \A i \in Sent(e) : queue'[i] = queue[i] BY <1>2 DEF Sent
<1>5. QED BY <1>3, <1>4 DEF ArrivesCurrent

\* The current token of the entry is sent.
LEMMA TokenSent ==
    ASSUME TypeOK, NEW e \in Entries, Reply(e, epoch) \in Messages, Sends(Reply(e, epoch)),
           UNCHANGED <<shown, epoch>>
    PROVE  ArrivesCurrent(e)'
<1> DEFINE n == Len(queue) + 1
<1>1. queue \in Seq(Messages) /\ queue' = Append(queue, Reply(e, epoch)) BY DEF TypeOK, Sends
<1>2. /\ DOMAIN queue' = 1 .. n /\ n \in Nat /\ n >= 1 /\ queue'[n] = Reply(e, epoch)
  BY <1>1
<1>3. epoch # None
  BY Parts, ConstantsAssumption DEF ClockOK, Epoch
<1>4. n \in Sent(e)' BY <1>2, <1>3 DEF Sent, Reply
<1>5. ASSUME NEW i \in Sent(e)', \A j \in Sent(e)' : j <= i
      PROVE  queue'[i].token = epoch'
  <2>1. i = n BY <1>2, <1>4, <1>5 DEF Sent
  <2>2. QED BY <1>2, <2>1 DEF Reply
<1>6. QED BY <1>4, <1>5 DEF ArrivesCurrent

\* A message arrives, and the service goes on.
LEMMA Arrives ==
    ASSUME TypeOK, NEW e \in Entries, Receive, Head(queue).type # "ServiceStopped",
           ArrivesCurrent(e)
    PROVE  ArrivesCurrent(e)'
<1> DEFINE m == Head(queue)
<1>1. /\ queue \in Seq(Messages) /\ queue # <<>> /\ queue' = Tail(queue) /\ epoch' = epoch
      /\ shown' = IF m.type = "EntryOtpToken" /\ m.token # None
                  THEN [shown EXCEPT ![m.entry] = m.token] ELSE shown
  BY DEF Receive, TypeOK, clock
<1>2. /\ Len(queue) \in Nat /\ Len(queue) > 0 /\ m = queue[1]
      /\ DOMAIN queue = 1 .. Len(queue) /\ DOMAIN queue' = 1 .. (Len(queue) - 1)
      /\ \A i \in DOMAIN queue' : queue'[i] = queue[i + 1]
  BY <1>1
<1>3. \A i \in Nat : i \in Sent(e)' <=> i >= 1 /\ i + 1 \in Sent(e)
  BY <1>2 DEF Sent
<1>4. \A i \in Sent(e)' : i \in Nat BY <1>2 DEF Sent
<1>5. \A i \in Sent(e) : i \in Nat /\ i >= 1 BY <1>2 DEF Sent
<1>6. ASSUME NEW i \in Sent(e)', \A j \in Sent(e)' : j <= i
      PROVE  queue'[i].token = epoch'
  <2>1. i \in Nat /\ i >= 1 /\ i + 1 \in Sent(e) /\ queue'[i] = queue[i + 1]
    BY <1>2, <1>3, <1>4 DEF Sent
  <2>2. ASSUME NEW j \in Sent(e) PROVE j <= i + 1
    <3>1. CASE j = 1 BY <2>1, <3>1
    <3>2. CASE j # 1
      <4>1. j - 1 \in Nat /\ j - 1 >= 1 /\ (j - 1) + 1 = j BY <1>5, <3>2
      <4>2. j - 1 \in Sent(e)' BY <1>3, <4>1
      <4>3. QED BY <1>5, <1>6, <2>1, <4>2
    <3>3. QED BY <3>1, <3>2
  <2>3. QED BY <1>1, <2>1, <2>2 DEF ArrivesCurrent
<1>7. ASSUME Sent(e)' = {} PROVE shown'[e] \in {None, epoch'}
  <2>1. \A i \in Sent(e) : i = 1
    <3>1. ASSUME NEW i \in Sent(e), i # 1 PROVE FALSE
      <4>1. i - 1 \in Nat /\ i - 1 >= 1 /\ (i - 1) + 1 = i BY <1>5, <3>1
      <4>2. QED BY <1>3, <1>7, <4>1
    <3>2. QED BY <3>1
  <2>2. CASE Sent(e) = {}
    <3>1. ~(m.type = "EntryOtpToken" /\ m.entry = e /\ m.token # None)
      BY <1>2, <2>2 DEF Sent
    <3>2. shown'[e] = shown[e] BY <1>1, <3>1 DEF TypeOK
    <3>3. QED BY <1>1, <2>2, <3>2 DEF ArrivesCurrent
  <2>3. CASE Sent(e) # {}
    <3>1. 1 \in Sent(e) BY <2>1, <2>3
    <3>2. m.type = "EntryOtpToken" /\ m.entry = e /\ m.token # None BY <1>2, <3>1 DEF Sent
    <3>3. m.token = epoch BY <1>2, <2>1, <3>1 DEF ArrivesCurrent
    <3>4. shown'[e] = epoch BY <1>1, <3>2, <3>3 DEF TypeOK
    <3>5. QED BY <1>1, <3>4
  <2>4. QED BY <2>2, <2>3
<1>8. QED BY <1>6, <1>7 DEF ArrivesCurrent

-----------------------------------------------------------------------------
(* Which tasks poll *)

\* No task begins to poll, and a polling task goes on with its entry, over its channel
\* or over the stored one.
Continued ==
    \A t \in Tasks : IsPoll(t)' =>
        /\ IsPoll(t) /\ task'[t].entry = task[t].entry
        /\ task'[t].via \in {None, task[t].via, sender}
        /\ task'[t].at = "started" => task[t].at = "started"

LEMMA SameTasksContinued == UNCHANGED task => Continued
BY DEF Continued, IsPoll

\* One slot changes, and its task polls afterwards only as it did before.
LEMMA SlotContinued ==
    ASSUME TasksOK, NEW t \in Tasks, NEW job, task' = [task EXCEPT ![t] = job],
           job # None /\ job.kind = "poll" =>
              /\ IsPoll(t) /\ job.entry = task[t].entry
              /\ job.via \in {None, task[t].via, sender} /\ job.at # "started"
    PROVE  Continued
BY DEF TasksOK, Continued, IsPoll

\* What the calls and tasks have to do to keep the books.
LEMMA BooksKept ==
    ASSUME TypeOK, Books, Continued,
           \A c \in Clients : client'[c] \in Entries => client'[c] = client[c],
           Polled' \subseteq Polled,
           created' >= created, created' \in Nat,
           sender' \in {sender, None, created'}, listening' \in {listening, None, created'},
           readable' = readable \/ ~Starting
    PROVE  Books'
<1>1. /\ created \in Nat /\ sender \in Nat \cup {None} /\ listening \in Nat \cup {None}
      /\ None \notin Nat
  BY ConstantsAssumption DEF TypeOK, Channel
<1>2. \A t \in Tasks : IsPoll(t) => task[t].via \in Nat \cup {None} /\ task[t].entry \in Entries
  BY Kinds, Parts DEF IsPoll, Polls, Channel
<1>3. Alone'
  <2>1. \A t, u \in Tasks :
          IsPoll(t)' /\ IsPoll(u)' /\ task'[t].entry = task'[u].entry => t = u
    BY DEF Books, Alone, Continued
  <2>2. ASSUME NEW c \in Clients, client'[c] \in Entries
        PROVE  client'[c] \notin Polled' /\ PollsOf(client[c])' = {}
    <3>1. client[c] \in Entries /\ client'[c] = client[c] BY <2>2
    <3>2. client[c] \notin Polled /\ PollsOf(client[c]) = {} BY <3>1 DEF Books, Alone
    <3>3. PollsOf(client[c])' = {}
      BY <3>1, <3>2 DEF PollsOf, Continued, IsPoll
    <3>4. QED BY <3>1, <3>2, <3>3
  <2>3. QED BY <2>1, <2>2 DEF Alone, PollsOf, IsPoll
<1>4. ChannelsKnown'
  BY <1>1, <1>2 DEF Books, ChannelsKnown, Known, Continued
<1>5. OpenedReadable'
  <2>1. Starting' => Starting
    BY DEF Starting, PollsAt, Continued, IsPoll
  <2>2. QED BY <2>1 DEF Books, OpenedReadable
<1>6. QED BY <1>3, <1>4, <1>5 DEF Books

-----------------------------------------------------------------------------
(* The countdowns *)

\* A task that stands still, with its countdown and the clock, stays in time.
LEMMA CountedKept ==
    ASSUME TypeOK, NEW t \in Tasks, IsPoll(t), task[t].entry \in Polled' => Counted(t),
           task'[t] = task[t], UNCHANGED clock,
           task[t].entry \in Polled' =>
              task[t].entry \in Polled /\ ttls'[task[t].entry] = ttls[task[t].entry],
           task[t].via = listening' /\ listening' # None =>
              /\ listening' = listening
              /\ ArrivesCurrent(task[t].entry) => ArrivesCurrent(task[t].entry)'
    PROVE  Counted(t)'
<1> DEFINE e == task[t].entry
<1>1. Lag(t)' = Lag(t) /\ Holding(t)' = Holding(t) BY DEF Lag, Holding
<1>2. Remaining' = Remaining /\ epoch' = epoch BY DEF Remaining, clock
<1>3. SUFFICES ASSUME e \in Polled', task[t].at # "started"
      PROVE  /\ task[t].at = "first" => Holding(t)
             /\ task[t].via = listening' /\ listening' # None /\ ttls'[e] > Lag(t) =>
                   /\ ttls'[e] - Lag(t) <= Remaining
                   /\ IF Holding(t) THEN task[t].token = epoch ELSE ArrivesCurrent(e)'
  BY <1>1, <1>2 DEF Counted
<1>4. e \in Polled /\ ttls'[e] = ttls[e] BY <1>3
<1>5. QED BY <1>3, <1>4 DEF Counted

ArrivalsKept == \A e \in Entries : ArrivesCurrent(e) => ArrivesCurrent(e)'

\* A step that no polling task takes.
LEMMA PollsStandStill ==
    ASSUME TypeOK, AllCounted, UNCHANGED clock,
           \A t \in Tasks : IsPoll(t)' => task'[t] = task[t],
           \A e \in Polled' : e \in Polled /\ ttls'[e] = ttls[e],
           \A t \in Tasks : IsPoll(t) /\ task[t].via = listening' /\ listening' # None =>
              listening' = listening /\ ArrivalsKept
    PROVE  AllCounted'
<1> SUFFICES ASSUME NEW t \in Tasks, IsPoll(t)' PROVE Counted(t)'
  BY DEF AllCounted
<1>1. task'[t] = task[t] /\ IsPoll(t) BY DEF IsPoll
<1>2. task[t].entry \in Entries BY <1>1, Kinds, Parts DEF IsPoll, Polls
<1>3. Counted(t) BY <1>1 DEF AllCounted
<1>4. QED BY <1>1, <1>2, <1>3, CountedKept DEF ArrivalsKept

\* Nothing is sent or received.
LEMMA SilentKept == UNCHANGED <<queue, shown, clock>> => ArrivalsKept
<1> SUFFICES ASSUME UNCHANGED <<queue, shown, clock>>, NEW e \in Entries, ArrivesCurrent(e)
             PROVE  ArrivesCurrent(e)'
  BY DEF ArrivalsKept
<1>1. UNCHANGED <<queue, epoch>> /\ shown'[e] \in {None, shown[e]} BY DEF clock
<1>2. QED BY <1>1, SameArrives

\* A timer ticks, or the end of the services is announced.
LEMMA OtherMessageKept ==
    ASSUME TypeOK, NEW m \in Messages, m.type # "EntryOtpToken", Sends(m), UNCHANGED <<shown, clock>>
    PROVE  ArrivalsKept
<1> SUFFICES ASSUME NEW e \in Entries, ArrivesCurrent(e) PROVE ArrivesCurrent(e)'
  BY DEF ArrivalsKept
<1>1. UNCHANGED <<shown, epoch>> BY DEF clock
<1>2. QED BY <1>1, OtherSent

-----------------------------------------------------------------------------
(* The steps *)

\* An entry is opened.
LEMMA StartPollingTokens ==
    ASSUME OneAtATime, TokenInv, NEW c \in Clients, NEW e \in Entries, StartPolling(c, e)
    PROVE  Books' /\ AllCounted'
<1> USE DEF TokenInv
<1>1. /\ readable /\ e \notin Polled /\ PollsOf(e) = {}
      /\ client' = [client EXCEPT ![c] = e] /\ shown' = [shown EXCEPT ![e] = None]
      /\ UNCHANGED <<tables, channel, task, clock, readable>>
  BY DEF StartPolling, OneAtATime
<1>2. /\ UNCHANGED <<ttls, sender, listening, created, queue, task, readable>>
      /\ Polled' = Polled /\ \A x : PollsOf(x)' = PollsOf(x)
  BY <1>1 DEF tables, channel, Polled, PollsOf
<1>3. \A d \in Clients : client'[d] = IF d = c THEN e ELSE client[d]
  BY <1>1 DEF TypeOK
<1>4. Alone' BY <1>1, <1>2, <1>3 DEF Books, Alone, IsPoll
<1>5. ChannelsKnown' BY <1>2 DEF Books, ChannelsKnown, Known, IsPoll
<1>6. OpenedReadable' BY <1>1 DEF OpenedReadable
<1>7. ArrivalsKept
  <2> SUFFICES ASSUME NEW x \in Entries, ArrivesCurrent(x) PROVE ArrivesCurrent(x)'
    BY DEF ArrivalsKept
  <2>1. shown'[x] \in {None, shown[x]} BY <1>1 DEF TypeOK
  <2>2. UNCHANGED <<queue, epoch>> BY <1>1, <1>2 DEF clock
  <2>3. QED BY <2>1, <2>2, SameArrives
<1>8. AllCounted'
  BY <1>1, <1>2, <1>7, PollsStandStill
<1>9. QED BY <1>4, <1>5, <1>6, <1>8 DEF Books

\* Its countdown and its polling task begin.
LEMMA BeginPollingTokens ==
    ASSUME OneAtATime, TokenInv, NEW c \in Clients, BeginPolling(c)
    PROVE  Books' /\ AllCounted'
<1> USE DEF TokenInv
<1> DEFINE e == client[c]
           job == [kind |-> "poll", entry |-> e, at |-> "started", via |-> None, owed |-> 0]
<1>1. /\ e \in Entries
      /\ ttls' = [x \in Polled \cup {e} |-> IF x = e THEN Remaining ELSE ttls[x]]
      /\ client' = [client EXCEPT ![c] = None]
      /\ UNCHANGED <<timers, counter, channel, clock, readable, shown>>
  BY DEF BeginPolling
<1>2. PICK s \in Tasks : task[s] = None /\ task' = [task EXCEPT ![s] = job]
  BY DEF BeginPolling, Spawn
<1>3. UNCHANGED <<sender, listening, created, queue>> BY <1>1 DEF channel
<1>4. Clients = {c} BY DEF OneAtATime
<1>5. client'[c] = None /\ None \notin Entries BY <1>1, ConstantsAssumption DEF TypeOK
<1>6. /\ \A t \in Tasks \ {s} : task'[t] = task[t]
      /\ task'[s] = job
  BY <1>2 DEF TypeOK
<1>7. e \notin Polled /\ \A t \in Tasks : IsPoll(t) => task[t].entry # e
  BY <1>1 DEF Books, Alone, PollsOf, IsPoll
<1>8. Alone'
  <2>1. \A d \in Clients : client'[d] \notin Entries BY <1>4, <1>5
  <2>2. ASSUME NEW t \in Tasks, NEW u \in Tasks, IsPoll(t)', IsPoll(u)',
               task'[t].entry = task'[u].entry
        PROVE  t = u
    BY <1>6, <1>7, <2>2 DEF IsPoll, Books, Alone
  <2>3. QED BY <2>1, <2>2 DEF Alone
<1>9. ChannelsKnown'
  BY <1>3, <1>6 DEF Books, ChannelsKnown, Known, IsPoll
<1>10. readable BY <1>1 DEF Books, OpenedReadable, Starting
<1>11. OpenedReadable' BY <1>1, <1>10 DEF OpenedReadable
<1>12. ArrivalsKept
  <2>1. UNCHANGED <<queue, shown, clock>> BY <1>1, <1>3
  <2>2. QED BY <2>1, SilentKept
<1>13. ASSUME NEW t \in Tasks, IsPoll(t)' PROVE Counted(t)'
  <2>1. CASE t = s BY <1>6, <2>1 DEF Counted
  <2>2. CASE t # s
    <3>1. task'[t] = task[t] /\ IsPoll(t) BY <1>6, <1>13, <2>2 DEF IsPoll
    <3>2. task[t].entry \in Entries BY <3>1, Kinds, Parts DEF IsPoll, Polls
    <3>3. task[t].entry # e BY <1>7, <3>1
    <3>4. Polled' = Polled \cup {e} /\ \A x \in Polled : x # e => ttls'[x] = ttls[x]
      BY <1>1 DEF Polled
    <3>5. Counted(t) BY <3>1 DEF AllCounted
    <3>6. ArrivesCurrent(task[t].entry) => ArrivesCurrent(task[t].entry)'
      BY <1>12, <3>1, <3>2 DEF ArrivalsKept
    <3>7. QED BY <1>1, <1>3, <3>1, <3>3, <3>4, <3>5, <3>6, CountedKept
  <2>3. QED BY <2>1, <2>2
<1>14. QED BY <1>8, <1>9, <1>11, <1>13 DEF Books, AllCounted

\* No polling task moves, no table grows and nothing is sent: the other calls.
LEMMA QuietCallTokens ==
    ASSUME TokenInv, Continued, \A t \in Tasks : IsPoll(t)' => task'[t] = task[t],
           \A c \in Clients : client'[c] \in Entries => client'[c] = client[c],
           \A e \in Polled' : e \in Polled /\ ttls'[e] = ttls[e],
           UNCHANGED <<channel, clock, readable, shown>>
    PROVE  Books' /\ AllCounted'
<1> USE DEF TokenInv
<1>1. UNCHANGED <<sender, listening, created, queue>> BY DEF channel
<1>2. created \in Nat BY ConstantsAssumption DEF TypeOK
<1>3. ArrivalsKept
  <2>1. UNCHANGED <<queue, shown, clock>> BY <1>1
  <2>2. QED BY <2>1, SilentKept
<1>4. Polled' \subseteq Polled OBVIOUS
<1>5. Books' BY <1>1, <1>2, <1>4, BooksKept
<1>6. AllCounted' BY <1>1, <1>3, PollsStandStill
<1>7. QED BY <1>5, <1>6

\* A task that does not poll starts in a free slot.
LEMMA SpawnContinued ==
    ASSUME TypeOK, NEW job, job.kind # "poll", Spawn(job)
    PROVE  Continued /\ \A t \in Tasks : IsPoll(t)' => task'[t] = task[t]
<1>1. PICK s \in Tasks : task[s] = None /\ task' = [task EXCEPT ![s] = job] BY DEF Spawn
<1>2. \A t \in Tasks : task'[t] = IF t = s THEN job ELSE task[t] BY <1>1 DEF TypeOK
<1>3. QED BY <1>2 DEF Continued, IsPoll

\* The calls of a client.
LEMMA CallTokens ==
    ASSUME OneAtATime, TokenInv, NEW c \in Clients, Call(c)
    PROVE  Books' /\ AllCounted'
<1> USE DEF TokenInv
<1>1. ASSUME NEW e \in Entries, StartPolling(c, e) PROVE Books' /\ AllCounted'
  BY <1>1, StartPollingTokens
<1>2. ASSUME NEW S, StopPolling(c, S) PROVE Books' /\ AllCounted'
  <2>1. /\ ttls' = Restrict(ttls, Polled \ S)
        /\ UNCHANGED <<timers, counter, channel, task, client, clock, readable, shown>>
    BY <1>2 DEF StopPolling
  <2>2. \A e \in Polled' : e \in Polled /\ ttls'[e] = ttls[e] BY <2>1 DEF Restrict, Polled
  <2>3. Continued BY <2>1, SameTasksContinued
  <2>4. QED BY <2>1, <2>2, <2>3, QuietCallTokens
<1>3. CASE BeginPolling(c) BY <1>3, BeginPollingTokens
<1>4. ASSUME NEW kind \in {"periodic", "timeout"}, NEW given, NEW delay,
             StartTimer(c, kind, given, delay)
      PROVE  Books' /\ AllCounted'
  <2>1. PICK id \in TimerIds :
          /\ Spawn([kind |-> kind, id |-> id, delay |-> delay, via |-> None,
                    at |-> IF kind = "periodic" THEN "started" ELSE "sleeping",
                    left |-> IF kind = "periodic" THEN 0 ELSE delay])
          /\ UNCHANGED <<ttls, channel, client, clock, readable, shown>>
    BY <1>4 DEF StartTimer
  <2> DEFINE job == [kind |-> kind, id |-> id, delay |-> delay, via |-> None,
                     at |-> IF kind = "periodic" THEN "started" ELSE "sleeping",
                     left |-> IF kind = "periodic" THEN 0 ELSE delay]
  <2>2. job.kind # "poll" /\ Spawn(job) BY <2>1
  <2> HIDE DEF job
  <2>3. Continued /\ \A t \in Tasks : IsPoll(t)' => task'[t] = task[t]
    BY <2>2, SpawnContinued
  <2>4. \A e \in Polled' : e \in Polled /\ ttls'[e] = ttls[e] BY <2>1 DEF Polled
  <2>5. QED BY <2>1, <2>3, <2>4, QuietCallTokens
<1>5. ASSUME NEW id, CancelTimer(c, id) PROVE Books' /\ AllCounted'
  <2>1. UNCHANGED <<ttls, counter, channel, task, client, clock, readable, shown>>
    BY <1>5 DEF CancelTimer
  <2>2. \A e \in Polled' : e \in Polled /\ ttls'[e] = ttls[e] BY <2>1 DEF Polled
  <2>3. QED BY <2>1, <2>2, SameTasksContinued, QuietCallTokens
<1>6. CASE Shutdown(c)
  <2>1. /\ client' = [client EXCEPT ![c] = "shutdown"]
        /\ UNCHANGED <<ttls, counter, channel, task, clock, readable, shown>>
    BY <1>6 DEF Shutdown
  <2>2. \A e \in Polled' : e \in Polled /\ ttls'[e] = ttls[e] BY <2>1 DEF Polled
  <2>3. \A d \in Clients : client'[d] \in Entries => client'[d] = client[d]
    BY <2>1, ConstantsAssumption DEF TypeOK
  <2>4. QED BY <2>1, <2>2, <2>3, SameTasksContinued, QuietCallTokens
<1>7. CASE ShutdownPolling(c)
  <2> DEFINE job == [kind |-> "stop", at |-> "sending", via |-> sender]
  <2>1. /\ ttls' = <<>> /\ client' = [client EXCEPT ![c] = None]
        /\ Spawn(job) \/ UNCHANGED task
        /\ UNCHANGED <<timers, channel, clock, readable, shown>>
    BY <1>7 DEF ShutdownPolling
  <2>2. \A e \in Polled' : e \in Polled /\ ttls'[e] = ttls[e] BY <2>1 DEF Polled
  <2>3. \A d \in Clients : client'[d] \in Entries => client'[d] = client[d]
    BY <2>1, ConstantsAssumption DEF TypeOK
  <2>4. job.kind # "poll" OBVIOUS
  <2> HIDE DEF job
  <2>5. Continued /\ \A t \in Tasks : IsPoll(t)' => task'[t] = task[t]
    <3>1. CASE Spawn(job) BY <2>4, <3>1, SpawnContinued
    <3>2. CASE UNCHANGED task BY <3>2, SameTasksContinued
    <3>3. QED BY <2>1, <3>1, <3>2
  <2>6. QED BY <2>1, <2>2, <2>3, <2>5, QuietCallTokens
<1>8. QED
  BY <1>1, <1>2, <1>3, <1>4, <1>5, <1>6, <1>7 DEF Call, StartPeriodicTimer, SetTimeout

\* While one task polls an entry on, the tasks of the other entries stay in time.
LEMMA OthersCounted ==
    ASSUME TokenInv, NEW s \in Tasks, IsPoll(s), NEW job, task' = [task EXCEPT ![s] = job],
           UNCHANGED <<listening, epoch, phase>>, Polled' \subseteq Polled,
           \A x \in Polled' : x # task[s].entry => ttls'[x] = ttls[x],
           \A x \in Entries : x # task[s].entry /\ ArrivesCurrent(x) => ArrivesCurrent(x)'
    PROVE  \A t \in Tasks : t # s /\ IsPoll(t)' => Counted(t)'
<1> USE DEF TokenInv
<1> SUFFICES ASSUME NEW t \in Tasks, t # s, IsPoll(t)' PROVE Counted(t)'
  OBVIOUS
<1>1. task'[t] = task[t] /\ IsPoll(t) BY DEF TypeOK, IsPoll
<1>2. task[t].entry \in Entries BY <1>1, Kinds, Parts DEF IsPoll, Polls
<1>3. task[t].entry # task[s].entry BY <1>1 DEF Books, Alone
<1>4. Counted(t) BY <1>1 DEF AllCounted
<1>5. UNCHANGED clock BY DEF clock
<1>6. task[t].entry \in Polled' =>
        task[t].entry \in Polled /\ ttls'[task[t].entry] = ttls[task[t].entry]
  BY <1>3
<1>7. ArrivesCurrent(task[t].entry) => ArrivesCurrent(task[t].entry)'
  BY <1>1, <1>2, <1>3
<1>8. QED BY <1>1, <1>4, <1>5, <1>6, <1>7, CountedKept

\* A polling task goes on in its slot, or ends.
LEMMA PollBooks ==
    ASSUME TokenInv, NEW s \in Tasks, IsPoll(s), NEW job, task' = [task EXCEPT ![s] = job],
           job # None /\ job.kind = "poll" =>
              /\ job.entry = task[s].entry /\ job.via \in {None, task[s].via, sender}
              /\ job.at # "started",
           UNCHANGED <<sender, listening, created, client, readable>>, Polled' \subseteq Polled
    PROVE  Books'
<1> USE DEF TokenInv
<1>1. created \in Nat BY ConstantsAssumption DEF TypeOK
<1>2. TasksOK BY Parts
<1>3. Continued BY <1>2, SlotContinued
<1>4. QED BY <1>1, <1>3, BooksKept

\* What a polling task knows of its entry.
LEMMA PollFields ==
    ASSUME TypeOK, NEW t \in Tasks, IsPoll(t)
    PROVE  /\ task[t].entry \in Entries /\ task[t].owed \in Nat /\ task[t] \in Polls
           /\ task[t].entry \in Polled => ttls[task[t].entry] \in Nat
           /\ task[t].at \in {"first", "sending"} => task[t].token \in Token
           /\ Remaining \in Nat /\ Remaining >= 1 /\ Remaining <= Period /\ Period \in Nat
           /\ epoch # None
<1>1. task[t] \in Polls BY Kinds, Parts DEF IsPoll
<1>2. task[t].entry \in Entries /\ task[t].owed \in Nat
  BY <1>1, ConstantsAssumption DEF Polls
<1>3. task[t].at \in {"first", "sending"} => task[t].token \in Token BY <1>1 DEF Polls
<1>4. Remaining \in 1 .. Period /\ Period \in Nat BY RemainingType, Parts, ConstantsAssumption
<1>5. task[t].entry \in Polled => ttls[task[t].entry] \in Nat
  <2>1. 0 \in 0 .. Period BY <1>4
  <2>2. task[t].entry \in Polled => ttls[task[t].entry] \in 0 .. Period
    BY <1>2, <2>1, CountdownTypes, Parts DEF TablesOK, Polled
  <2>3. QED BY <2>2, <1>4
<1>6. epoch # None BY Parts, ConstantsAssumption DEF ClockOK, Epoch
<1>7. QED BY <1>1, <1>2, <1>3, <1>4, <1>5, <1>6

\* The first reply holds the current token, as its entry was opened readable.
LEMMA PollStartTokens ==
    ASSUME TokenInv, NEW s \in Tasks, task[s] # None, PollStart(s)
    PROVE  Books' /\ AllCounted'
<1> USE DEF TokenInv
<1> DEFINE e == task[s].entry
           fresh == e \in Polled /\ readable
           job == [kind |-> "poll", entry |-> e, at |-> "first", via |-> sender, owed |-> 0,
                   token |-> IF fresh THEN epoch ELSE None]
<1>1. /\ IsPoll(s) /\ task[s].at = "started"
      /\ ttls' = IF fresh THEN [ttls EXCEPT ![e] = Remaining] ELSE ttls
      /\ task' = [task EXCEPT ![s] = job]
      /\ UNCHANGED <<timers, counter, channel, client, clock, readable, shown>>
  BY DEF PollStart, Becomes, IsPoll
<1>2. readable BY <1>1 DEF Books, OpenedReadable, Starting, PollsAt, IsPoll
<1>3. UNCHANGED <<sender, listening, created, queue, epoch, phase>>
  BY <1>1 DEF channel, clock
<1>4. Polled' = Polled /\ \A x \in Polled : ttls'[x] = IF x = e THEN Remaining ELSE ttls[x]
  BY <1>1, <1>2 DEF Polled
<1>5. Books'
  <2>1. job.entry = e /\ job.via = sender /\ job.at # "started" OBVIOUS
  <2> HIDE DEF job
  <2>2. QED BY <1>1, <1>3, <1>4, <2>1, PollBooks
<1>6. ArrivalsKept
  <2>1. UNCHANGED <<queue, shown, clock>> BY <1>1, <1>3
  <2>2. QED BY <2>1, SilentKept
<1>7. \A t \in Tasks : t # s /\ IsPoll(t)' => Counted(t)'
  <2> HIDE DEF job
  <2>1. \A x \in Entries : x # e /\ ArrivesCurrent(x) => ArrivesCurrent(x)'
    BY <1>6 DEF ArrivalsKept
  <2>2. QED BY <1>1, <1>3, <1>4, <2>1, OthersCounted
<1>8. Counted(s)'
  <2>1. task'[s] = job BY <1>1 DEF TypeOK
  <2>2. e \in Polled' => job.token = epoch /\ ttls'[e] = Remaining BY <1>2, <1>4
  <2>3. Remaining' = Remaining BY <1>3 DEF Remaining
  <2>4. Remaining \in Nat /\ epoch # None BY <1>1, PollFields
  <2>5. Lag(s)' = 0 BY <2>1 DEF Lag
  <2>6. e \in Polled' => Holding(s)' BY <2>1, <2>2, <2>4 DEF Holding
  <2>7. QED BY <1>3, <2>1, <2>2, <2>3, <2>4, <2>5, <2>6 DEF Counted
<1>9. QED BY <1>5, <1>7, <1>8 DEF AllCounted

\* A reply goes into the channel that the user listens to, or into none.
LEMMA PollSendTokens ==
    ASSUME TokenInv, NEW s \in Tasks, task[s] # None, PollSend(s)
    PROVE  Books' /\ AllCounted'
<1> USE DEF TokenInv
<1>0. PICK e, via, token : e = task[s].entry /\ via = task[s].via /\ token = task[s].token
  OBVIOUS
<1> DEFINE message == Reply(e, token)
<1>1. /\ IsPoll(s) /\ task[s].at \in {"first", "sending"}
      /\ UNCHANGED <<tables, client, clock, readable, shown>>
  BY DEF PollSend, IsPoll
<1>2. PICK job \in {Waiting(task[s]), None} :
        /\ task' = [task EXCEPT ![s] = job]
        /\ \/ UNCHANGED channel /\ (job # None => via = None)
           \/ Sends(message)
  BY <1>0 DEF PollSend, Becomes, Ends
<1>3. UNCHANGED <<sender, listening, created, epoch, phase, ttls>>
  BY <1>1, <1>2 DEF channel, clock, tables, Sends
<1>4. Polled' = Polled BY <1>3 DEF Polled
<1>5. e \in Entries /\ token \in Token /\ task[s].owed \in Nat BY <1>0, <1>1, PollFields
<1>6. message \in Messages /\ message.entry = e /\ message.token = token
  BY <1>5 DEF Reply, Messages
<1>7. job # None => /\ job.kind = "poll" /\ job.entry = e /\ job.via = via
                    /\ job.at = "waiting" /\ job.owed = task[s].owed
  BY <1>0, <1>2 DEF Waiting
<1>8. Books'
  <2> HIDE DEF message
  <2>1. job # None /\ job.kind = "poll" =>
           /\ job.entry = task[s].entry /\ job.via \in {None, task[s].via, sender}
           /\ job.at # "started"
    BY <1>0, <1>7
  <2>2. QED BY <1>1, <1>2, <1>3, <1>4, <2>1, PollBooks
<1>9. ASSUME NEW x \in Entries, ArrivesCurrent(x), x # e \/ token = None
      PROVE  ArrivesCurrent(x)'
  <2>1. CASE UNCHANGED channel
    <3>1. UNCHANGED <<queue, shown, clock>> BY <1>1, <2>1 DEF channel
    <3>2. QED BY <3>1, <1>9, SilentKept DEF ArrivalsKept
  <2>2. CASE Sends(message)
    <3>1. ~(message.type = "EntryOtpToken" /\ message.entry = x /\ message.token # None)
      BY <1>6, <1>9
    <3>2. UNCHANGED <<shown, epoch>> BY <1>1, <1>3
    <3> HIDE DEF message
    <3>3. QED BY <2>2, <3>1, <3>2, <1>6, <1>9, OtherSent
  <2>3. QED BY <1>2, <2>1, <2>2
<1>10. \A t \in Tasks : t # s /\ IsPoll(t)' => Counted(t)'
  <2>1. \A x \in Entries : x # task[s].entry /\ ArrivesCurrent(x) => ArrivesCurrent(x)'
    BY <1>0, <1>9
  <2> HIDE DEF message
  <2>2. QED BY <1>1, <1>2, <1>3, <1>4, <2>1, OthersCounted
<1>11. IsPoll(s)' => Counted(s)'
  <2>0. PICK owed : owed = task[s].owed OBVIOUS
  <2> SUFFICES ASSUME IsPoll(s)', e \in Polled', via = listening', listening' # None,
                      ttls'[e] > owed
               PROVE  ttls'[e] - owed <= Remaining' /\ ArrivesCurrent(e)'
    <3>1. task'[s] = job BY <1>2 DEF TypeOK
    <3>2. IsPoll(s)' => /\ task'[s].entry = e /\ task'[s].via = via /\ task'[s].at = "waiting"
                        /\ task'[s].owed = owed
      BY <1>7, <2>0, <3>1 DEF IsPoll
    <3>3. IsPoll(s)' => Lag(s)' = owed /\ ~Holding(s)' BY <3>2 DEF Lag, Holding
    <3>4. QED BY <3>2, <3>3 DEF Counted
  <2>1. job # None /\ via # None /\ Sends(message)
    BY <1>2, <1>3, ConstantsAssumption DEF IsPoll, TypeOK
  <2>2. /\ e \in Polled /\ via = listening /\ listening # None /\ ttls[e] > Lag(s)
        /\ Lag(s) = owed /\ Remaining' = Remaining /\ ttls'[e] = ttls[e]
    BY <1>1, <1>3, <1>4, <2>0 DEF Lag, Remaining
  <2>3. /\ ttls[e] - Lag(s) <= Remaining
        /\ IF Holding(s) THEN token = epoch ELSE ArrivesCurrent(e)
    BY <1>0, <1>1, <2>2 DEF AllCounted, Counted
  <2>4. ArrivesCurrent(e)'
    <3>1. CASE token = None
      BY <1>0, <1>5, <1>9, <2>3, <3>1 DEF Holding
    <3>2. CASE token # None
      <4>1. message = Reply(e, epoch) BY <1>0, <1>1, <2>3, <3>2 DEF Holding
      <4>2. UNCHANGED <<shown, epoch>> BY <1>1, <1>3
      <4> HIDE DEF message
      <4>3. QED BY <1>5, <1>6, <2>1, <4>1, <4>2, TokenSent
    <3>3. QED BY <3>1, <3>2
  <2>5. QED BY <2>2, <2>3, <2>4
<1>12. QED BY <1>8, <1>10, <1>11 DEF AllCounted

\* A tick moves from those owed to the one that is counted.
LEMMA PollTickTokens ==
    ASSUME TokenInv, NEW s \in Tasks, task[s] # None, PollTick(s)
    PROVE  Books' /\ AllCounted'
<1> USE DEF TokenInv
<1>0. PICK e, via, owed : e = task[s].entry /\ via = task[s].via /\ owed = task[s].owed
  OBVIOUS
<1> DEFINE checked == [kind |-> "poll", entry |-> e, at |-> "checked", via |-> via,
                       owed |-> owed - 1]
<1>1. /\ IsPoll(s) /\ task[s].at = "waiting" /\ owed > 0
      /\ UNCHANGED <<tables, channel, client, clock, readable, shown>>
  BY <1>0 DEF PollTick, IsPoll
<1>2. PICK job \in {checked, None} : task' = [task EXCEPT ![s] = job]
  BY <1>0 DEF PollTick, Becomes, Ends
<1>3. UNCHANGED <<sender, listening, created, queue, epoch, phase, ttls>>
  BY <1>1 DEF channel, clock, tables
<1>4. Polled' = Polled BY <1>3 DEF Polled
<1>5. owed \in Nat /\ e \in Entries BY <1>0, <1>1, PollFields
<1>6. job # None => /\ job.kind = "poll" /\ job.entry = e /\ job.via = via
                    /\ job.at = "checked" /\ job.owed = owed - 1
  BY <1>2
<1> HIDE DEF checked
<1>7. Books'
  <2>1. job # None /\ job.kind = "poll" =>
           /\ job.entry = task[s].entry /\ job.via \in {None, task[s].via, sender}
           /\ job.at # "started"
    BY <1>0, <1>6
  <2>2. QED BY <1>1, <1>2, <1>3, <1>4, <2>1, PollBooks
<1>8. ArrivalsKept
  <2>1. UNCHANGED <<queue, shown, clock>> BY <1>1, <1>3
  <2>2. QED BY <2>1, SilentKept
<1>9. \A t \in Tasks : t # s /\ IsPoll(t)' => Counted(t)'
  <2>1. \A x \in Entries : x # task[s].entry /\ ArrivesCurrent(x) => ArrivesCurrent(x)'
    BY <1>8 DEF ArrivalsKept
  <2>2. QED BY <1>1, <1>2, <1>3, <1>4, <2>1, OthersCounted
<1>10. ASSUME IsPoll(s)' PROVE Counted(s)'
  <2>1. task'[s] = job /\ job # None BY <1>2, <1>10 DEF TypeOK, IsPoll
  <2>2. /\ task'[s].entry = e /\ task'[s].via = via /\ task'[s].at = "checked"
        /\ task'[s].owed = owed - 1
    BY <1>6, <2>1
  <2>3. Lag(s)' = owed /\ Lag(s) = owed /\ ~Holding(s)' /\ ~Holding(s)
    BY <1>0, <1>1, <1>5, <2>2 DEF Lag, Holding
  <2>4. Counted(s) BY <1>1 DEF AllCounted
  <2>5. Remaining' = Remaining BY <1>3 DEF Remaining
  <2>6. ArrivesCurrent(e) => ArrivesCurrent(e)' BY <1>5, <1>8 DEF ArrivalsKept
  <2>7. QED BY <1>0, <1>1, <1>3, <1>4, <2>2, <2>3, <2>4, <2>5, <2>6 DEF Counted
<1>11. QED BY <1>7, <1>9, <1>10 DEF AllCounted

\* The countdown goes down by the tick that is counted, or starts again with a new token.
LEMMA PollReplyTokens ==
    ASSUME TokenInv, NEW s \in Tasks, task[s] # None, PollReply(s)
    PROVE  Books' /\ AllCounted'
<1> USE DEF TokenInv
<1>0. PICK e, via, owed : e = task[s].entry /\ via = task[s].via /\ owed = task[s].owed
  OBVIOUS
<1> DEFINE counted == IF e \notin Polled \/ ttls[e] = 0 THEN 0 ELSE ttls[e] - 1
           fresh == e \in Polled /\ counted = 0 /\ readable
           job == [kind |-> "poll", entry |-> e, at |-> "sending", via |-> via,
                   owed |-> owed, token |-> IF fresh THEN epoch ELSE None]
<1>1. /\ IsPoll(s) /\ task[s].at = "checked"
      /\ ttls' = IF e \notin Polled THEN ttls
                 ELSE [ttls EXCEPT ![e] = IF fresh THEN Remaining ELSE counted]
      /\ task' = [task EXCEPT ![s] = job]
      /\ UNCHANGED <<timers, counter, channel, client, clock, readable, shown>>
  BY <1>0 DEF PollReply, Becomes, IsPoll
<1>2. UNCHANGED <<sender, listening, created, queue, epoch, phase>>
  BY <1>1 DEF channel, clock
<1>3. Polled' = Polled /\ \A x \in Polled : x # e => ttls'[x] = ttls[x]
  BY <1>1 DEF Polled
<1>4. e \in Entries /\ owed \in Nat /\ (e \in Polled => ttls[e] \in Nat)
      /\ Remaining \in Nat /\ epoch # None
  BY <1>0, <1>1, PollFields
<1>5. Books'
  <2>1. job.entry = e /\ job.via = via /\ job.at # "started" OBVIOUS
  <2> HIDE DEF job
  <2>2. QED BY <1>0, <1>1, <1>2, <1>3, <2>1, PollBooks
<1>6. ArrivalsKept
  <2>1. UNCHANGED <<queue, shown, clock>> BY <1>1, <1>2
  <2>2. QED BY <2>1, SilentKept
<1>7. \A t \in Tasks : t # s /\ IsPoll(t)' => Counted(t)'
  <2> HIDE DEF job
  <2>1. \A x \in Entries : x # task[s].entry /\ ArrivesCurrent(x) => ArrivesCurrent(x)'
    BY <1>6 DEF ArrivalsKept
  <2>2. QED BY <1>0, <1>1, <1>2, <1>3, <2>1, OthersCounted
<1>8. Counted(s)'
  <2>1. task'[s] = job BY <1>1 DEF TypeOK
  <2>2. /\ task'[s].entry = e /\ task'[s].via = via /\ task'[s].at = "sending"
        /\ task'[s].owed = owed /\ task'[s].token = IF fresh THEN epoch ELSE None
    BY <2>1
  <2>3. Lag(s)' = owed /\ Lag(s) = owed + 1 /\ ~Holding(s) /\ (Holding(s)' <=> fresh)
    BY <1>0, <1>1, <1>4, <2>2 DEF Lag, Holding
  <2>4. Remaining' = Remaining BY <1>2 DEF Remaining
  <2>5. ArrivesCurrent(e) => ArrivesCurrent(e)' BY <1>4, <1>6 DEF ArrivalsKept
  <2>6. SUFFICES ASSUME e \in Polled, via = listening, listening # None, ttls'[e] > owed
        PROVE  /\ ttls'[e] - owed <= Remaining
               /\ IF fresh THEN TRUE ELSE ArrivesCurrent(e)'
    BY <1>2, <1>3, <2>2, <2>3, <2>4 DEF Counted
  <2>7. ttls'[e] = IF fresh THEN Remaining ELSE counted BY <1>1, <2>6 DEF Polled
  <2>8. CASE fresh BY <1>4, <2>7, <2>8
  <2>9. CASE ~fresh
    <3>1. ttls[e] > owed + 1 /\ ttls'[e] = ttls[e] - 1 BY <1>4, <2>6, <2>7, <2>9
    <3>2. ttls[e] - (owed + 1) <= Remaining /\ ArrivesCurrent(e)
      BY <1>0, <1>1, <2>3, <2>6, <3>1 DEF AllCounted, Counted
    <3>3. ttls'[e] - owed <= Remaining BY <1>4, <2>6, <3>1, <3>2
    <3>4. QED BY <2>5, <2>9, <3>2, <3>3
  <2>10. QED BY <2>8, <2>9
<1>9. QED BY <1>5, <1>7, <1>8 DEF AllCounted

\* The steps of the other tasks: they send no token.
LEMMA OtherTaskTokens ==
    ASSUME TokenInv, NEW s \in Tasks, task[s] # None,
           \/ TimerStart(s) \/ TimerWake(s) \/ TimeoutRemove(s) \/ TimerSend(s)
           \/ StopSend(s) \/ StopRemove(s)
    PROVE  Books' /\ AllCounted'
<1> USE DEF TokenInv
<1>1. task[s].kind # "poll"
  BY DEF TimerStart, TimerWake, TimeoutRemove, TimerSend, StopSend, StopRemove, IsTimer
<1>2. PICK job : task' = [task EXCEPT ![s] = job] /\ (job = None \/ job.kind # "poll")
  <2>0. task[s] \in TimerTasks \cup StopTasks BY <1>1, Kinds, Parts DEF Jobs, Polls
  <2>1. /\ [task[s] EXCEPT !.at = "sleeping", !.left = task[s].delay].kind # "poll"
        /\ [task[s] EXCEPT !.at = "sending", !.via = sender].kind # "poll"
        /\ [task[s] EXCEPT !.at = "sleeping", !.left = task[s].delay, !.via = None].kind # "poll"
        /\ [task[s] EXCEPT !.at = "expired"].kind # "poll"
        /\ [task[s] EXCEPT !.at = "sent"].kind # "poll"
    BY <1>1, <2>0 DEF TimerTasks, StopTasks
  <2>2. CASE TimerStart(s)
    <3>1. \/ task' = [task EXCEPT ![s] = [task[s] EXCEPT !.at = "sleeping", !.left = task[s].delay]]
          \/ task' = [task EXCEPT ![s] = None]
      BY <2>2 DEF TimerStart, Ends
    <3>2. QED BY <2>1, <3>1
  <2>3. CASE TimerWake(s)
    <3>1. \/ task' = [task EXCEPT ![s] = [task[s] EXCEPT !.at = "sending", !.via = sender]]
          \/ task' = [task EXCEPT ![s] = [task[s] EXCEPT !.at = "expired"]]
          \/ task' = [task EXCEPT ![s] = None]
      BY <2>3 DEF TimerWake, Moves, Ends
    <3>2. QED BY <2>1, <3>1
  <2>4. CASE TimeoutRemove(s)
    <3>1. task' = [task EXCEPT ![s] = [task[s] EXCEPT !.at = "sending", !.via = sender]]
      BY <2>4 DEF TimeoutRemove
    <3>2. QED BY <2>1, <3>1
  <2>5. CASE TimerSend(s)
    <3>1. \/ task' = [task EXCEPT ![s] =
                        [task[s] EXCEPT !.at = "sleeping", !.left = task[s].delay, !.via = None]]
          \/ task' = [task EXCEPT ![s] = None]
      BY <2>5 DEF TimerSend, AfterTick, Ends
    <3>2. QED BY <2>1, <3>1
  <2>6. CASE StopSend(s)
    <3>1. task' = [task EXCEPT ![s] = [task[s] EXCEPT !.at = "sent"]]
      BY <2>6 DEF StopSend, Moves
    <3>2. QED BY <2>1, <3>1
  <2>7. CASE StopRemove(s)
    <3>1. task' = [task EXCEPT ![s] = None] BY <2>7 DEF StopRemove, Ends
    <3>2. QED BY <3>1
  <2>8. QED BY <2>2, <2>3, <2>4, <2>5, <2>6, <2>7
<1>3. \A t \in Tasks : IsPoll(t)' => task'[t] = task[t] BY <1>2 DEF TypeOK, IsPoll
<1>4. Continued
  <2>1. TasksOK BY Parts
  <2>2. QED BY <1>2, <2>1, SlotContinued
<1>5. UNCHANGED <<ttls, listening, created, client, clock, readable, shown>>
      /\ sender' \in {sender, None}
  BY DEF TimerStart, TimerWake, TimeoutRemove, TimerSend, StopSend, StopRemove, tables, channel, Sends
<1>6. Polled' = Polled BY <1>5 DEF Polled
<1>7. ArrivalsKept
  <2>1. CASE UNCHANGED queue
    <3>1. UNCHANGED <<queue, shown, clock>> BY <1>5, <2>1
    <3>2. QED BY <3>1, SilentKept
  <2>2. CASE TimerSend(s) /\ queue' # queue
    <3>1. Sends([type |-> "Tick", id |-> task[s].id]) BY <2>2 DEF TimerSend, channel
    <3>2. task[s].id \in TimerIds
      BY <2>2, Kinds, Parts DEF TimerSend, IsTimer, TimerTasks
    <3>3. [type |-> "Tick", id |-> task[s].id] \in Messages BY <3>2 DEF Messages
    <3>4. [type |-> "Tick", id |-> task[s].id].type # "EntryOtpToken" OBVIOUS
    <3>5. QED BY <1>5, <3>1, <3>3, <3>4, OtherMessageKept
  <2>3. CASE StopSend(s) /\ queue' # queue
    <3>1. Sends([type |-> "ServiceStopped"]) BY <2>3 DEF StopSend, channel
    <3>2. [type |-> "ServiceStopped"] \in Messages BY DEF Messages
    <3>3. [type |-> "ServiceStopped"].type # "EntryOtpToken" OBVIOUS
    <3>4. QED BY <1>5, <3>1, <3>2, <3>3, OtherMessageKept
  <2>4. QED
    BY <2>1, <2>2, <2>3 DEF TimerStart, TimerWake, TimeoutRemove, StopRemove, channel
<1>8. created \in Nat BY ConstantsAssumption DEF TypeOK
<1>9. Books' BY <1>4, <1>5, <1>6, <1>8, BooksKept
<1>10. AllCounted' BY <1>3, <1>5, <1>6, <1>7, PollsStandStill
<1>11. QED BY <1>9, <1>10

\* A new channel is known to no polling task, and the channel that ends is listened to by
\* nobody; every other message arrives.
LEMMA ListenerTokens ==
    ASSUME TokenInv, InitEntryChannels \/ Receive
    PROVE  Books' /\ AllCounted'
<1> USE DEF TokenInv
<1>1. UNCHANGED <<tables, task, client, clock, readable>> BY DEF InitEntryChannels, Receive
<1>2. Continued BY <1>1, SameTasksContinued
<1>3. UNCHANGED ttls /\ Polled' = Polled BY <1>1 DEF tables, Polled
<1>4. created \in Nat /\ None \notin Nat BY ConstantsAssumption DEF TypeOK
<1>5. /\ created' \in {created, created + 1} /\ sender' \in {sender, created'}
      /\ listening' \in {listening, None, created'}
  BY DEF InitEntryChannels, Receive
<1>6. Books' BY <1>1, <1>2, <1>3, <1>4, <1>5, BooksKept
<1>7. ASSUME NEW t \in Tasks, IsPoll(t), task[t].via = listening', listening' # None
      PROVE  listening' = listening /\ ArrivalsKept
  <2>1. CASE InitEntryChannels
    <3>1. task[t].via <= created BY <1>7 DEF Books, ChannelsKnown, Known
    <3>2. listening' = created + 1 BY <2>1 DEF InitEntryChannels
    <3>3. QED BY <1>4, <1>7, <3>1, <3>2
  <2>2. CASE Receive
    <3>1. Head(queue).type # "ServiceStopped" BY <1>7, <2>2 DEF Receive
    <3>2. \A e \in Entries : ArrivesCurrent(e) => ArrivesCurrent(e)' BY <2>2, <3>1, Arrives
    <3>3. QED BY <2>2, <3>1, <3>2 DEF Receive, ArrivalsKept
  <2>3. QED BY <2>1, <2>2
<1>8. AllCounted' BY <1>1, <1>3, <1>7, PollsStandStill
<1>9. QED BY <1>6, <1>8

\* A second passes. It brings a tick to every countdown and the end of the period nearer
\* by as much; a countdown that outlasts its ticks has more than one second left, so that
\* the period does not end.
LEMMA SecondTokens ==
    ASSUME TokenInv, Second
    PROVE  Books' /\ AllCounted'
<1> USE DEF TokenInv
<1>1. /\ task' = [t \in Tasks |-> OneSecondLater(task[t])]
      /\ phase' = (phase + 1) % Period
      /\ epoch' = IF phase' = 0 THEN (epoch + 1) % Epochs ELSE epoch
      /\ UNCHANGED <<tables, channel, client, readable, shown>>
      /\ InTime
  BY DEF Second
<1>2. UNCHANGED <<ttls, sender, listening, created, queue>> /\ Polled' = Polled
  BY <1>1 DEF tables, channel, Polled
<1>3. ASSUME NEW t \in Tasks, IsPoll(t)'
      PROVE  /\ IsPoll(t) /\ task[t].at \in {"waiting", "checked", "sending"}
             /\ task'[t] = [task[t] EXCEPT !.owed = @ + 1]
  <2>1. task'[t] = OneSecondLater(task[t]) BY <1>1
  <2>2. IsPoll(t)
    <3>1. CASE task[t] = None BY <1>3, <2>1, <3>1 DEF OneSecondLater, IsPoll
    <3>2. CASE task[t] # None /\ task[t].kind # "poll"
      <4>1. task[t] \in TimerTasks \cup StopTasks BY <3>2, Kinds, Parts DEF Jobs, Polls
      <4>2. [task[t] EXCEPT !.left = @ - 1].kind # "poll"
        BY <3>2, <4>1 DEF TimerTasks, StopTasks
      <4>3. QED BY <1>3, <2>1, <3>2, <4>2 DEF OneSecondLater, IsPoll
    <3>3. QED BY <3>1, <3>2 DEF IsPoll
  <2>3. task[t].at \in {"waiting", "checked", "sending"}
    <3>1. task[t] \in Polls BY <2>2, PollFields
    <3>2. QED BY <1>1, <2>2, <3>1 DEF InTime, Starting, PollsAt, Polls, IsPoll
  <2>4. QED BY <2>1, <2>2, <2>3 DEF OneSecondLater, IsPoll
<1>4. Books'
  <2>1. ASSUME NEW t \in Tasks, IsPoll(t)'
        PROVE  /\ IsPoll(t) /\ task'[t].entry = task[t].entry
               /\ task'[t].via = task[t].via /\ task'[t].at # "started"
    <3>1. task[t] \in Polls BY <1>3, <2>1, PollFields
    <3>2. QED BY <1>3, <2>1, <3>1 DEF Polls
  <2>2. Continued BY <2>1 DEF Continued
  <2>3. created \in Nat BY ConstantsAssumption DEF TypeOK
  <2>4. QED BY <1>1, <1>2, <2>2, <2>3, BooksKept
<1>5. ASSUME NEW t \in Tasks, IsPoll(t)' PROVE Counted(t)'
  <2>0. PICK e : e = task[t].entry OBVIOUS
  <2>1. /\ IsPoll(t) /\ task[t].at \in {"waiting", "checked", "sending"} BY <1>3, <1>5
  <2>2. task[t] \in Polls /\ task[t].owed \in Nat /\ e \in Entries
        /\ (e \in Polled => ttls[e] \in Nat)
        /\ Remaining \in Nat /\ Remaining >= 1 /\ Remaining <= Period /\ Period \in Nat
    BY <2>0, <2>1, PollFields
  <2>3. /\ task'[t].entry = e /\ task'[t].via = task[t].via /\ task'[t].at = task[t].at
        /\ task'[t].owed = task[t].owed + 1
        /\ (task[t].at = "sending" => task'[t].token = task[t].token)
    BY <1>3, <1>5, <2>0, <2>1, <2>2 DEF Polls
  <2>4. Lag(t)' = Lag(t) + 1 /\ Lag(t) \in Nat BY <2>2, <2>3 DEF Lag
  <2>5. Holding(t)' <=> Holding(t) BY <2>1, <2>3 DEF Holding
  <2>6. SUFFICES ASSUME e \in Polled, task[t].via = listening, listening # None,
                        ttls[e] > Lag(t) + 1
        PROVE  /\ ttls[e] - (Lag(t) + 1) <= Remaining'
               /\ IF Holding(t) THEN task[t].token = epoch' ELSE ArrivesCurrent(e)'
    <3>1. Holding(t)' => task'[t].token = task[t].token BY <2>1, <2>3, <2>5 DEF Holding
    <3>2. QED BY <1>2, <2>1, <2>3, <2>4, <2>5, <2>6, <3>1 DEF Counted
  <2>7. /\ ttls[e] - Lag(t) <= Remaining
        /\ IF Holding(t) THEN task[t].token = epoch ELSE ArrivesCurrent(e)
    <3>1. ttls[e] > Lag(t) BY <2>2, <2>4, <2>6
    <3>2. QED BY <2>0, <2>1, <2>6, <3>1 DEF AllCounted, Counted
  <2>8. phase \in Nat /\ phase + 1 < Period
    <3>1. phase \in Nat BY ConstantsAssumption DEF TypeOK
    <3>2. Remaining >= 2 BY <2>2, <2>4, <2>6, <2>7
    <3>3. QED BY <2>2, <3>1, <3>2 DEF Remaining
  <2>9. phase' = phase + 1 /\ phase' # 0 /\ epoch' = epoch BY <1>1, <2>2, <2>8
  <2>10. Remaining' = Remaining - 1 BY <2>2, <2>8, <2>9 DEF Remaining
  <2>11. ttls[e] - (Lag(t) + 1) <= Remaining' BY <2>2, <2>4, <2>6, <2>7, <2>10
  <2>12. ArrivesCurrent(e) => ArrivesCurrent(e)'
    <3>1. shown'[e] \in {None, shown[e]} BY <1>1
    <3>2. QED BY <1>2, <2>2, <2>9, <3>1, SameArrives
  <2>13. QED BY <2>7, <2>9, <2>11, <2>12
<1>6. QED BY <1>4, <1>5 DEF AllCounted

\* The database is locked or unlocked, while no entry is being opened.
LEMMA ToggleTokens ==
    ASSUME TokenInv, ToggleReadable
    PROVE  Books' /\ AllCounted'
<1> USE DEF TokenInv
<1>1. ~Starting /\ UNCHANGED <<tables, channel, task, client, clock, shown>>
  BY DEF ToggleReadable
<1>2. UNCHANGED <<ttls, sender, listening, created, queue>> /\ Polled' = Polled
  BY <1>1 DEF tables, channel, Polled
<1>3. created \in Nat BY ConstantsAssumption DEF TypeOK
<1>4. ArrivalsKept
  <2>1. UNCHANGED <<queue, shown, clock>> BY <1>1, <1>2
  <2>2. QED BY <2>1, SilentKept
<1>5. Continued BY <1>1, SameTasksContinued
<1>6. Books' BY <1>1, <1>2, <1>3, <1>5, BooksKept
<1>7. AllCounted' BY <1>1, <1>2, <1>4, PollsStandStill
<1>8. QED BY <1>6, <1>7

-----------------------------------------------------------------------------
(* The theorem *)

LEMMA InitTokens == Init => TokenInv
<1> SUFFICES ASSUME Init PROVE TokenInv
  OBVIOUS
<1>1. TypeOK BY InitTypes
<1>2. \A t \in Tasks : ~IsPoll(t) BY DEF Init, IsPoll
<1>3. Books BY <1>2, ConstantsAssumption DEF Init, Books, Alone, ChannelsKnown, Known, OpenedReadable
<1>4. QED BY <1>1, <1>2, <1>3 DEF TokenInv, AllCounted

LEMMA StepTokens == ASSUME OneAtATime PROVE TokenInv /\ [Next]_vars => TokenInv'
<1> SUFFICES ASSUME TokenInv, [Next]_vars PROVE Books' /\ AllCounted'
  BY StepTypes DEF TokenInv
<1>1. ASSUME NEW c \in Clients, Call(c) PROVE Books' /\ AllCounted'
  BY <1>1, CallTokens
<1>2. ASSUME NEW t \in Tasks, Run(t) \/ Send(t) PROVE Books' /\ AllCounted'
  BY <1>2, PollStartTokens, PollSendTokens, PollTickTokens, PollReplyTokens, OtherTaskTokens
     DEF Run, Send
<1>3. CASE InitEntryChannels \/ Receive BY <1>3, ListenerTokens
<1>4. CASE Second BY <1>4, SecondTokens
<1>5. CASE ToggleReadable BY <1>5, ToggleTokens
<1>6. CASE UNCHANGED vars
  <2>1. UNCHANGED <<channel, task, client, clock, readable, shown>> /\ UNCHANGED ttls
    BY <1>6 DEF vars, tables
  <2>2. \A e \in Polled' : e \in Polled /\ ttls'[e] = ttls[e] BY <2>1 DEF Polled
  <2>3. QED BY <2>1, <2>2, SameTasksContinued, QuietCallTokens
<1>7. QED BY <1>1, <1>2, <1>3, <1>4, <1>5, <1>6 DEF Next

LEMMA SettledIsCurrent == TokenInv => TokenIsCurrent
<1> SUFFICES ASSUME TokenInv, NEW e \in Polled, Settled(e), ttls[e] > 0
             PROVE  shown[e] \in {None, epoch}
  BY DEF TokenIsCurrent
<1>1. PICK t \in Tasks : IsPoll(t) /\ task[t].entry = e /\ Quiet(t) /\ task[t].via = listening
  BY DEF Settled, PollsOf, IsPoll
<1>2. Lag(t) = 0 /\ ~Holding(t) BY <1>1 DEF Quiet, Lag, Holding
<1>3. ArrivesCurrent(e)
  BY <1>1, <1>2 DEF Quiet, TokenInv, AllCounted, Counted, Settled
<1>4. Sent(e) = {}
  <2>1. queue = <<>> BY DEF Settled
  <2>2. DOMAIN queue = {} BY <2>1
  <2>3. QED BY <2>2 DEF Sent
<1>5. QED BY <1>3, <1>4 DEF ArrivesCurrent

\* The token that the user sees beside a running countdown is the one of the current
\* period, whenever all messages have been received and the polling task is between two
\* ticks: with any number of entries, timers and tasks, a channel of any size that is
\* closed and created again, late ticks, locking, and polling that is stopped and started
\* again by one client who leaves a second in between (form_first_reply, form_reply,
\* start_polling_entry_otp_fields).
THEOREM ShownTokenCurrent == ASSUME OneAtATime PROVE Spec => []TokenIsCurrent
<1>1. Init => TokenInv BY InitTokens
<1>2. TokenInv /\ [Next]_vars => TokenInv' BY StepTokens
<1>3. TokenInv => TokenIsCurrent BY SettledIsCurrent
<1>4. QED BY <1>1, <1>2, <1>3, PTL DEF Spec
=============================================================================

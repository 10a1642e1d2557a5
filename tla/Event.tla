------------------------------- MODULE Event -------------------------------
(***************************************************************************)
(* CUDA events (Event in src/core/event.cpp) over the scheduler's streams. *)
(* record() puts a task into a stream that resolves the event's future;    *)
(* synchronize() and elapsedTime() wait for futures.                       *)
(*                                                                         *)
(* A stream is what the scheduler promises of it: a queue whose tasks run  *)
(* one at a time, in order (StreamOrder).  A future is the number of the   *)
(* record() that made it.  record() holds mutex_ throughout and what it    *)
(* writes is read under mutex_ only, so it is one step.  A resolving task  *)
(* sets the value and notifies in two steps, without mutex_; a blocking    *)
(* wait looks at the future and falls asleep in two steps, with mutex_.    *)
(* The time a wait lasts is left out: it may end once it has begun.        *)
(***************************************************************************)
EXTENDS Naturals, Sequences, SequencesExt

CONSTANTS
  Events,       \* the events
  Blocking,     \* those created with kEventBlockingSync
  EventStreams, \* the streams
  Hosts,        \* threads that use the events
  MaxTasks,     \* bound: tasks put into streams
  MaxWaits      \* bound: calls of synchronize and elapsedTime

ASSUME EventAssumption ==
  /\ Blocking \subseteq Events
  /\ MaxTasks \in Nat /\ MaxWaits \in Nat

VARIABLES
  future,    \* future_ of each event, 0 when it is not valid
  recorded,  \* recorded_
  holder,    \* the thread that keeps mutex_ between two steps, if any
  stream,    \* the tasks waiting in each stream: [id, event], no event for a kernel
  nTasks,    \* tasks made: the numbers of futures are taken from it
  ready,     \* futures that are ready
  broken,    \* those whose promise was dropped by a scheduler that is shut down
  notifying, \* the event whose task has set its value and not notified, per stream
  shut,      \* the scheduler's shutdown_
  host,      \* what each thread is doing
  ahead,     \* history: the tasks in front of each record when it was made
  nWaits     \* used up bound

eventVars == <<future, recorded, holder, stream, nTasks, ready, broken, notifying, shut,
               host, ahead, nWaits>>

None == "none"

\* A thread is in a call: pc is its next step, ev and fut what it waits for,
\* todo the event elapsedTime synchronizes next, pair its two events.
NotCalling == [pc |-> "idle", ev |-> None, fut |-> 0, todo |-> None, pair |-> <<>>,
               futs |-> <<>>, result |-> None]

EventInit ==
  /\ future = [e \in Events |-> 0]
  /\ recorded = [e \in Events |-> FALSE]
  /\ holder = [e \in Events |-> None]
  /\ stream = [s \in EventStreams |-> <<>>]
  /\ nTasks = 0
  /\ ready = {} /\ broken = {}
  /\ notifying = [s \in EventStreams |-> None]
  /\ shut = FALSE
  /\ host = [h \in Hosts |-> NotCalling]
  /\ ahead = [f \in {} |-> {}]
  /\ nWaits = 0

Set(h, r) == host' = [host EXCEPT ![h] = r]
MutexFree(e) == holder[e] = None

-----------------------------------------------------------------------------
(* The streams. *)
SubmitKernel(s) ==
  /\ ~shut /\ nTasks < MaxTasks
  /\ nTasks' = nTasks + 1
  /\ stream' = [stream EXCEPT ![s] = Append(@, [id |-> nTasks + 1, event |-> None])]
  /\ UNCHANGED <<future, recorded, holder, ready, broken, notifying, shut, host, ahead,
                 nWaits>>

\* A worker runs the next task of a stream, a kernel or a resolving task.
RunTask(s) ==
  LET k == Head(stream[s])
  IN /\ stream[s] # <<>> /\ notifying[s] = None
     /\ stream' = [stream EXCEPT ![s] = Tail(@)]
     /\ ready' = IF k.event = None THEN ready ELSE ready \union {k.id}
     /\ notifying' = [notifying EXCEPT ![s] = k.event]
     /\ UNCHANGED <<future, recorded, holder, nTasks, broken, shut, host, ahead, nWaits>>

\* Mutant: a wakeup is taken for the end of the wait, without the predicate.
NotifyAllNoPredicate(s) ==
  /\ notifying[s] # None
  /\ host' = [h \in Hosts |->
                IF host[h].pc = "asleep" /\ host[h].ev = notifying[s]
                THEN [NotCalling EXCEPT !.result = "success", !.fut = host[h].fut] ELSE host[h]]
  /\ notifying' = [notifying EXCEPT ![s] = None]
  /\ UNCHANGED <<future, recorded, holder, stream, nTasks, ready, broken, shut, ahead,
                 nWaits>>

\* notify_all: whoever sleeps on the event's condition looks again.
NotifyAll(s) ==
  /\ notifying[s] # None
  /\ host' = [h \in Hosts |->
                IF host[h].pc = "asleep" /\ host[h].ev = notifying[s]
                THEN [host[h] EXCEPT !.pc = "look"] ELSE host[h]]
  /\ notifying' = [notifying EXCEPT ![s] = None]
  /\ UNCHANGED <<future, recorded, holder, stream, nTasks, ready, broken, shut, ahead,
                 nWaits>>

Shutdown ==
  /\ ~shut /\ shut' = TRUE
  /\ UNCHANGED <<future, recorded, holder, stream, nTasks, ready, broken, notifying,
                 host, ahead, nWaits>>

-----------------------------------------------------------------------------
\* record: once the scheduler is shut down it drops the task, whose promise is
\* gone with it, but the future it returns is valid and record() succeeds.
Record(e, s) ==
  LET f == nTasks + 1
  IN /\ MutexFree(e) /\ nTasks < MaxTasks
     /\ nTasks' = f
     /\ future' = [future EXCEPT ![e] = f]
     /\ recorded' = [recorded EXCEPT ![e] = TRUE]
     /\ IF shut
        THEN ready' = ready \union {f} /\ broken' = broken \union {f} /\ UNCHANGED stream
        ELSE /\ stream' = [stream EXCEPT ![s] = Append(@, [id |-> f, event |-> e])]
             /\ UNCHANGED <<ready, broken>>
     /\ ahead' = [g \in DOMAIN ahead \union {f} |->
                    IF g = f THEN {k.id : k \in ToSet(stream[s])} ELSE ahead[g]]
     /\ UNCHANGED <<holder, notifying, shut, host, nWaits>>

\* What a call does when a synchronize in it returns r.
Returned(c, r) ==
  IF c.pair = <<>> THEN [NotCalling EXCEPT !.result = r, !.fut = c.fut]
  ELSE IF r # "success" THEN [NotCalling EXCEPT !.result = "invalid"]
  ELSE IF c.todo # None THEN [c EXCEPT !.pc = "sync", !.ev = c.todo, !.todo = None]
  ELSE [c EXCEPT !.pc = "read"]

Synchronize(h, e) ==
  /\ host[h].pc = "idle" /\ nWaits < MaxWaits
  /\ Set(h, [NotCalling EXCEPT !.pc = "sync", !.ev = e])
  /\ nWaits' = nWaits + 1
  /\ UNCHANGED <<future, recorded, holder, stream, nTasks, ready, broken, notifying,
                 shut, ahead>>

\* elapsedTime of an event with itself is 0; otherwise it synchronizes both.
ElapsedTime(h, start, end) ==
  /\ host[h].pc = "idle" /\ nWaits < MaxWaits
  /\ start # end
  /\ Set(h, [NotCalling EXCEPT !.pc = "sync", !.ev = start, !.todo = end,
                               !.pair = <<start, end>>])
  /\ nWaits' = nWaits + 1
  /\ UNCHANGED <<future, recorded, holder, stream, nTasks, ready, broken, notifying,
                 shut, ahead>>

\* synchronize takes its copy of the future.
CopyFuture(h) ==
  LET c == host[h]
  IN /\ c.pc = "sync" /\ MutexFree(c.ev)
     /\ Set(h, IF ~recorded[c.ev] \/ future[c.ev] = 0 THEN Returned(c, "invalid")
               ELSE [c EXCEPT !.fut = future[c.ev],
                              !.pc = IF c.ev \in Blocking THEN "look" ELSE "poll"])
     /\ UNCHANGED <<future, recorded, holder, stream, nTasks, ready, broken, notifying,
                    shut, ahead, nWaits>>

\* The future's own wait: it ends when the future is ready or the time is up.
PollReady(h) ==
  /\ host[h].pc = "poll" /\ host[h].fut \in ready
  /\ Set(h, Returned(host[h], "success"))
  /\ UNCHANGED <<future, recorded, holder, stream, nTasks, ready, broken, notifying,
                 shut, ahead, nWaits>>
PollTimeout(h) ==
  /\ host[h].pc = "poll" /\ host[h].fut \notin ready
  /\ Set(h, Returned(host[h], "timeout"))
  /\ UNCHANGED <<future, recorded, holder, stream, nTasks, ready, broken, notifying,
                 shut, ahead, nWaits>>

\* The blocking wait looks at the future; it keeps mutex_ until it sleeps.
WaitOver(c) == c.fut \in ready
Look(h) ==
  LET c == host[h]
  IN /\ c.pc = "look" /\ MutexFree(c.ev)
     /\ IF WaitOver(c)
        THEN Set(h, Returned(c, "success")) /\ UNCHANGED holder
        ELSE /\ Set(h, [c EXCEPT !.pc = "dozing"])
             /\ holder' = [holder EXCEPT ![c.ev] = h]
     /\ UNCHANGED <<future, recorded, stream, nTasks, ready, broken, notifying, shut,
                    ahead, nWaits>>
FallAsleep(h) ==
  LET c == host[h]
  IN /\ c.pc = "dozing"
     /\ Set(h, [c EXCEPT !.pc = "asleep"])
     /\ holder' = [holder EXCEPT ![c.ev] = None]
     /\ UNCHANGED <<future, recorded, stream, nTasks, ready, broken, notifying, shut,
                    ahead, nWaits>>

\* Mutant: wait instead of wait_for.
MayTimeOutNever(c) == FALSE

\* wait_for looks once more when the time is up.
MayTimeOut(c) == c.pc = "asleep"
BlockingTimeout(h) ==
  LET c == host[h]
  IN /\ MayTimeOut(c) /\ MutexFree(c.ev)
     /\ Set(h, Returned(c, IF c.fut \in ready THEN "success" ELSE "timeout"))
     /\ UNCHANGED <<future, recorded, holder, stream, nTasks, ready, broken, notifying,
                    shut, ahead, nWaits>>

\* elapsedTime reads both futures again and gets them, for as long as it takes.
ReadFutures(h) ==
  LET c == host[h]
  IN /\ c.pc = "read" /\ MutexFree(c.pair[1]) /\ MutexFree(c.pair[2])
     /\ Set(h, [c EXCEPT !.pc = "get", !.futs = <<future[c.pair[1]], future[c.pair[2]]>>])
     /\ UNCHANGED <<future, recorded, holder, stream, nTasks, ready, broken, notifying,
                    shut, ahead, nWaits>>
GetBoth(h) ==
  LET c == host[h]
  IN /\ c.pc = "get" /\ ToSet(c.futs) \subseteq ready
     /\ Set(h, [NotCalling EXCEPT !.result = IF ToSet(c.futs) \cap broken = {}
                                             THEN "elapsed" ELSE "throws"])
     /\ UNCHANGED <<future, recorded, holder, stream, nTasks, ready, broken, notifying,
                    shut, ahead, nWaits>>

HostStep(h) == \/ CopyFuture(h) \/ PollReady(h) \/ Look(h) \/ FallAsleep(h)
               \/ ReadFutures(h) \/ GetBoth(h)
Timeout(h)  == PollTimeout(h) \/ BlockingTimeout(h)

EventNext ==
  \/ \E s \in EventStreams : SubmitKernel(s) \/ RunTask(s) \/ NotifyAll(s)
  \/ \E e \in Events, s \in EventStreams : Record(e, s)
  \/ \E h \in Hosts, e \in Events : Synchronize(h, e)
  \/ \E h \in Hosts, e, d \in Events : ElapsedTime(h, e, d)
  \/ \E h \in Hosts : HostStep(h) \/ Timeout(h)
  \/ Shutdown

\* Workers and hosts are scheduled, and a wait ends when its time is up.
EventFairness ==
  /\ \A s \in EventStreams : WF_eventVars(RunTask(s)) /\ WF_eventVars(NotifyAll(s))
  /\ \A h \in Hosts : WF_eventVars(HostStep(h)) /\ WF_eventVars(Timeout(h))

EventSpec == EventInit /\ [][EventNext]_eventVars /\ EventFairness

-----------------------------------------------------------------------------
Unrun == {k.id : k \in UNION {ToSet(stream[s]) : s \in EventStreams}}

\* A synchronize() that returned success found the stream past the record: no task
\* that was in front of it is left, whatever earlier record of the same event, or
\* a wakeup meant for it, came in between.  (Not so for a record made after the
\* scheduler was shut down, whose promise is broken.)
SyncSound ==
  \A h \in Hosts :
    (host[h].pc = "idle" /\ host[h].result = "success" /\ host[h].fut \notin broken) =>
      /\ host[h].fut \notin Unrun
      /\ ahead[host[h].fut] \cap Unrun = {}

\* Every synchronize() and elapsedTime() returns: a notification sent between the
\* look at the future and the sleep is lost, and the time limit makes up for it;
\* elapsedTime(), which has none, waits for a task that its stream will run.
SyncReturns == <>[](\A h \in Hosts : host[h].pc = "idle")
=============================================================================

-------------------------- MODULE ClusterDispatch --------------------------
(***************************************************************************)
(* Kernel launches of the TCP cluster's master on one of its workers:      *)
(* HybridComputeManager::distributeRegisteredKernel (REMOTE_NODE),         *)
(* DispatchManager::launchRemoteKernel, handleRemoteCommand on the worker, *)
(* the response's way back and waitForRemoteResult, with the connections,  *)
(* transmit queues and rate limiter in between (src/advanced/tcp_cluster/).*)
(*                                                                         *)
(* The master's table of connections, clients_, is a sequence: a launch    *)
(* keeps an index into it while clients_mutex_ is free.  What happens      *)
(* under one hold of a mutex is one step.  A connection is a pair of FIFO  *)
(* channels, lost with it.  A launch is a number; its arguments are told   *)
(* apart only by the launch they belong to.  The worker keeps the argument *)
(* packets in pending_args_ until the LAUNCH_KERNEL behind them, which     *)
(* empties it, so a packet here is a LAUNCH_KERNEL with the arguments it   *)
(* will find.  What a RESPONSE says is that the worker enqueued the kernel.*)
(***************************************************************************)
EXTENDS Naturals, SequencesExt, FiniteSetsExt

CONSTANTS
  Conns,        \* connections, in the order they may be made: 1..n
  Hosts,        \* threads that launch
  Kernels,      \* registered kernels
  Arity,        \* and the number of arguments of each
  MaxRemote,    \* bound: launches
  MaxTroubles   \* bound: connections lost, packets refused or rate-limited, waits timed out

ASSUME ClusterAssumption ==
  /\ IsFiniteSet(Conns) /\ Conns = 1..Cardinality(Conns)
  /\ Arity \in [Kernels -> Nat] /\ {"idle", "chosen"} \intersect Kernels = {}
  /\ {MaxRemote, MaxTroubles} \subseteq Nat

VARIABLES
  clients,    \* clients_: connections in order
  conn,       \* of each connection: active; ready, its secure channel is there or
              \* none is needed; inFlight, in_flight_kernels; lost (history), the
              \* counted launches of which nothing will be heard any more
  txq,        \* low_priority_tx: launches queued for each worker
  tail,       \* arguments queued or sent behind the last LAUNCH_KERNEL
  toWorker,   \* launches on their way to each worker
  toMaster,   \* responses on their way back
  remoteMap,  \* remote_kernel_results_: the launch whose response is held, 0 if none
  host,       \* what each thread is doing: [at, idx, kernel, launch]
  remotes,    \* launches so far
  executed,   \* history: the launches the workers took up, with their arguments
  replied,    \* history: waits that ended with a response
  shared,     \* history: kernels launched while another launch of them was not
              \* waited for to its end
  troubles, made  \* used up bound, connections made

clusterVars == <<clients, conn, txq, tail, toWorker, toMaster, remoteMap, host, remotes,
                 executed, replied, shared, troubles, made>>

Indices  == UNION {1..Arity[k] : k \in Kernels}
NoArgs   == [i \in Indices |-> 0]
NoLaunch == [at |-> "idle", idx |-> 0, launch |-> 0]

ClusterInit ==
  /\ clients = <<>>
  /\ conn = [c \in Conns |-> [active |-> FALSE, ready |-> FALSE, inFlight |-> 0, lost |-> 0]]
  /\ txq = [c \in Conns |-> <<>>] /\ tail = [c \in Conns |-> NoArgs]
  /\ toWorker = [c \in Conns |-> <<>>] /\ toMaster = [c \in Conns |-> <<>>]
  /\ remoteMap = [k \in Kernels |-> 0]
  /\ host = [h \in Hosts |-> NoLaunch] /\ remotes = 0
  /\ executed = {} /\ replied = {} /\ shared = {}
  /\ troubles = 0 /\ made = 0

Trouble == troubles < MaxTroubles /\ troubles' = troubles + 1

-----------------------------------------------------------------------------
(* Connections. *)
\* addClientIfNotDuplicate: a connection from a worker is active once it needs no
\* handshake any more; one that the master opens itself (proactive) is active at
\* once, and its handshake goes on.
Connect ==
  /\ made + 1 \in Conns
  /\ made' = made + 1
  /\ clients' = Append(clients, made + 1)
  /\ \E r \in BOOLEAN : conn' = [conn EXCEPT ![made + 1].active = TRUE, ![made + 1].ready = r]
  /\ UNCHANGED <<txq, tail, toWorker, toMaster, remoteMap, host, remotes, executed, replied,
                 shared, troubles>>

\* What is left of a launch's arguments when its first n have been dropped.
Cut(p, n) == [p EXCEPT !.args = [i \in Indices |-> IF i <= n THEN 0 ELSE @[i]]]

\* The handshake ends.  A flush that is dropping the packets of a launch just then
\* goes on and sends the rest of them.
Secured(c) ==
  /\ conn[c].active /\ ~conn[c].ready
  /\ conn' = [conn EXCEPT ![c].ready = TRUE]
  /\ \/ UNCHANGED txq
     \/ /\ txq[c] # <<>>
        /\ \E n \in 1..Arity[Head(txq[c]).kernel] :
             txq' = [txq EXCEPT ![c] = <<Cut(Head(@), n)>> \o Tail(@)]
  /\ UNCHANGED <<clients, tail, toWorker, toMaster, remoteMap, host, remotes, executed, replied,
                 shared, troubles, made>>

\* An error on the socket, a failed handshake, a frame out of step, an idle peer:
\* both sides forget their queues.
Drop(c) ==
  /\ conn[c].active /\ Trouble
  /\ conn' = [conn EXCEPT ![c].active = FALSE]
  /\ txq' = [txq EXCEPT ![c] = <<>>] /\ tail' = [tail EXCEPT ![c] = NoArgs]
  /\ toWorker' = [toWorker EXCEPT ![c] = <<>>] /\ toMaster' = [toMaster EXCEPT ![c] = <<>>]
  /\ UNCHANGED <<clients, remoteMap, host, remotes, executed, replied, shared, made>>

\* purgeDeadClients: the connections behind a dead one move up.
Purge ==
  /\ \E i \in DOMAIN clients : ~conn[clients[i]].active
  /\ clients' = SelectSeq(clients, LAMBDA c : conn[c].active)
  /\ UNCHANGED <<conn, txq, tail, toWorker, toMaster, remoteMap, host, remotes, executed, replied,
                 shared, troubles, made>>

-----------------------------------------------------------------------------
(* A launch. *)
\* getGpuCapableWorker, getFirstActiveWorker: any active worker may be the one (the
\* only one with a GPU).  Only its index is kept.
Choose(h) ==
  /\ host[h].at = "idle" /\ remotes < MaxRemote
  /\ \E i \in DOMAIN clients :
       /\ conn[clients[i]].active
       /\ host' = [host EXCEPT ![h] = [NoLaunch EXCEPT !.at = "chosen", !.idx = i]]
  /\ UNCHANGED <<clients, conn, txq, tail, toWorker, toMaster, remoteMap, remotes, executed,
                 replied, shared, troubles, made>>

\* The connection that has the index by now, if any and if it is open.
Open(i) == {c \in Conns : i \in DOMAIN clients /\ clients[i] = c /\ conn[c].active}

\* streamArgumentsToWorker: the arguments behind the last LAUNCH_KERNEL once the
\* first n of launch l have been queued.
Streamed(c, l, n) == [i \in Indices |-> IF i <= n THEN l ELSE tail[c][i]]

\* launchRemoteKernel with an index that is no longer there or no longer active.
LaunchGone(h) ==
  /\ host[h].at = "chosen" /\ Open(host[h].idx) = {}
  /\ host' = [host EXCEPT ![h] = NoLaunch]
  /\ UNCHANGED <<clients, conn, txq, tail, toWorker, toMaster, remoteMap, remotes, executed,
                 replied, shared, troubles, made>>

\* LAUNCH_KERNEL is queued and counted; the caller may wait for it, or not.
Send(h, c, k, args) ==
  /\ txq' = [txq EXCEPT ![c] = Append(@, [launch |-> remotes + 1, kernel |-> k, args |-> args,
                                          early |-> ~conn[c].ready])]
  /\ conn' = [conn EXCEPT ![c].inFlight = @ + 1]
  /\ remotes' = remotes + 1
  /\ \E waits \in BOOLEAN :
       /\ host' = [host EXCEPT ![h] = IF waits THEN [at |-> k, idx |-> 0, launch |-> remotes + 1]
                                               ELSE NoLaunch]
       /\ shared' = IF ~waits \/ \E g \in Hosts \ {h} : host[g].at = k
                    THEN shared \union {k} ELSE shared

Launch(h) ==
  /\ host[h].at = "chosen" /\ remotes < MaxRemote
  /\ \E c \in Open(host[h].idx), k \in Kernels :
       /\ Send(h, c, k, Streamed(c, remotes + 1, Arity[k]))
       /\ tail' = [tail EXCEPT ![c] = NoArgs]
  /\ UNCHANGED <<clients, toWorker, toMaster, remoteMap, executed, replied, troubles, made>>

\* Mutant: the kernel is launched although an argument was refused.
LaunchAnyway(h) ==
  /\ host[h].at = "chosen" /\ remotes < MaxRemote /\ Trouble
  /\ \E c \in Open(host[h].idx), k \in Kernels : \E n \in 0..Arity[k] :
       /\ Send(h, c, k, Streamed(c, remotes + 1, n))
       /\ tail' = [tail EXCEPT ![c] = NoArgs]
  /\ UNCHANGED <<clients, toWorker, toMaster, remoteMap, executed, replied, made>>

\* The transmit queue is full (ERR_BUSY) after n of the arguments: they stay queued,
\* the kernel is not launched.
LaunchBusy(h) ==
  /\ host[h].at = "chosen" /\ remotes < MaxRemote /\ Trouble
  /\ \E c \in Open(host[h].idx), k \in Kernels : \E n \in 0..Arity[k] :
       tail' = [tail EXCEPT ![c] = Streamed(c, remotes + 1, n)]
  /\ remotes' = remotes + 1
  /\ host' = [host EXCEPT ![h] = NoLaunch]
  /\ UNCHANGED <<clients, conn, txq, toWorker, toMaster, remoteMap, executed, replied, shared, made>>

\* flush_tx_queues: the next launch is sent, or dropped while there is no channel.
Flush(c) ==
  /\ txq[c] # <<>>
  /\ IF conn[c].ready
     THEN /\ toWorker' = [toWorker EXCEPT ![c] = Append(@, Head(txq[c]))]
          /\ UNCHANGED conn
     ELSE /\ conn' = [conn EXCEPT ![c].lost = @ + 1]
          /\ UNCHANGED toWorker
  /\ txq' = [txq EXCEPT ![c] = Tail(@)]
  /\ UNCHANGED <<clients, tail, toMaster, remoteMap, host, remotes, executed, replied, shared,
                 troubles, made>>

\* The same for arguments without a launch behind them.
FlushLeft(c) ==
  /\ txq[c] = <<>> /\ ~conn[c].ready /\ tail[c] # NoArgs
  /\ tail' = [tail EXCEPT ![c] = NoArgs]
  /\ UNCHANGED <<clients, conn, txq, toWorker, toMaster, remoteMap, host, remotes, executed,
                 replied, shared, troubles, made>>

\* handleRemoteCommand enqueues the kernel and answers.
Work(c) ==
  /\ toWorker[c] # <<>>
  /\ executed' = executed \union {Head(toWorker[c])}
  /\ toMaster' = [toMaster EXCEPT ![c] = Append(@, Head(toWorker[c]))]
  /\ toWorker' = [toWorker EXCEPT ![c] = Tail(@)]
  /\ UNCHANGED <<clients, conn, txq, tail, remoteMap, host, remotes, replied, shared,
                 troubles, made>>

-----------------------------------------------------------------------------
(* The response. *)
\* Mutant: a response is not counted.
LandedUncounted(n) == n
\* The flight counter goes down, never below 0.
Landed(n) == IF n > 0 THEN n - 1 ELSE 0

\* processServerPackets on RESPONSE, and storeRemoteResult: the kernel's slot is
\* overwritten.
Receive(c) ==
  /\ toMaster[c] # <<>>
  /\ remoteMap' = [remoteMap EXCEPT ![Head(toMaster[c]).kernel] = Head(toMaster[c]).launch]
  /\ toMaster' = [toMaster EXCEPT ![c] = Tail(@)]
  /\ conn' = [conn EXCEPT ![c].inFlight = Landed(@)]
  /\ UNCHANGED <<clients, txq, tail, toWorker, host, remotes, executed, replied, shared, troubles,
                 made>>

\* The rate limiter consumes the packet instead.
Limited(c) ==
  /\ toMaster[c] # <<>> /\ Trouble
  /\ toMaster' = [toMaster EXCEPT ![c] = Tail(@)]
  /\ conn' = [conn EXCEPT ![c].lost = @ + 1]
  /\ UNCHANGED <<clients, txq, tail, toWorker, remoteMap, host, remotes, executed, replied, shared,
                 made>>

\* Mutant: the response stays.
Kept(l) == l
\* waitForRemoteResult takes what is stored under the kernel's id and erases it.
Erased(l) == 0
TakeReply(h) ==
  /\ host[h].at \in Kernels
  /\ LET k == host[h].at
     IN /\ remoteMap[k] # 0
        /\ replied' = replied \union {[kernel |-> k, waited |-> host[h].launch,
                                       got |-> remoteMap[k]]}
        /\ remoteMap' = [remoteMap EXCEPT ![k] = Erased(@)]
  /\ host' = [host EXCEPT ![h] = NoLaunch]
  /\ UNCHANGED <<clients, conn, txq, tail, toWorker, toMaster, remotes, executed, shared, troubles,
                 made>>

ReplyTimesOut(h) ==
  /\ host[h].at \in Kernels /\ remoteMap[host[h].at] = 0 /\ Trouble
  /\ shared' = shared \union {host[h].at}
  /\ host' = [host EXCEPT ![h] = NoLaunch]
  /\ UNCHANGED <<clients, conn, txq, tail, toWorker, toMaster, remoteMap, remotes, executed, replied,
                 made>>

ClusterNext ==
  \/ Connect \/ Purge
  \/ \E c \in Conns : \/ Secured(c) \/ Drop(c) \/ Flush(c) \/ FlushLeft(c) \/ Work(c)
                      \/ Receive(c) \/ Limited(c)
  \/ \E h \in Hosts : \/ Choose(h) \/ LaunchGone(h) \/ Launch(h) \/ LaunchBusy(h)
                      \/ TakeReply(h) \/ ReplyTimesOut(h)

ClusterSpec == ClusterInit /\ [][ClusterNext]_clusterVars

-----------------------------------------------------------------------------
\* A worker never enqueues a kernel with the arguments of another launch, whatever
\* launches were broken off before it by a full queue; and it has them all, unless
\* the launch was queued before the connection's handshake had ended, when some may
\* be missing (handleRemoteCommand passes null pointers for those).
ArgumentsOwn ==
  \A r \in executed : \A i \in 1..Arity[r.kernel] :
    r.args[i] = r.launch \/ (r.early /\ r.args[i] = 0)

\* A response ends at most one wait, and one for its own kernel that a worker took
\* up; it ends the wait of its own launch as long as every launch of the kernel is
\* waited for, alone and without a timeout.
RepliesSound ==
  /\ \A p \in replied :
       /\ \E r \in executed : r.launch = p.got /\ r.kernel = p.kernel
       /\ p.kernel \notin shared => p.got = p.waited
  /\ \A p, q \in replied : p.got = q.got => p = q

\* The flight counter of an open connection, which a restart waits for and workers
\* are chosen by, is what was sent and has not come back, and every packet that was
\* dropped on the way: those stay counted for as long as the connection lives.
InFlightExact ==
  \A c \in Conns : conn[c].active =>
    conn[c].inFlight = Len(txq[c]) + Len(toWorker[c]) + Len(toMaster[c]) + conn[c].lost
=============================================================================

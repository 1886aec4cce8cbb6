----------------------------- MODULE ClaimProver -----------------------------
(***************************************************************************)
(* The prover service of the migration claim                               *)
(* (src/packages/migration-claim/sp1/prover-api): HTTP handlers that admit *)
(* requests through two rate limiters and a cache, the bounded queue they  *)
(* put them on, the dispatcher and its semaphore, the blocking proofs with *)
(* their timeout, and the cleanup tasks.  Threads interleave between any   *)
(* two steps that take a lock, touch an atomic or await; everything is in  *)
(* memory, so that a restart forgets it.                                   *)
(*                                                                         *)
(* A call is one run of submit_job together with the job id it draws.  A   *)
(* proof is named by the request it was made for.                          *)
(***************************************************************************)
EXTENDS Integers, Sequences, FiniteSets, Functions

CONSTANTS MaxCalls,     \* bound: how many times submit_job is called
          Requests,     \* what can be asked: account, recipient, amount, challenge
          Eligible,     \* the requests that pass validation, eligibility and signature
          PubkeyOf(_),  \* the account a request claims for
          Ips,          \* client addresses
          IpWindow, IpMax, KeyWindow, KeyMax,  \* the two rate limits
          CacheTtl, JobsTtl,                   \* cache_ttl_seconds, jobs_ttl_seconds
          Capacity,     \* queue_capacity
          Workers,      \* worker_count
          Wrap,         \* 2^64: where usize wraps
          MaxTime,      \* bound: where the clock stops
          ProvedCalls,  \* bound: only the first of the calls get past the limiters,
          ProvedTime    \* bound: and only up to this time

None == "none"
NoJob == 0

\* The calls, numbered as they come in.
Calls == 1 .. MaxCalls
Pubkeys == {PubkeyOf(r) : r \in Requests}

ASSUME ProverAssumption ==
  /\ MaxCalls \in Nat
  /\ Eligible \subseteq Requests /\ None \notin Requests
  /\ Ips \cap Pubkeys = {}
  /\ {IpWindow, KeyWindow, IpMax, KeyMax, Capacity, Workers} \subseteq Nat \ {0}
  /\ {CacheTtl, JobsTtl, MaxTime, ProvedCalls, ProvedTime} \subseteq Nat
  /\ Wrap \in Nat /\ Wrap > Capacity + 1 /\ Wrap > MaxCalls

VARIABLES now,        \* now_ts()
          limits,     \* ip_rate_limits and rate_limits: start of the window, count
          cache,      \* proofs by cache key, with created_at
          jobs,       \* status and updated_at by job id
          channel,    \* the mpsc channel: job ids of the messages in it
          queueSize,  \* the shared counter queue_size
          permits,    \* free permits of the semaphore
          timedOut,   \* metrics.timed_out_still_running
          dispatcher, \* the message the dispatcher holds, and where it is with it
          asked,      \* the request of a call that was let in
          handler,    \* where the handler of a call is
          task,       \* where process_job of a call is
          admitted    \* history: how many requests a limiter let through, by second

memory == <<limits, cache, jobs, channel, queueSize, permits, timedOut, dispatcher>>
vars == <<now, memory, asked, handler, task, admitted>>

Idle == [job |-> NoJob, at |-> "recv"]
NoEntry == [status |-> None, proof |-> None, at |-> 0]
NoProof == [proof |-> None, at |-> 0]
NoLimit == [start |-> 0, count |-> 0]
Finished == {"Completed", "Failed"}

\* Where a blocking task holds a permit, and where it is past its timeout.
Working == {"spawned", "proving", "cached", "overdue", "cachedLate"}
Late == {"overdue", "cachedLate"}

-----------------------------------------------------------------------------
Init ==
  /\ now = 0
  /\ limits = [k \in Ips \cup Pubkeys |-> NoLimit]
  /\ cache = [r \in Requests |-> NoProof]
  /\ jobs = [c \in Calls |-> NoEntry]
  /\ channel = <<>>
  /\ queueSize = 0
  /\ permits = Workers
  /\ timedOut = 0
  /\ dispatcher = Idle
  /\ asked = [c \in Calls |-> None]
  /\ handler = [c \in Calls |-> "new"]
  /\ task = [c \in Calls |-> None]
  /\ admitted = [k \in Ips \cup Pubkeys |-> [t \in 0 .. MaxTime |-> 0]]

\* Nothing happened yet beyond the two limiters: their windows take more calls and
\* a longer time to explore than what comes after them.
OnlyLimited == \A c \in Calls : handler[c] \in {"new", "admitted", "refused", "lost"}

Tick ==
  /\ now < MaxTime
  /\ OnlyLimited \/ now < ProvedTime
  /\ now' = now + 1
  /\ UNCHANGED <<memory, asked, handler, task, admitted>>

-----------------------------------------------------------------------------
(* Rate limiting: a window that starts with a request and counts to max.   *)

Elapsed(e, window) == e.count = 0 \/ now - e.start >= window

Limited(k, window, max) ==
  ~Elapsed(limits[k], window) /\ limits[k].count >= max

\* What check_and_update leaves for the key.
Counted(k, window, max) ==
  IF Elapsed(limits[k], window) THEN [start |-> now, count |-> 1]
  ELSE IF Limited(k, window, max) THEN limits[k]
  ELSE [limits[k] EXCEPT !.count = @ + 1]

\* Keeps the stale entries and forgets the others.
FaultyLimitsCleanup ==
  /\ limits' = [k \in DOMAIN limits |->
                 IF limits[k].start > now - 2 * (IF k \in Ips THEN IpWindow ELSE KeyWindow)
                 THEN NoLimit ELSE limits[k]]
  /\ UNCHANGED <<now, cache, jobs, channel, queueSize, permits, timedOut, dispatcher,
                 asked, handler, task, admitted>>

\* cleanup of both limiters: an entry goes when two windows have passed since it began.
LimitsCleanup ==
  /\ limits' = [k \in DOMAIN limits |->
                 IF limits[k].start > now - 2 * (IF k \in Ips THEN IpWindow ELSE KeyWindow)
                 THEN limits[k] ELSE NoLimit]
  /\ UNCHANGED <<now, cache, jobs, channel, queueSize, permits, timedOut, dispatcher,
                 asked, handler, task, admitted>>

\* submit_job up to the second limiter.  A refused request ends the call.
Admit(c, r, ip) ==
  LET key == PubkeyOf(r)
      toKey == ~Limited(ip, IpWindow, IpMax) /\ r \in Eligible
      passed == toKey /\ ~Limited(key, KeyWindow, KeyMax)
      through == (IF Limited(ip, IpWindow, IpMax) THEN {} ELSE {ip})
                   \cup (IF passed THEN {key} ELSE {})
  IN
  /\ handler[c] = "new" /\ \A d \in 1 .. c - 1 : handler[d] # "new"
  /\ OnlyLimited \/ c <= ProvedCalls
  /\ asked' = [asked EXCEPT ![c] = IF passed THEN r ELSE None]
  /\ limits' = [limits EXCEPT ![ip] = Counted(ip, IpWindow, IpMax),
                              ![key] = IF toKey THEN Counted(key, KeyWindow, KeyMax) ELSE @]
  /\ admitted' = [k \in DOMAIN admitted |->
                   IF k \in through THEN [admitted[k] EXCEPT ![now] = @ + 1] ELSE admitted[k]]
  /\ handler' = [handler EXCEPT ![c] = IF passed THEN "admitted" ELSE "refused"]
  /\ UNCHANGED <<now, cache, jobs, channel, queueSize, permits, timedOut, dispatcher, task>>

-----------------------------------------------------------------------------
(* The cache and the check on the chain.                                   *)

\* Names the account only.
FaultyCacheKey(r) == CHOOSE q \in Requests : PubkeyOf(q) = PubkeyOf(r)

\* cache_key joins everything asked for except the signature.
CacheKey(r) == r

Expired(e) == now - e.at > CacheTtl

Hit(r) == cache[CacheKey(r)].proof # None /\ ~Expired(cache[CacheKey(r)])

\* A hit is answered with a job that is Completed from the start.
LookUp(c) ==
  /\ handler[c] = "admitted"
  /\ now <= ProvedTime /\ \A d \in Calls : handler[d] # "new" => d <= ProvedCalls
  /\ \/ /\ Hit(asked[c])
        /\ jobs' = [jobs EXCEPT ![c] = [status |-> "Completed", at |-> now,
                                        proof |-> cache[CacheKey(asked[c])].proof]]
        /\ handler' = [handler EXCEPT ![c] = "replied"]
     \/ /\ ~Hit(asked[c])
        /\ handler' = [handler EXCEPT ![c] = "missed"]
        /\ UNCHANGED jobs
  /\ UNCHANGED <<now, limits, cache, channel, queueSize, permits, timedOut, dispatcher,
                 asked, task, admitted>>

\* claimed(pubkey) on the chain: claimed or no answer refuses the call.
CheckClaimed(c) ==
  /\ handler[c] = "missed"
  /\ \E answer \in {"unclaimed", "refused"} :
       handler' = [handler EXCEPT ![c] = answer]
  /\ UNCHANGED <<now, memory, asked, task, admitted>>

CacheCleanup ==
  /\ cache' = [r \in Requests |-> IF Expired(cache[r]) THEN NoProof ELSE cache[r]]
  /\ UNCHANGED <<now, limits, jobs, channel, queueSize, permits, timedOut, dispatcher,
                 asked, handler, task, admitted>>

-----------------------------------------------------------------------------
(* JobQueue::try_enqueue, then the entry of the job: four steps that the   *)
(* dispatcher and the workers may come between.                            *)

LoadSize(c) ==
  /\ handler[c] = "unclaimed"
  /\ handler' = [handler EXCEPT ![c] = IF queueSize >= Capacity THEN "full" ELSE "sending"]
  /\ UNCHANGED <<now, memory, asked, task, admitted>>

TrySend(c) ==
  /\ handler[c] = "sending"
  /\ \/ /\ Len(channel) < Capacity
        /\ channel' = Append(channel, c)
        /\ handler' = [handler EXCEPT ![c] = "sent"]
     \/ /\ Len(channel) >= Capacity
        /\ handler' = [handler EXCEPT ![c] = "full"]
        /\ UNCHANGED channel
  /\ UNCHANGED <<now, limits, cache, jobs, queueSize, permits, timedOut, dispatcher,
                 asked, task, admitted>>

CountSent(c) ==
  /\ handler[c] = "sent"
  /\ queueSize' = (queueSize + 1) % Wrap
  /\ handler' = [handler EXCEPT ![c] = "counted"]
  /\ UNCHANGED <<now, limits, cache, jobs, channel, permits, timedOut, dispatcher,
                 asked, task, admitted>>

InsertPending(c) ==
  /\ handler[c] = "counted"
  /\ jobs' = [jobs EXCEPT ![c] = [status |-> "Pending", proof |-> None, at |-> now]]
  /\ handler' = [handler EXCEPT ![c] = "replied"]
  /\ UNCHANGED <<now, limits, cache, channel, queueSize, permits, timedOut, dispatcher,
                 asked, task, admitted>>

-----------------------------------------------------------------------------
(* The dispatcher of WorkerPool::start.                                    *)

Receive ==
  /\ dispatcher = Idle
  /\ channel # <<>>
  /\ channel' = Tail(channel)
  /\ dispatcher' = [job |-> Head(channel), at |-> "received"]
  /\ UNCHANGED <<now, limits, cache, jobs, queueSize, permits, timedOut, asked, handler,
                 task, admitted>>

\* Saturates.
FaultyCountReceived ==
  /\ dispatcher.at = "received"
  /\ queueSize' = IF queueSize = 0 THEN 0 ELSE queueSize - 1
  /\ dispatcher' = [dispatcher EXCEPT !.at = "acquire"]
  /\ UNCHANGED <<now, limits, cache, jobs, channel, permits, timedOut, asked, handler,
                 task, admitted>>

\* fetch_sub wraps when it overtakes the sender's fetch_add.
CountReceived ==
  /\ dispatcher.at = "received"
  /\ queueSize' = (queueSize - 1) % Wrap
  /\ dispatcher' = [dispatcher EXCEPT !.at = "acquire"]
  /\ UNCHANGED <<now, limits, cache, jobs, channel, permits, timedOut, asked, handler,
                 task, admitted>>

Spawn ==
  /\ dispatcher.at = "acquire"
  /\ permits > 0
  /\ permits' = permits - 1
  /\ task' = [task EXCEPT ![dispatcher.job] = "spawned"]
  /\ dispatcher' = Idle
  /\ UNCHANGED <<now, limits, cache, jobs, channel, queueSize, timedOut, asked, handler,
                 admitted>>

-----------------------------------------------------------------------------
(* process_job.  The blocking proof cannot be cancelled: after a timeout   *)
(* its permit stays taken until it ends.                                   *)

FaultyUpdated(c, status, proof) ==
  [jobs EXCEPT ![c] = [status |-> status, proof |-> proof, at |-> now]]

\* update_job: nothing happens to a job that has no entry.
Updated(c, status, proof) ==
  IF jobs[c].status = None THEN jobs
  ELSE [jobs EXCEPT ![c] = [status |-> status, proof |-> proof, at |-> now]]

Run(c) ==
  /\ task[c] = "spawned"
  /\ jobs' = Updated(c, "Running", None)
  /\ task' = [task EXCEPT ![c] = "proving"]
  /\ UNCHANGED <<now, limits, cache, channel, queueSize, permits, timedOut, dispatcher,
                 asked, handler, admitted>>

\* Gives the permit back while the proof goes on.
FaultyTimeOut(c) ==
  /\ task[c] = "proving"
  /\ timedOut' = timedOut + 1
  /\ permits' = permits + 1
  /\ jobs' = Updated(c, "Failed", None)
  /\ task' = [task EXCEPT ![c] = "overdue"]
  /\ UNCHANGED <<now, limits, cache, channel, queueSize, dispatcher, asked, handler,
                 admitted>>

TimeOut(c) ==
  /\ task[c] = "proving"
  /\ timedOut' = timedOut + 1
  /\ jobs' = Updated(c, "Failed", None)
  /\ task' = [task EXCEPT ![c] = "overdue"]
  /\ UNCHANGED <<now, limits, cache, channel, queueSize, permits, dispatcher, asked,
                 handler, admitted>>

\* generate_proof returns a proof, in time or after the timeout: it is cached first.
Prove(c) ==
  /\ task[c] \in {"proving", "overdue"}
  /\ cache' = [cache EXCEPT ![CacheKey(asked[c])] = [proof |-> asked[c], at |-> now]]
  /\ task' = [task EXCEPT ![c] = IF @ = "proving" THEN "cached" ELSE "cachedLate"]
  /\ UNCHANGED <<now, limits, jobs, channel, queueSize, permits, timedOut, dispatcher,
                 asked, handler, admitted>>

\* The end of process_job: the metric of a late task, and the permit.
End(c) ==
  /\ timedOut' = IF task[c] \in Late THEN timedOut - 1 ELSE timedOut
  /\ permits' = permits + 1
  /\ task' = [task EXCEPT ![c] = "done"]
  /\ UNCHANGED <<now, limits, cache, channel, queueSize, dispatcher, asked, handler, admitted>>

Publish(c) ==
  /\ task[c] \in {"cached", "cachedLate"}
  /\ jobs' = Updated(c, "Completed", asked[c])
  /\ End(c)

\* A panic ends the task before the status is written.
FaultyFail(c) ==
  /\ task[c] \in {"proving", "overdue"}
  /\ UNCHANGED jobs
  /\ End(c)

\* generate_proof returns an error or panics.
Fail(c) ==
  /\ task[c] \in {"proving", "overdue"}
  /\ jobs' = Updated(c, "Failed", None)
  /\ End(c)

\* JobManager::cleanup: only finished jobs, once they are old enough.
JobsCleanup ==
  /\ jobs' = [c \in Calls |->
               IF jobs[c].status \in Finished /\ now - jobs[c].at >= JobsTtl
               THEN NoEntry ELSE jobs[c]]
  /\ UNCHANGED <<now, limits, cache, channel, queueSize, permits, timedOut, dispatcher,
                 asked, handler, task, admitted>>

\* The process dies and starts again: memory is new, calls and proofs are gone.
Restart ==
  /\ limits' = [k \in Ips \cup Pubkeys |-> NoLimit]
  /\ cache' = [r \in Requests |-> NoProof]
  /\ jobs' = [c \in Calls |-> NoEntry]
  /\ channel' = <<>>
  /\ queueSize' = 0
  /\ permits' = Workers
  /\ timedOut' = 0
  /\ dispatcher' = Idle
  /\ handler' = [c \in Calls |-> IF handler[c] = "new" THEN "new" ELSE "lost"]
  /\ task' = [c \in Calls |-> None]
  /\ admitted' = [k \in DOMAIN admitted |-> [t \in 0 .. MaxTime |-> 0]]
  /\ asked' = [c \in Calls |-> None]
  /\ UNCHANGED now

\* The client goes away: the handler is dropped where it waits for a lock or an
\* answer, and what it has sent stays sent.
Disconnect(c) ==
  /\ handler[c] \in {"admitted", "missed", "counted"}
  /\ handler' = [handler EXCEPT ![c] = "gone"]
  /\ UNCHANGED <<now, memory, asked, task, admitted>>

-----------------------------------------------------------------------------
HandlerStep(c) ==
  \/ LookUp(c) \/ CheckClaimed(c) \/ LoadSize(c) \/ TrySend(c) \/ CountSent(c)
  \/ InsertPending(c)
Dispatch == Receive \/ CountReceived \/ Spawn
Finish(c) == Prove(c) \/ Fail(c) \/ Publish(c)
Cleanup == LimitsCleanup \/ CacheCleanup \/ JobsCleanup

Next ==
  \/ Tick
  \/ \E c \in Calls, r \in Requests, ip \in Ips : Admit(c, r, ip)
  \/ \E c \in Calls : HandlerStep(c) \/ Disconnect(c) \/ Run(c) \/ TimeOut(c) \/ Finish(c)
  \/ Dispatch
  \/ Cleanup
  \/ Restart

\* The runtime polls tasks that can go on, and the proof computation ends.
Fairness ==
  /\ WF_vars(Dispatch)
  /\ \A c \in Calls : WF_vars(Run(c) \/ Finish(c))

Spec == Init /\ [][Next]_vars
FairSpec == Spec /\ Fairness

-----------------------------------------------------------------------------
TypeOK ==
  /\ now \in 0 .. MaxTime
  /\ limits \in [Ips \cup Pubkeys -> [start : Nat, count : Nat]]
  /\ cache \in [Requests -> [proof : Requests \cup {None}, at : Nat]]
  /\ jobs \in [Calls -> [status : Finished \cup {None, "Pending", "Running"},
                         proof : Requests \cup {None}, at : Nat]]
  /\ channel \in Seq(Calls)
  /\ queueSize \in 0 .. Wrap - 1
  /\ permits \in Nat
  /\ timedOut \in Int
  /\ dispatcher \in [job : Calls \cup {NoJob}, at : {"recv", "received", "acquire"}]
  /\ dispatcher.at = "recv" <=> dispatcher.job = NoJob
  /\ asked \in [Calls -> Requests \cup {None}]
  /\ handler \in [Calls -> {"new", "admitted", "refused", "missed", "unclaimed", "full",
                            "sending", "sent", "counted", "replied", "gone",
                            "lost"}]
  /\ task \in [Calls -> Working \cup {None, "done"}]
  /\ admitted \in [Ips \cup Pubkeys -> [0 .. MaxTime -> Nat]]

\* Never more proofs in the making than workers, those past their timeout
\* included, and the health answer counts exactly these: a timeout frees no
\* permit, and every way a late proof ends gives back one permit and one count
\* (queue.rs:114-116, 261-268).
WorkersBounded ==
  /\ Cardinality({c \in Calls : task[c] \in Working}) + permits = Workers
  /\ timedOut = Cardinality({c \in Calls : task[c] \in Late})

\* The counter of the queue differs from what is in the channel by the messages
\* sent and not yet counted, and by the one received and not yet discounted, so
\* that it is exact again when no thread is between the two (queue.rs:42-61, 119-120).
QueueCountExact ==
  LET uncounted == Cardinality({c \in Calls : handler[c] = "sent"})
      received == IF dispatcher.at = "received" THEN 1 ELSE 0
  IN queueSize = (Len(channel) + received - uncounted) % Wrap

\* A job that is Completed carries the proof of what its own caller asked for,
\* and never of a request that failed the checks, whether it was proved for this
\* job, for another one or before its entry was cleaned (handlers.rs:158-177).
OwnProof ==
  \A c \in Calls : jobs[c].status = "Completed" =>
    jobs[c].proof = asked[c] /\ asked[c] \in Eligible

\* Between two restarts no client address and no account gets more than
\* 2 * max - 1 requests through in any span as long as its window: the windows
\* are fixed and do not slide, and the cleanup forgets none that still counts
\* (rate_limit.rs:38-85).
RateBound ==
  LET Span(t, window) == {s \in t .. MaxTime : s < t + window}
      Through(k, t, window) == SumFunctionOnSet(admitted[k], Span(t, window))
      Bound(window, max) == IF window = 1 THEN max ELSE 2 * max - 1
  IN \A t \in 0 .. MaxTime :
       /\ \A k \in Ips : Through(k, t, IpWindow) <= Bound(IpWindow, IpMax)
       /\ \A k \in Pubkeys : Through(k, t, KeyWindow) <= Bound(KeyWindow, KeyMax)

\* A result is final: once a client may have read Completed it reads that until
\* the entry is cleaned or the process restarts, whatever the timeout, a late
\* proof and the handler's own insertion do (queue.rs:336-342, handlers.rs:240-245).
CompletedIsFinal ==
  [][\A c \in Calls : jobs[c].status = "Completed" =>
       jobs'[c].status \in {"Completed", None}]_jobs

\* A job whose entry was there before its message was taken from the queue is
\* answered, or the process restarts: the queue drains and no timeout, error or
\* waiting for a permit leaves it Pending or Running (queue.rs:119-142, 191-331).
QueuedIsAnswered ==
  \A c \in Calls :
    (jobs[c].status = "Pending" /\ \E i \in DOMAIN channel : channel[i] = c)
      ~> (jobs[c].status \in Finished \/ handler[c] = "lost")
=============================================================================

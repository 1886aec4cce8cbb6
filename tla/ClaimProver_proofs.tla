-------------------------- MODULE ClaimProver_proofs --------------------------
(***************************************************************************)
(* Proofs about ClaimProver, for any number of calls, requests, clients,   *)
(* workers, limits and bounds: the permits of the workers, whose proof a   *)
(* job carries, that a completed job stays completed, and the bound on     *)
(* what the limiters let through.  The first three rest on where a call    *)
(* can be: on its way through the handler, in the channel, with the        *)
(* dispatcher or with a worker, one after the other.  The last rests on    *)
(* LimitsKept, what a key's window remembers of the admissions so far.     *)
(***************************************************************************)
EXTENDS ClaimProver, FunctionSums

-----------------------------------------------------------------------------
HandlerStates == {"new", "admitted", "refused", "missed", "unclaimed", "full",
                  "sending", "sent", "counted", "replied", "gone", "lost"}

\* The message of the call has been sent.
Engaged == {"sent", "counted", "replied", "gone"}

Entries == [status : Finished \cup {None, "Pending", "Running"},
            proof : Requests \cup {None}, at : Nat]

HandlerTyped ==
  /\ now \in 0 .. MaxTime
  /\ asked \in [Calls -> Requests \cup {None}]
  /\ handler \in [Calls -> HandlerStates]

StoreTyped ==
  /\ cache \in [Requests -> [proof : Requests \cup {None}, at : Nat]]
  /\ jobs \in [Calls -> Entries]

QueueTyped ==
  /\ channel \in Seq(Calls)
  /\ dispatcher \in [job : Calls \cup {NoJob}, at : {"recv", "received", "acquire"}]
  /\ dispatcher.at = "recv" <=> dispatcher.job = NoJob

WorkTyped ==
  /\ permits \in Nat
  /\ timedOut \in Int
  /\ task \in [Calls -> Working \cup {None, "done"}]

Typed == HandlerTyped /\ StoreTyped /\ QueueTyped /\ WorkTyped

\* A message is in one place: what is in the channel is there once, is not with
\* the dispatcher, and neither has a worker yet.
Flow ==
  /\ \A i \in DOMAIN channel :
       /\ task[channel[i]] = None /\ handler[channel[i]] \in Engaged
       /\ channel[i] # dispatcher.job
  /\ \A i, j \in DOMAIN channel : channel[i] = channel[j] => i = j
  /\ dispatcher.job # NoJob =>
       task[dispatcher.job] = None /\ handler[dispatcher.job] \in Engaged
  /\ \A c \in Calls : task[c] # None => handler[c] \in Engaged

\* Whoever got past the first checks asked for something it may have, and the
\* cache holds nothing else.
Checked ==
  /\ \A c \in Calls : handler[c] \notin {"new", "refused", "lost"} => asked[c] \in Eligible
  /\ \A r \in Requests : cache[r].proof # None => cache[r].proof = r /\ r \in Eligible

\* The entry of a job appears with the answer to its caller.
EntryAtReply == \A c \in Calls : handler[c] # "replied" => jobs[c].status = None

\* Nothing is left to be done for a completed job.
DoneIsDone ==
  \A c \in Calls : jobs[c].status = "Completed" =>
    /\ task[c] \in {None, "done"}
    /\ c # dispatcher.job
    /\ \A i \in DOMAIN channel : channel[i] # c

Inv == Typed /\ Flow /\ Checked /\ EntryAtReply /\ DoneIsDone /\ OwnProof

-----------------------------------------------------------------------------
\* A step that changes nothing the invariant is about.
Quiet == UNCHANGED <<cache, jobs, channel, permits, timedOut, dispatcher, asked, handler, task>>

LEMMA InvInit == Init => Inv
<1> SUFFICES ASSUME Init PROVE Inv
  OBVIOUS
<1>1. HandlerTyped /\ QueueTyped
  BY ProverAssumption DEF Init, HandlerTyped, QueueTyped, HandlerStates, Idle, NoJob
<1>2. StoreTyped
  BY DEF Init, StoreTyped, Entries, NoProof, NoEntry
<1>3. WorkTyped
  BY ProverAssumption DEF Init, WorkTyped
<1>4. Flow
  BY DEF Init, Flow, Idle
<1>5. Checked /\ EntryAtReply /\ DoneIsDone /\ OwnProof
  BY DEF Init, Checked, EntryAtReply, DoneIsDone, OwnProof, NoProof, NoEntry, None
<1> QED
  BY <1>1, <1>2, <1>3, <1>4, <1>5 DEF Inv, Typed

LEMMA InvQuiet ==
  ASSUME Inv, Quiet, now' \in 0 .. MaxTime
  PROVE  Inv'
<1>1. HandlerTyped' /\ StoreTyped' /\ QueueTyped' /\ WorkTyped'
  BY DEF Inv, Typed, Quiet, HandlerTyped, StoreTyped, QueueTyped, WorkTyped
<1>2. Flow' /\ Checked' /\ EntryAtReply' /\ DoneIsDone' /\ OwnProof'
  BY DEF Inv, Quiet, Flow, Checked, EntryAtReply, DoneIsDone, OwnProof
<1> QED
  BY <1>1, <1>2 DEF Inv, Typed

-----------------------------------------------------------------------------
(* The handlers.                                                           *)

LEMMA InvAdmit ==
  ASSUME Inv, NEW c \in Calls, NEW r \in Requests, NEW ip \in Ips, Admit(c, r, ip)
  PROVE  Inv'
<1>1. handler[c] = "new" /\ UNCHANGED <<now, cache, jobs, channel, permits, timedOut, dispatcher, task>>
  BY DEF Admit
<1>2. asked' = [asked EXCEPT ![c] = r] \/ asked' = [asked EXCEPT ![c] = None]
  BY DEF Admit
<1>3. \/ /\ handler' = [handler EXCEPT ![c] = "admitted"]
         /\ asked' = [asked EXCEPT ![c] = r] /\ r \in Eligible
      \/ handler' = [handler EXCEPT ![c] = "refused"]
  BY DEF Admit
<1>4. HandlerTyped'
  BY <1>1, <1>2, <1>3 DEF Inv, Typed, HandlerTyped, HandlerStates
<1>5. StoreTyped' /\ QueueTyped' /\ WorkTyped'
  BY <1>1 DEF Inv, Typed, StoreTyped, QueueTyped, WorkTyped
<1>6. Flow'
  BY <1>1, <1>3, <1>4 DEF Inv, Typed, Flow, Engaged, HandlerTyped, QueueTyped, NoJob
<1>7. Checked'
  BY <1>1, <1>2, <1>3 DEF Inv, Typed, HandlerTyped, Checked
<1>8. EntryAtReply' /\ DoneIsDone'
  BY <1>1, <1>3 DEF Inv, Typed, HandlerTyped, EntryAtReply, DoneIsDone
<1>9. OwnProof'
  BY <1>1, <1>2 DEF Inv, Typed, HandlerTyped, EntryAtReply, OwnProof, None
<1> QED
  BY <1>4, <1>5, <1>6, <1>7, <1>8, <1>9 DEF Inv, Typed

\* Steps of a handler that only move it on, out of a state it left nothing in.
LEMMA InvMove ==
  ASSUME Inv, NEW c \in Calls, NEW to \in HandlerStates \ {"new", "refused", "replied", "lost"},
         handler[c] \notin {"new", "refused", "replied", "lost"},
         handler[c] \in Engaged => to \in Engaged,
         handler' = [handler EXCEPT ![c] = to],
         UNCHANGED <<now, cache, jobs, channel, permits, timedOut, dispatcher, asked, task>>
  PROVE  Inv'
<1>1. HandlerTyped' /\ StoreTyped' /\ QueueTyped' /\ WorkTyped'
  BY DEF Inv, Typed, HandlerTyped, StoreTyped, QueueTyped, WorkTyped
<1>2. Flow'
  BY DEF Inv, Typed, Flow, HandlerTyped, QueueTyped, NoJob
<1>3. Checked' /\ EntryAtReply'
  BY DEF Inv, Typed, HandlerTyped, Checked, EntryAtReply
<1>4. DoneIsDone' /\ OwnProof'
  BY DEF Inv, DoneIsDone, OwnProof
<1> QED
  BY <1>1, <1>2, <1>3, <1>4 DEF Inv, Typed

\* The entry of a call is written by its own handler, with the answer.
LEMMA InvReply ==
  ASSUME Inv, NEW c \in Calls, NEW e \in Entries,
         handler[c] \in {"admitted", "counted"},
         e.status = "Completed" => e.proof = asked[c] /\ handler[c] = "admitted",
         jobs' = [jobs EXCEPT ![c] = e],
         handler' = [handler EXCEPT ![c] = "replied"],
         UNCHANGED <<now, cache, channel, permits, timedOut, dispatcher, asked, task>>
  PROVE  Inv'
<1>1. HandlerTyped' /\ StoreTyped' /\ QueueTyped' /\ WorkTyped'
  BY DEF Inv, Typed, HandlerTyped, StoreTyped, QueueTyped, WorkTyped, HandlerStates
<1>2. Flow'
  BY DEF Inv, Typed, Flow, HandlerTyped, QueueTyped, NoJob, Engaged
<1>3. Checked' /\ EntryAtReply' /\ OwnProof'
  BY DEF Inv, Typed, HandlerTyped, StoreTyped, Checked, EntryAtReply, OwnProof
<1>4. DoneIsDone'
  <2>1. handler[c] = "admitted" =>
          task[c] = None /\ c # dispatcher.job /\ \A i \in DOMAIN channel : channel[i] # c
    BY ProverAssumption DEF Inv, Typed, Flow, Engaged, Calls, NoJob
  <2> QED
    BY <2>1 DEF Inv, Typed, StoreTyped, DoneIsDone
<1> QED
  BY <1>1, <1>2, <1>3, <1>4 DEF Inv, Typed

LEMMA InvLookUp ==
  ASSUME Inv, NEW c \in Calls, LookUp(c)
  PROVE  Inv'
<1>1. now \in Nat /\ asked[c] \in Requests
  BY ProverAssumption DEF Inv, Typed, HandlerTyped, LookUp, Checked
<1>2. CASE Hit(asked[c])
  <2> DEFINE e == [status |-> "Completed", at |-> now, proof |-> cache[asked[c]].proof]
  <2>1. e.proof = asked[c]
    BY <1>1, <1>2 DEF Inv, Checked, Hit, CacheKey
  <2>2. e \in Entries
    BY <1>1, <2>1 DEF Entries, Finished
  <2>3. /\ jobs' = [jobs EXCEPT ![c] = e]
        /\ handler[c] = "admitted"
        /\ handler' = [handler EXCEPT ![c] = "replied"]
        /\ UNCHANGED <<now, cache, channel, permits, timedOut, dispatcher, asked, task>>
    BY <1>2 DEF LookUp, CacheKey
  <2> QED
    BY <2>1, <2>2, <2>3, InvReply
<1>3. CASE ~Hit(asked[c])
  BY <1>3, InvMove DEF LookUp, HandlerStates, Engaged
<1> QED
  BY <1>2, <1>3

LEMMA InvTrySend ==
  ASSUME Inv, NEW c \in Calls, TrySend(c)
  PROVE  Inv'
<1>1. CASE Len(channel) >= Capacity
  <2>1. Len(channel) \in Nat /\ Capacity \in Nat
    BY ProverAssumption DEF Inv, Typed, QueueTyped
  <2> QED
    BY <1>1, <2>1, InvMove DEF TrySend, HandlerStates, Engaged
<1>2. CASE ~(Len(channel) >= Capacity)
  <2>1. /\ handler[c] = "sending"
        /\ channel' = Append(channel, c)
        /\ handler' = [handler EXCEPT ![c] = "sent"]
        /\ UNCHANGED <<now, cache, jobs, permits, timedOut, dispatcher, asked, task>>
    BY <1>2 DEF TrySend
  <2>2. task[c] = None /\ c # dispatcher.job /\ \A i \in DOMAIN channel : channel[i] # c
    <3>1. handler[c] \notin Engaged /\ c # NoJob
      BY <2>1, ProverAssumption DEF Engaged, Calls, NoJob
    <3>2. task[c] = None
      BY <3>1 DEF Inv, Flow
    <3>3. c # dispatcher.job
      BY <3>1 DEF Inv, Flow
    <3>4. \A i \in DOMAIN channel : channel[i] # c
      BY <3>1 DEF Inv, Flow
    <3> QED
      BY <3>2, <3>3, <3>4
  <2>3. /\ channel \in Seq(Calls) /\ channel' \in Seq(Calls)
        /\ DOMAIN channel' = DOMAIN channel \cup {Len(channel) + 1}
        /\ channel'[Len(channel) + 1] = c
        /\ \A i \in DOMAIN channel : channel'[i] = channel[i] /\ channel[i] \in Calls
    BY <2>1 DEF Inv, Typed, QueueTyped
  <2>4. HandlerTyped' /\ StoreTyped' /\ QueueTyped' /\ WorkTyped'
    BY <2>1, <2>3 DEF Inv, Typed, HandlerTyped, StoreTyped, QueueTyped, WorkTyped, HandlerStates
  <2>5. Flow'
    <3>1. handler' \in [Calls -> HandlerStates] /\ handler'[c] = "sent"
          /\ \A d \in Calls \ {c} : handler'[d] = handler[d]
      BY <2>1, <2>4 DEF Inv, Typed, HandlerTyped
    <3>2. \A i \in DOMAIN channel' :
            /\ task'[channel'[i]] = None /\ handler'[channel'[i]] \in Engaged
            /\ channel'[i] # dispatcher'.job
      BY <2>1, <2>2, <2>3, <3>1 DEF Inv, Flow, Engaged
    <3>3. \A i, j \in DOMAIN channel' : channel'[i] = channel'[j] => i = j
      BY <2>2, <2>3 DEF Inv, Flow
    <3>4. dispatcher'.job # NoJob =>
            task'[dispatcher'.job] = None /\ handler'[dispatcher'.job] \in Engaged
      BY <2>1, <2>2, <3>1 DEF Inv, Typed, QueueTyped, Flow
    <3>5. \A d \in Calls : task'[d] # None => handler'[d] \in Engaged
      BY <2>1, <3>1 DEF Inv, Flow, Engaged
    <3> QED
      BY <3>2, <3>3, <3>4, <3>5 DEF Flow
  <2>6. Checked' /\ EntryAtReply' /\ OwnProof'
    BY <2>1 DEF Inv, Typed, HandlerTyped, StoreTyped, Checked, EntryAtReply, OwnProof
  <2>7. DoneIsDone'
    <3>1. jobs[c].status = None
      BY <2>1 DEF Inv, EntryAtReply
    <3> QED
      BY <2>1, <2>3, <3>1 DEF Inv, DoneIsDone, None
  <2> QED
    BY <2>4, <2>5, <2>6, <2>7 DEF Inv, Typed
<1> QED
  BY <1>1, <1>2

LEMMA InvRefuse ==
  ASSUME Inv, NEW c \in Calls, handler[c] = "missed",
         handler' = [handler EXCEPT ![c] = "refused"],
         UNCHANGED <<now, cache, jobs, channel, permits, timedOut, dispatcher, asked, task>>
  PROVE  Inv'
<1>1. HandlerTyped' /\ StoreTyped' /\ QueueTyped' /\ WorkTyped'
  BY DEF Inv, Typed, HandlerTyped, StoreTyped, QueueTyped, WorkTyped, HandlerStates
<1>2. Flow'
  BY DEF Inv, Typed, Flow, HandlerTyped, QueueTyped, NoJob, Engaged
<1>3. Checked' /\ EntryAtReply'
  BY DEF Inv, Typed, HandlerTyped, Checked, EntryAtReply
<1>4. DoneIsDone' /\ OwnProof'
  BY DEF Inv, DoneIsDone, OwnProof
<1> QED
  BY <1>1, <1>2, <1>3, <1>4 DEF Inv, Typed

LEMMA InvHandler ==
  ASSUME Inv, NEW c \in Calls, HandlerStep(c) \/ Disconnect(c)
  PROVE  Inv'
<1>1. CASE LookUp(c)
  BY <1>1, InvLookUp
<1>2. CASE CheckClaimed(c)
  <2>1. CASE handler' = [handler EXCEPT ![c] = "unclaimed"]
    BY <1>2, <2>1, InvMove DEF CheckClaimed, HandlerStates, Engaged, memory
  <2>2. CASE handler' = [handler EXCEPT ![c] = "refused"]
    BY <1>2, <2>2, InvRefuse DEF CheckClaimed, memory
  <2> QED
    BY <1>2, <2>1, <2>2 DEF CheckClaimed
<1>3. CASE LoadSize(c)
  BY <1>3, InvMove DEF LoadSize, HandlerStates, Engaged, memory
<1>4. CASE TrySend(c)
  BY <1>4, InvTrySend
<1>5. CASE CountSent(c)
  BY <1>5, InvMove DEF CountSent, HandlerStates, Engaged
<1>6. CASE InsertPending(c)
  <2>1. now \in Nat
    BY ProverAssumption DEF Inv, Typed, HandlerTyped
  <2>2. [status |-> "Pending", proof |-> None, at |-> now] \in Entries
    BY <2>1 DEF Entries
  <2> QED
    BY <1>6, <2>2, InvReply DEF InsertPending
<1>7. CASE Disconnect(c)
  BY <1>7, InvMove DEF Disconnect, HandlerStates, Engaged, memory
<1> QED
  BY <1>1, <1>2, <1>3, <1>4, <1>5, <1>6, <1>7 DEF HandlerStep

-----------------------------------------------------------------------------
(* The dispatcher.                                                         *)

LEMMA InvReceive ==
  ASSUME Inv, Receive
  PROVE  Inv'
<1>1. /\ dispatcher = Idle /\ channel # <<>>
      /\ channel' = Tail(channel)
      /\ dispatcher' = [job |-> Head(channel), at |-> "received"]
      /\ UNCHANGED <<now, cache, jobs, permits, timedOut, asked, handler, task>>
  BY DEF Receive
<1>2. /\ channel \in Seq(Calls) /\ channel' \in Seq(Calls)
      /\ 1 \in DOMAIN channel /\ Head(channel) = channel[1] /\ Head(channel) \in Calls
      /\ \A i \in DOMAIN channel' : i + 1 \in DOMAIN channel /\ channel'[i] = channel[i + 1]
                                    /\ i \in Nat \ {0}
  BY <1>1 DEF Inv, Typed, QueueTyped
<1>3. Head(channel) # NoJob
  BY <1>2 DEF Calls, NoJob
<1>4. HandlerTyped' /\ StoreTyped' /\ QueueTyped' /\ WorkTyped'
  BY <1>1, <1>2, <1>3 DEF Inv, Typed, HandlerTyped, StoreTyped, QueueTyped, WorkTyped
<1>5. Flow'
  <2>1. \A i \in DOMAIN channel' :
          /\ task'[channel'[i]] = None /\ handler'[channel'[i]] \in Engaged
          /\ channel'[i] # dispatcher'.job
    <3> TAKE i \in DOMAIN channel'
    <3>1. i + 1 # 1 /\ channel[i + 1] # channel[1]
      BY <1>2 DEF Inv, Flow
    <3> QED
      BY <1>1, <1>2, <3>1 DEF Inv, Flow
  <2>2. \A i, j \in DOMAIN channel' : channel'[i] = channel'[j] => i = j
    <3> TAKE i, j \in DOMAIN channel'
    <3>1. channel'[i] = channel'[j] => i + 1 = j + 1
      BY <1>2 DEF Inv, Flow
    <3> QED
      BY <1>2, <3>1
  <2>3. task'[dispatcher'.job] = None /\ handler'[dispatcher'.job] \in Engaged
    BY <1>1, <1>2 DEF Inv, Flow
  <2> QED
    BY <1>1, <2>1, <2>2, <2>3 DEF Inv, Flow
<1>6. Checked' /\ EntryAtReply' /\ OwnProof'
  BY <1>1 DEF Inv, Checked, EntryAtReply, OwnProof
<1>7. DoneIsDone'
  BY <1>1, <1>2 DEF Inv, DoneIsDone
<1> QED
  BY <1>4, <1>5, <1>6, <1>7 DEF Inv, Typed

LEMMA InvCountReceived ==
  ASSUME Inv, CountReceived
  PROVE  Inv'
<1>1. /\ dispatcher.at = "received"
      /\ dispatcher' = [dispatcher EXCEPT !.at = "acquire"]
      /\ UNCHANGED <<now, cache, jobs, channel, permits, timedOut, asked, handler, task>>
  BY DEF CountReceived
<1>2. HandlerTyped' /\ StoreTyped' /\ QueueTyped' /\ WorkTyped' /\ dispatcher'.job = dispatcher.job
  BY <1>1 DEF Inv, Typed, HandlerTyped, StoreTyped, QueueTyped, WorkTyped
<1>3. Flow' /\ Checked' /\ EntryAtReply' /\ DoneIsDone' /\ OwnProof'
  BY <1>1, <1>2 DEF Inv, Flow, Checked, EntryAtReply, DoneIsDone, OwnProof
<1> QED
  BY <1>2, <1>3 DEF Inv, Typed

LEMMA InvSpawn ==
  ASSUME Inv, Spawn
  PROVE  Inv'
<1>1. /\ dispatcher.at = "acquire" /\ permits > 0
      /\ permits' = permits - 1
      /\ task' = [task EXCEPT ![dispatcher.job] = "spawned"]
      /\ dispatcher' = Idle
      /\ UNCHANGED <<now, cache, jobs, channel, timedOut, asked, handler>>
  BY DEF Spawn
<1>2. dispatcher.job \in Calls /\ dispatcher.job # NoJob
  BY <1>1 DEF Inv, Typed, QueueTyped
<1>3. HandlerTyped' /\ StoreTyped' /\ QueueTyped' /\ WorkTyped'
  BY <1>1, <1>2 DEF Inv, Typed, HandlerTyped, StoreTyped, QueueTyped, WorkTyped, Working, Idle, NoJob
<1>4. Flow'
  <2>1. \A i \in DOMAIN channel : channel[i] \in Calls
    BY DEF Inv, Typed, QueueTyped
  <2>2. \A i \in DOMAIN channel : channel[i] \in Calls /\ channel[i] # NoJob
    BY <2>1, ProverAssumption DEF Calls, NoJob
  <2> QED
    BY <1>1, <1>2, <2>2 DEF Inv, Typed, WorkTyped, Flow, Idle
<1>5. Checked' /\ EntryAtReply' /\ OwnProof'
  BY <1>1 DEF Inv, Checked, EntryAtReply, OwnProof
<1>6. DoneIsDone'
  BY <1>1, <1>2 DEF Inv, Typed, WorkTyped, DoneIsDone, Idle, Calls, NoJob
<1> QED
  BY <1>3, <1>4, <1>5, <1>6 DEF Inv, Typed

-----------------------------------------------------------------------------
(* The workers.  A step of process_job moves a task that runs to a later   *)
(* state, and may write the entry of its job if there is one.              *)

LEMMA InvWork ==
  ASSUME Inv, NEW c \in Calls, NEW status \in {"Running", "Failed", "Completed"},
         NEW proof \in Requests \cup {None}, NEW to \in Working \cup {"done"},
         task[c] \in Working,
         status = "Completed" => proof = asked[c] /\ to = "done",
         jobs' \in {jobs, Updated(c, status, proof)},
         task' = [task EXCEPT ![c] = to],
         permits' \in Nat, timedOut' \in Int,
         cache' \in {cache, [cache EXCEPT ![asked[c]] = [proof |-> asked[c], at |-> now]]},
         UNCHANGED <<now, channel, dispatcher, asked, handler>>
  PROVE  Inv'
<1>1. now \in Nat
  BY ProverAssumption DEF Inv, Typed, HandlerTyped
<1>2. task[c] # None /\ handler[c] \in Engaged
  BY DEF Inv, Flow, Working, None
<1>3. asked[c] \in Eligible /\ asked[c] \in Requests /\ asked[c] # None
  BY <1>2, ProverAssumption DEF Inv, Checked, Engaged
<1>4. [status |-> status, proof |-> proof, at |-> now] \in Entries
  BY <1>1 DEF Entries, Finished
<1>5. jobs' \in [Calls -> Entries]
  BY <1>4 DEF Inv, Typed, StoreTyped, Updated
<1>6. cache' \in [Requests -> [proof : Requests \cup {None}, at : Nat]]
  BY <1>1, <1>3 DEF Inv, Typed, StoreTyped
<1>7. HandlerTyped' /\ StoreTyped' /\ QueueTyped' /\ WorkTyped'
  BY <1>5, <1>6 DEF Inv, Typed, HandlerTyped, StoreTyped, QueueTyped, WorkTyped
<1>8. Flow'
  BY <1>2 DEF Inv, Typed, WorkTyped, QueueTyped, Flow, None, NoJob
<1>9. Checked'
  BY <1>3 DEF Inv, Typed, StoreTyped, Checked
<1>10. /\ \A d \in Calls \ {c} : jobs'[d] = jobs[d]
       /\ jobs'[c] = jobs[c] \/ (jobs[c].status # None /\ jobs'[c].status = status
                                                     /\ jobs'[c].proof = proof)
  BY DEF Inv, Typed, StoreTyped, Updated
<1>11. EntryAtReply' /\ OwnProof'
  BY <1>3, <1>10 DEF Inv, EntryAtReply, OwnProof
<1>12. DoneIsDone'
  <2>1. c # dispatcher.job /\ \A i \in DOMAIN channel : channel[i] # c
    BY <1>2 DEF Inv, Typed, QueueTyped, Flow, Calls, NoJob
  <2>2. jobs[c].status # "Completed"
    BY DEF Inv, DoneIsDone, Working, None
  <2>3. jobs'[c].status = "Completed" => to = "done"
    BY <1>10, <2>2
  <2> QED
    BY <1>10, <2>1, <2>3 DEF Inv, Typed, WorkTyped, DoneIsDone
<1> QED
  BY <1>7, <1>8, <1>9, <1>11, <1>12 DEF Inv, Typed

LEMMA InvWorker ==
  ASSUME Inv, NEW c \in Calls, Run(c) \/ TimeOut(c) \/ Finish(c)
  PROVE  Inv'
<1>1. /\ permits \in Nat /\ permits + 1 \in Nat /\ timedOut \in Int
      /\ timedOut + 1 \in Int /\ timedOut - 1 \in Int
  BY DEF Inv, Typed, WorkTyped
<1>2. task[c] \in Working \cup {None, "done"}
  BY DEF Inv, Typed, WorkTyped
<1>3. CASE Run(c)
  BY <1>1, <1>3, InvWork DEF Run, Working
<1>4. CASE TimeOut(c)
  BY <1>1, <1>4, InvWork DEF TimeOut, Working
<1>5. CASE Prove(c)
  <2>1. \E to \in Working \cup {"done"} : task' = [task EXCEPT ![c] = to]
    BY <1>2, <1>5 DEF Prove, Working
  <2>2. PICK to \in Working \cup {"done"} : task' = [task EXCEPT ![c] = to]
    BY <2>1
  <2>3. /\ task[c] \in Working /\ jobs' = jobs
        /\ cache' = [cache EXCEPT ![asked[c]] = [proof |-> asked[c], at |-> now]]
        /\ UNCHANGED <<now, permits, timedOut, channel, dispatcher, asked, handler>>
    BY <1>5 DEF Prove, CacheKey, Working
  <2> QED
    BY <1>1, <2>2, <2>3, InvWork
<1>6. CASE Publish(c)
  <2>1. asked[c] \in Requests \cup {None}
    BY DEF Inv, Typed, HandlerTyped
  <2>2. /\ task[c] \in Working
        /\ jobs' = Updated(c, "Completed", asked[c])
        /\ task' = [task EXCEPT ![c] = "done"]
        /\ permits' \in Nat /\ timedOut' \in Int
        /\ UNCHANGED <<now, cache, channel, dispatcher, asked, handler>>
    BY <1>1, <1>6 DEF Publish, End, Working
  <2> QED
    BY <2>1, <2>2, InvWork
<1>7. CASE Fail(c)
  <2>1. /\ task[c] \in Working
        /\ jobs' = Updated(c, "Failed", None)
        /\ task' = [task EXCEPT ![c] = "done"]
        /\ permits' \in Nat /\ timedOut' \in Int
        /\ UNCHANGED <<now, cache, channel, dispatcher, asked, handler>>
    BY <1>1, <1>7 DEF Fail, End, Working
  <2> QED
    BY <2>1, InvWork
<1> QED
  BY <1>3, <1>4, <1>5, <1>6, <1>7 DEF Finish

-----------------------------------------------------------------------------
(* The cleanup tasks and the restart.                                      *)

LEMMA InvCleanup ==
  ASSUME Inv, CacheCleanup \/ JobsCleanup
  PROVE  Inv'
<1>1. CASE CacheCleanup
  <2>1. StoreTyped' /\ Checked'
    BY <1>1 DEF CacheCleanup, Inv, Typed, StoreTyped, Checked, NoProof
  <2>2. HandlerTyped' /\ QueueTyped' /\ WorkTyped'
    BY <1>1 DEF CacheCleanup, Inv, Typed, HandlerTyped, QueueTyped, WorkTyped
  <2>3. Flow' /\ EntryAtReply' /\ DoneIsDone' /\ OwnProof'
    BY <1>1 DEF CacheCleanup, Inv, Flow, EntryAtReply, DoneIsDone, OwnProof
  <2> QED
    BY <2>1, <2>2, <2>3 DEF Inv, Typed
<1>2. CASE JobsCleanup
  <2>1. /\ \A c \in Calls : jobs'[c] \in {jobs[c], NoEntry}
        /\ UNCHANGED <<now, cache, channel, permits, timedOut, dispatcher, asked, handler, task>>
    BY <1>2 DEF JobsCleanup
  <2>2. jobs' \in [Calls -> Entries]
    BY <1>2 DEF JobsCleanup, Inv, Typed, StoreTyped, Entries, NoEntry
  <2>3. HandlerTyped' /\ StoreTyped' /\ QueueTyped' /\ WorkTyped' /\ Flow' /\ Checked'
    BY <2>1, <2>2 DEF Inv, Typed, HandlerTyped, StoreTyped, QueueTyped, WorkTyped, Flow, Checked
  <2>4. EntryAtReply' /\ DoneIsDone' /\ OwnProof'
    BY <2>1 DEF Inv, EntryAtReply, DoneIsDone, OwnProof, NoEntry, None
  <2> QED
    BY <2>3, <2>4 DEF Inv, Typed
<1> QED
  BY <1>1, <1>2

LEMMA InvRestart ==
  ASSUME Inv, Restart
  PROVE  Inv'
<1>1. HandlerTyped' /\ QueueTyped'
  BY DEF Restart, Inv, Typed, HandlerTyped, QueueTyped, HandlerStates, Idle, NoJob
<1>2. StoreTyped'
  BY DEF Restart, StoreTyped, Entries, NoProof, NoEntry
<1>3. WorkTyped'
  BY ProverAssumption DEF Restart, WorkTyped
<1>4. Flow'
  BY DEF Restart, Flow, Idle
<1>5. Checked'
  BY DEF Restart, Checked, NoProof
<1>6. EntryAtReply' /\ DoneIsDone' /\ OwnProof'
  BY DEF Restart, EntryAtReply, DoneIsDone, OwnProof, NoEntry, None
<1> QED
  BY <1>1, <1>2, <1>3, <1>4, <1>5, <1>6 DEF Inv, Typed

LEMMA InvStep == Inv /\ [Next]_vars => Inv'
<1> SUFFICES ASSUME Inv, [Next]_vars PROVE Inv'
  OBVIOUS
<1>1. CASE Tick
  <2>1. now' \in 0 .. MaxTime
    BY <1>1, ProverAssumption DEF Tick, Inv, Typed, HandlerTyped
  <2> QED
    BY <1>1, <2>1, InvQuiet DEF Tick, Quiet, memory
<1>2. ASSUME NEW c \in Calls, NEW r \in Requests, NEW ip \in Ips, Admit(c, r, ip) PROVE Inv'
  BY <1>2, InvAdmit
<1>3. ASSUME NEW c \in Calls,
             HandlerStep(c) \/ Disconnect(c) \/ Run(c) \/ TimeOut(c) \/ Finish(c)
      PROVE  Inv'
  BY <1>3, InvHandler, InvWorker
<1>4. CASE Dispatch
  BY <1>4, InvReceive, InvCountReceived, InvSpawn DEF Dispatch
<1>5. CASE Cleanup
  <2>1. CASE LimitsCleanup
    BY <2>1, InvQuiet DEF LimitsCleanup, Quiet, Inv, Typed, HandlerTyped
  <2> QED
    BY <1>5, <2>1, InvCleanup DEF Cleanup
<1>6. CASE Restart
  BY <1>6, InvRestart
<1>7. CASE UNCHANGED vars
  BY <1>7, InvQuiet DEF vars, memory, Quiet, Inv, Typed, HandlerTyped
<1> QED
  BY <1>1, <1>2, <1>3, <1>4, <1>5, <1>6, <1>7 DEF Next

-----------------------------------------------------------------------------
\* A job that is Completed carries the proof of what its own caller asked for,
\* and that request had passed every check (handlers.rs:158-177, queue.rs:205-214).
THEOREM OwnProofCorrect == Spec => []OwnProof
<1>1. Inv => OwnProof
  BY DEF Inv
<1> QED
  BY <1>1, InvInit, InvStep, PTL DEF Spec

LEMMA FinalStep ==
  ASSUME Inv, [Next]_vars, NEW c \in Calls, jobs[c].status = "Completed"
  PROVE  jobs'[c].status \in {"Completed", None}
<1>1. task[c] \in {None, "done"} /\ handler[c] = "replied"
  BY DEF Inv, DoneIsDone, EntryAtReply, None
<1>2. \A d \in Calls : LookUp(d) \/ InsertPending(d) => jobs'[c] = jobs[c]
  BY <1>1 DEF LookUp, InsertPending, Inv, Typed, StoreTyped
<1>3. \A d \in Calls : Run(d) \/ TimeOut(d) \/ Finish(d) => jobs'[c] = jobs[c]
  BY <1>1 DEF Run, TimeOut, Finish, Prove, Publish, Fail, Updated, Inv, Typed, StoreTyped, None
<1>4. JobsCleanup => jobs'[c].status \in {"Completed", None}
  BY DEF JobsCleanup, NoEntry
<1>5. Restart => jobs'[c].status = None
  BY DEF Restart, NoEntry
<1>6. \A d \in Calls : CheckClaimed(d) \/ LoadSize(d) \/ TrySend(d) \/ CountSent(d) \/ Disconnect(d)
        => jobs' = jobs
  BY DEF CheckClaimed, LoadSize, TrySend, CountSent, Disconnect, memory
<1>7. (\E d \in Calls, r \in Requests, ip \in Ips : Admit(d, r, ip)) => jobs' = jobs
  BY DEF Admit
<1>8. Tick \/ Dispatch \/ LimitsCleanup \/ CacheCleanup \/ UNCHANGED vars => jobs' = jobs
  BY DEF Tick, Dispatch, Receive, CountReceived, Spawn, LimitsCleanup, CacheCleanup, vars, memory
<1> QED
  BY <1>2, <1>3, <1>4, <1>5, <1>6, <1>7, <1>8 DEF Next, HandlerStep, Cleanup

\* Once a client may have read Completed it reads that until the entry is
\* cleaned or the process restarts, whatever a timeout, a late proof and the
\* handler's insertion do (queue.rs:336-342, handlers.rs:240-245).
THEOREM CompletedIsFinalCorrect == Spec => CompletedIsFinal
<1> DEFINE Final == \A c \in Calls : jobs[c].status = "Completed" =>
                      jobs'[c].status \in {"Completed", None}
<1>1. Inv /\ [Next]_vars => [Final]_jobs
  BY FinalStep
<1> QED
  BY <1>1, InvInit, InvStep, PTL DEF Spec, CompletedIsFinal

-----------------------------------------------------------------------------
(* The permits.                                                            *)

Held == {c \in Calls : task[c] \in Working}
LateOnes == {c \in Calls : task[c] \in Late}

LEMMA SetsFinite ==
  /\ IsFiniteSet(Held) /\ IsFiniteSet(LateOnes)
  /\ Cardinality(Held) \in Nat /\ Cardinality(LateOnes) \in Nat
<1>1. IsFiniteSet(Calls)
  <2>1. 1 \in Int /\ MaxCalls \in Int
    BY ProverAssumption
  <2>2. IsFiniteSet(1 .. MaxCalls)
    BY <2>1, FS_Interval
  <2> QED
    BY <2>2 DEF Calls
<1>2. Held \subseteq Calls /\ LateOnes \subseteq Calls
  BY DEF Held, LateOnes
<1>3. IsFiniteSet(Held) /\ IsFiniteSet(LateOnes)
  BY <1>1, <1>2, FS_Subset
<1> QED
  BY <1>3, FS_CardinalityType

\* The invariant in the words of the proofs, of a state and of the next one.
LEMMA Reading ==
  /\ WorkersBounded <=>
       Cardinality(Held) + permits = Workers /\ timedOut = Cardinality(LateOnes)
  /\ WorkersBounded' <=>
       Cardinality(Held') + permits' = Workers /\ timedOut' = Cardinality(LateOnes')
BY DEF WorkersBounded, Held, LateOnes

\* A task begins: one permit less.
LEMMA BoundedSpawn ==
  ASSUME Inv, WorkersBounded, Spawn
  PROVE  WorkersBounded'
<1> DEFINE c == dispatcher.job
<1>1. c \in Calls /\ task[c] = None
  BY DEF Spawn, Inv, Typed, QueueTyped, Flow
<1>2. Held' = Held \cup {c} /\ c \notin Held
  BY <1>1 DEF Spawn, Held, Working, Inv, Typed, WorkTyped, None
<1>3. LateOnes' = LateOnes
  BY <1>1 DEF Spawn, LateOnes, Late, Inv, Typed, WorkTyped, None
<1>4. Cardinality(Held') = Cardinality(Held) + 1
  BY <1>2, SetsFinite, FS_AddElement
<1>5. permits' = permits - 1 /\ timedOut' = timedOut /\ permits \in Nat
  BY DEF Spawn, Inv, Typed, WorkTyped
<1> QED
  BY <1>3, <1>4, <1>5, SetsFinite, Reading, ProverAssumption

\* A task goes on, in time or past its timeout, and keeps its permit.
LEMMA BoundedOn ==
  ASSUME Inv, WorkersBounded, NEW c \in Calls, NEW to \in Working,
         task[c] \in Working, task[c] \in Late <=> to \in Late,
         task' = [task EXCEPT ![c] = to], UNCHANGED <<permits, timedOut>>
  PROVE  WorkersBounded'
<1>1. Held' = Held /\ LateOnes' = LateOnes
  BY DEF Held, LateOnes, Inv, Typed, WorkTyped
<1> QED
  BY <1>1 DEF WorkersBounded, Held, LateOnes

\* A task runs into its timeout and keeps its permit.
LEMMA BoundedTimeOut ==
  ASSUME Inv, WorkersBounded, NEW c \in Calls, TimeOut(c)
  PROVE  WorkersBounded'
<1>1. Held' = Held
  BY DEF TimeOut, Held, Working, Inv, Typed, WorkTyped
<1>2. LateOnes' = LateOnes \cup {c} /\ c \notin LateOnes
  BY DEF TimeOut, LateOnes, Late, Inv, Typed, WorkTyped
<1>3. Cardinality(LateOnes') = Cardinality(LateOnes) + 1
  BY <1>2, SetsFinite, FS_AddElement
<1>4. permits' = permits /\ timedOut' = timedOut + 1 /\ timedOut \in Int
  BY DEF TimeOut, Inv, Typed, WorkTyped
<1> QED
  BY <1>1, <1>3, <1>4, SetsFinite, Reading, ProverAssumption

\* A task ends, in time or late: one permit more.
LEMMA BoundedEnd ==
  ASSUME Inv, WorkersBounded, NEW c \in Calls, task[c] \in Working, End(c)
  PROVE  WorkersBounded'
<1>1. Held' = Held \ {c} /\ c \in Held
  BY DEF End, Held, Working, Inv, Typed, WorkTyped
<1>2. Cardinality(Held') = Cardinality(Held) - 1
  BY <1>1, SetsFinite, FS_RemoveElement
<1>3. permits' = permits + 1 /\ permits \in Nat /\ timedOut \in Int
  BY DEF End, Inv, Typed, WorkTyped
<1>4. timedOut' = Cardinality(LateOnes')
  <2>1. CASE task[c] \in Late
    <3>1. LateOnes' = LateOnes \ {c} /\ c \in LateOnes
      BY <2>1 DEF End, LateOnes, Late, Inv, Typed, WorkTyped
    <3>2. Cardinality(LateOnes') = Cardinality(LateOnes) - 1
      BY <3>1, SetsFinite, FS_RemoveElement
    <3> QED
      BY <2>1, <3>2 DEF End, WorkersBounded, LateOnes
  <2>2. CASE task[c] \notin Late
    <3>1. LateOnes' = LateOnes
      BY <2>2 DEF End, LateOnes, Late, Inv, Typed, WorkTyped
    <3> QED
      BY <2>2, <3>1 DEF End, WorkersBounded, LateOnes
  <2> QED
    BY <2>1, <2>2
<1> QED
  BY <1>2, <1>3, <1>4, SetsFinite, Reading, ProverAssumption

LEMMA BoundedStep == Inv /\ WorkersBounded /\ [Next]_vars => WorkersBounded'
<1> SUFFICES ASSUME Inv, WorkersBounded, [Next]_vars PROVE WorkersBounded'
  OBVIOUS
<1>1. ASSUME UNCHANGED <<permits, timedOut, task>> PROVE WorkersBounded'
  BY <1>1 DEF WorkersBounded
<1>2. ASSUME NEW c \in Calls, Run(c) PROVE WorkersBounded'
  BY <1>2, BoundedOn DEF Run, Working, Late
<1>3. ASSUME NEW c \in Calls, Prove(c) PROVE WorkersBounded'
  <2>1. CASE task[c] = "proving"
    BY <1>3, <2>1, BoundedOn DEF Prove, Working, Late, Inv, Typed, WorkTyped
  <2>2. CASE task[c] = "overdue"
    BY <1>3, <2>2, BoundedOn DEF Prove, Working, Late, Inv, Typed, WorkTyped
  <2> QED
    BY <1>3, <2>1, <2>2 DEF Prove
<1>4. ASSUME NEW c \in Calls, Publish(c) \/ Fail(c) PROVE WorkersBounded'
  BY <1>4, BoundedEnd DEF Publish, Fail, Working
<1>5. ASSUME Restart PROVE WorkersBounded'
  <2>1. Held' = {} /\ LateOnes' = {}
    BY <1>5 DEF Restart, Held, LateOnes, Working, Late, None
  <2> QED
    BY <1>5, <2>1, FS_EmptySet, Reading, ProverAssumption DEF Restart
<1>6. CASE Tick \/ Cleanup \/ Receive \/ CountReceived \/ UNCHANGED vars
  BY <1>1, <1>6 DEF Tick, Cleanup, LimitsCleanup, CacheCleanup, JobsCleanup, Receive,
       CountReceived, vars, memory
<1>7. ASSUME NEW c \in Calls, HandlerStep(c) \/ Disconnect(c) PROVE WorkersBounded'
  BY <1>1, <1>7 DEF HandlerStep, Disconnect, LookUp, CheckClaimed, LoadSize, TrySend, CountSent,
       InsertPending, memory
<1>8. ASSUME NEW c \in Calls, NEW r \in Requests, NEW ip \in Ips, Admit(c, r, ip)
      PROVE  WorkersBounded'
  BY <1>1, <1>8 DEF Admit
<1> QED
  BY <1>2, <1>3, <1>4, <1>5, <1>6, <1>7, <1>8, BoundedSpawn, BoundedTimeOut
     DEF Next, Dispatch, Finish

\* The proofs in the making, those past their timeout included, and the free
\* permits are always as many as the workers, and the metric counts exactly the
\* late ones (queue.rs:114-116, 261-268).
THEOREM WorkersBoundedCorrect == Spec => []WorkersBounded
<1>1. Init => WorkersBounded
  <2> SUFFICES ASSUME Init PROVE WorkersBounded
    OBVIOUS
  <2>1. Held = {} /\ LateOnes = {}
    BY DEF Init, Held, LateOnes, Working, Late, None
  <2> QED
    BY <2>1, FS_EmptySet, Reading, ProverAssumption DEF Init
<1> QED
  BY <1>1, InvInit, InvStep, BoundedStep, PTL DEF Spec

-----------------------------------------------------------------------------
(* The counter of the queue: what is left of a division by w.              *)

LEMMA Division ==
  ASSUME NEW n \in Int, NEW w \in Nat \ {0}
  PROVE  n = (w * (n \div w)) + (n % w) /\ n % w \in 0 .. w - 1 /\ n \div w \in Int
  OBVIOUS

LEMMA SmallMultiple ==
  ASSUME NEW w \in Nat \ {0}, NEW k \in Int, k * w < w, -w < k * w
  PROVE  k = 0
<1>1. k >= 1 => k * w >= w
  OBVIOUS
<1>2. k <= -1 => k * w <= -w
  OBVIOUS
<1> QED
  BY <1>1, <1>2

LEMMA RemainderUnique ==
  ASSUME NEW w \in Nat \ {0}, NEW n \in Int, NEW r \in 0 .. w - 1, NEW q \in Int,
         n = (w * q) + r
  PROVE  n % w = r
<1> DEFINE d == q - (n \div w)
           a == w * q
           b == w * (n \div w)
           s == n % w
<1>1. n = (w * (n \div w)) + (n % w) /\ n % w \in 0 .. w - 1 /\ n \div w \in Int
  BY Division
<1>2. d * w = (w * q) - (w * (n \div w))
  BY <1>1
<1>3. d \in Int /\ a \in Int /\ b \in Int /\ s \in Int /\ r \in Int
  BY <1>1
<1>4. d * w = s - r
  <2>1. n = a + r /\ n = b + s /\ d * w = a - b
    BY <1>1, <1>2
  <2> HIDE DEF d, a, b, s
  <2> QED
    BY <1>3, <2>1
<1> HIDE DEF d, a, b
<1>5. d * w < w /\ -w < d * w
  BY <1>1, <1>4
<1>6. d = 0
  BY <1>3, <1>5, SmallMultiple
<1>7. (n % w) - r = 0
  BY <1>3, <1>4, <1>6
<1> QED
  BY <1>1, <1>7

\* A step of one commutes with wrapping.
LEMMA WrappedStep ==
  ASSUME NEW w \in Nat \ {0}, NEW n \in Int, NEW e \in {1, -1}
  PROVE  ((n % w) + e) % w = (n + e) % w
<1> DEFINE m == (n % w) + e
           q == (m \div w) + (n \div w)
<1>1. n = (w * (n \div w)) + (n % w) /\ n % w \in 0 .. w - 1 /\ n \div w \in Int
  BY Division
<1>2. m \in Int
  BY <1>1
<1>3. m = (w * (m \div w)) + (m % w) /\ m % w \in 0 .. w - 1 /\ m \div w \in Int
  BY <1>2, Division
<1>4. w * q = (w * (m \div w)) + (w * (n \div w))
  BY <1>1, <1>3
<1>5. n + e = (w * q) + (m % w) /\ q \in Int /\ n + e \in Int
  BY <1>1, <1>3, <1>4
<1> QED
  BY <1>3, <1>5, RemainderUnique

\* What the counter should say: the messages in the channel, the one received and not
\* yet discounted, less those sent and not yet counted.
Uncounted == {c \in Calls : handler[c] = "sent"}
Received == IF dispatcher.at = "received" THEN 1 ELSE 0
Waiting == Len(channel) + Received - Cardinality(Uncounted)

LEMMA WaitingIsInt ==
  ASSUME Inv
  PROVE  /\ IsFiniteSet(Uncounted) /\ Cardinality(Uncounted) \in Nat
         /\ Len(channel) \in Nat /\ Received \in {0, 1} /\ Waiting \in Int
<1>1. IsFiniteSet(Calls)
  <2>1. 1 \in Int /\ MaxCalls \in Int
    BY ProverAssumption
  <2>2. IsFiniteSet(1 .. MaxCalls)
    BY <2>1, FS_Interval
  <2> QED
    BY <2>2 DEF Calls
<1>2. IsFiniteSet(Uncounted)
  <2>1. Uncounted \subseteq Calls
    BY DEF Uncounted
  <2> QED
    BY <1>1, <2>1, FS_Subset
<1>3. Cardinality(Uncounted) \in Nat
  BY <1>2, FS_CardinalityType
<1>4. Len(channel) \in Nat
  BY DEF Inv, Typed, QueueTyped
<1> QED
  BY <1>2, <1>3, <1>4 DEF Received, Waiting

LEMMA WrapPositive == Wrap \in Nat \ {0}
BY ProverAssumption

\* The invariant in the words of the proofs, of a state and of the next one.
LEMMA ReadingCount ==
  /\ QueueCountExact <=> queueSize = Waiting % Wrap
  /\ QueueCountExact' <=> queueSize' = Waiting' % Wrap
BY DEF QueueCountExact, Waiting, Received, Uncounted

\* A step that the counter need not follow.
LEMMA CountKept ==
  ASSUME Inv, QueueCountExact, queueSize' = queueSize, Waiting' = Waiting
  PROVE  QueueCountExact'
BY ReadingCount

\* The message is in the channel before it is counted.
LEMMA CountTrySend ==
  ASSUME Inv, QueueCountExact, NEW c \in Calls, TrySend(c)
  PROVE  QueueCountExact'
<1>1. /\ handler \in [Calls -> HandlerStates] /\ handler[c] = "sending"
      /\ channel \in Seq(Calls) /\ queueSize' = queueSize /\ dispatcher' = dispatcher
  BY DEF TrySend, Inv, Typed, HandlerTyped, QueueTyped
<1>2. CASE channel' = Append(channel, c) /\ handler' = [handler EXCEPT ![c] = "sent"]
  <2>1. Uncounted' = Uncounted \cup {c} /\ c \notin Uncounted
    BY <1>1, <1>2 DEF Uncounted
  <2>2. Cardinality(Uncounted') = Cardinality(Uncounted) + 1
    BY <2>1, WaitingIsInt, FS_AddElement
  <2>3. Len(channel') = Len(channel) + 1
    BY <1>1, <1>2
  <2>4. Received' = Received
    BY <1>1 DEF Received
  <2>5. Waiting' = Waiting
    BY <2>2, <2>3, <2>4, WaitingIsInt DEF Waiting
  <2> QED
    BY <1>1, <2>5, CountKept
<1>3. CASE channel' = channel /\ handler' = [handler EXCEPT ![c] = "full"]
  <2>1. Uncounted' = Uncounted
    BY <1>1, <1>3 DEF Uncounted
  <2>2. Waiting' = Waiting
    BY <1>1, <1>3, <2>1 DEF Waiting, Received
  <2> QED
    BY <1>1, <2>2, CountKept
<1> QED
  BY <1>2, <1>3 DEF TrySend

\* fetch_add.
LEMMA CountCountSent ==
  ASSUME Inv, QueueCountExact, NEW c \in Calls, CountSent(c)
  PROVE  QueueCountExact'
<1>1. /\ handler \in [Calls -> HandlerStates] /\ handler[c] = "sent"
      /\ handler' = [handler EXCEPT ![c] = "counted"]
      /\ channel' = channel /\ dispatcher' = dispatcher /\ queueSize' = (queueSize + 1) % Wrap
  BY DEF CountSent, Inv, Typed, HandlerTyped
<1>2. Uncounted' = Uncounted \ {c} /\ c \in Uncounted
  BY <1>1 DEF Uncounted
<1>3. Cardinality(Uncounted') = Cardinality(Uncounted) - 1
  BY <1>2, WaitingIsInt, FS_RemoveElement
<1>4. Waiting' = Waiting + 1
  BY <1>1, <1>3, WaitingIsInt DEF Waiting, Received
<1>5. ((Waiting % Wrap) + 1) % Wrap = (Waiting + 1) % Wrap
  <2>1. Waiting \in Int /\ Wrap \in Nat \ {0}
    BY WaitingIsInt, WrapPositive
  <2> QED
    BY <2>1, WrappedStep
<1> QED
  BY <1>1, <1>4, <1>5, ReadingCount

\* The dispatcher takes the message before it discounts it.
LEMMA CountReceive ==
  ASSUME Inv, QueueCountExact, Receive
  PROVE  QueueCountExact'
<1>1. /\ channel \in Seq(Calls) /\ channel # <<>> /\ channel' = Tail(channel)
      /\ dispatcher = Idle /\ dispatcher' = [job |-> Head(channel), at |-> "received"]
      /\ handler' = handler /\ queueSize' = queueSize
  BY DEF Receive, Inv, Typed, QueueTyped
<1>2. Len(channel') = Len(channel) - 1
  BY <1>1
<1>3. Received = 0 /\ Received' = 1
  BY <1>1 DEF Received, Idle
<1>4. Uncounted' = Uncounted
  BY <1>1 DEF Uncounted
<1>5. Waiting' = Waiting
  BY <1>2, <1>3, <1>4, WaitingIsInt DEF Waiting
<1> QED
  BY <1>1, <1>5, CountKept

\* fetch_sub.
LEMMA CountCountReceived ==
  ASSUME Inv, QueueCountExact, CountReceived
  PROVE  QueueCountExact'
<1>1. /\ dispatcher.at = "received" /\ dispatcher' = [dispatcher EXCEPT !.at = "acquire"]
      /\ dispatcher \in [job : Calls \cup {NoJob}, at : {"recv", "received", "acquire"}]
      /\ channel' = channel /\ handler' = handler /\ queueSize' = (queueSize - 1) % Wrap
  BY DEF CountReceived, Inv, Typed, QueueTyped
<1>2. Received = 1 /\ Received' = 0
  BY <1>1 DEF Received
<1>3. Uncounted' = Uncounted
  BY <1>1 DEF Uncounted
<1>4. Waiting' = Waiting + -1
  BY <1>1, <1>2, <1>3, WaitingIsInt DEF Waiting
<1>5. ((Waiting % Wrap) + -1) % Wrap = (Waiting + -1) % Wrap
  <2>1. Waiting \in Int /\ Wrap \in Nat \ {0}
    BY WaitingIsInt, WrapPositive
  <2> QED
    BY <2>1, WrappedStep
<1>6. queueSize \in Int
  <2>1. Waiting \in Int /\ Wrap \in Nat \ {0}
    BY WaitingIsInt, WrapPositive
  <2>2. Waiting % Wrap \in Int
    BY <2>1, Division
  <2> QED
    BY <2>2, ReadingCount
<1>7. queueSize - 1 = (Waiting % Wrap) + -1
  BY <1>6, ReadingCount
<1> QED
  BY <1>1, <1>4, <1>5, <1>7, ReadingCount

\* A handler that is neither before nor after its fetch_add.
LEMMA CountMove ==
  ASSUME Inv, QueueCountExact, NEW c \in Calls, NEW to \in HandlerStates \ {"sent"},
         handler[c] # "sent", handler' = [handler EXCEPT ![c] = to],
         UNCHANGED <<channel, queueSize, dispatcher>>
  PROVE  QueueCountExact'
<1>1. Uncounted' = Uncounted
  BY DEF Uncounted, Inv, Typed, HandlerTyped
<1>2. Waiting' = Waiting
  BY <1>1 DEF Waiting, Received
<1> QED
  BY <1>2, CountKept

LEMMA CountHandler ==
  ASSUME Inv, QueueCountExact, NEW c \in Calls, HandlerStep(c) \/ Disconnect(c)
  PROVE  QueueCountExact'
<1>1. CASE LookUp(c)
  BY <1>1, CountMove DEF LookUp, HandlerStates
<1>2. CASE CheckClaimed(c)
  BY <1>2, CountMove DEF CheckClaimed, HandlerStates, memory
<1>3. CASE LoadSize(c)
  BY <1>3, CountMove DEF LoadSize, HandlerStates, memory
<1>4. CASE InsertPending(c)
  BY <1>4, CountMove DEF InsertPending, HandlerStates
<1>5. CASE Disconnect(c)
  BY <1>5, CountMove DEF Disconnect, HandlerStates, memory
<1> QED
  BY <1>1, <1>2, <1>3, <1>4, <1>5, CountTrySend, CountCountSent DEF HandlerStep

LEMMA CountStep == Inv /\ QueueCountExact /\ [Next]_vars => QueueCountExact'
<1> SUFFICES ASSUME Inv, QueueCountExact, [Next]_vars PROVE QueueCountExact'
  OBVIOUS
<1>1. ASSUME UNCHANGED <<channel, queueSize, dispatcher, handler>> PROVE QueueCountExact'
  BY <1>1 DEF QueueCountExact
<1>2. ASSUME NEW c \in Calls, NEW r \in Requests, NEW ip \in Ips, Admit(c, r, ip)
      PROVE  QueueCountExact'
  BY <1>2, CountMove DEF Admit, HandlerStates
<1>3. CASE Spawn
  <2>1. Waiting' = Waiting
    BY <1>3 DEF Spawn, Waiting, Received, Uncounted, Idle
  <2> QED
    BY <1>3, <2>1, CountKept DEF Spawn
<1>4. CASE Restart
  <2>1. Uncounted' = {}
    BY <1>4 DEF Restart, Uncounted
  <2>2. Len(channel') = 0 /\ Received' = 0 /\ Cardinality(Uncounted') = 0
    BY <1>4, <2>1, FS_EmptySet DEF Restart, Received, Idle
  <2>3. Waiting' = 0
    BY <2>2 DEF Waiting
  <2> QED
    BY <1>4, <2>3, ReadingCount, ProverAssumption DEF Restart
<1>5. CASE Tick \/ Cleanup \/ UNCHANGED vars
  BY <1>1, <1>5 DEF Tick, Cleanup, LimitsCleanup, CacheCleanup, JobsCleanup, vars, memory
<1>6. ASSUME NEW c \in Calls, Run(c) \/ TimeOut(c) \/ Finish(c) PROVE QueueCountExact'
  BY <1>1, <1>6 DEF Run, TimeOut, Finish, Prove, Fail, Publish, End
<1> QED
  BY <1>2, <1>3, <1>4, <1>5, <1>6, CountHandler, CountReceive, CountCountReceived
     DEF Next, Dispatch

\* Whatever the threads do between sending, receiving and counting, the counter is
\* off by exactly the messages in between, wrapped, for any number of calls and
\* any width of the counter (queue.rs:42-61, 119-120).
THEOREM QueueCountCorrect == Spec => []QueueCountExact
<1>1. Init => QueueCountExact
  <2> SUFFICES ASSUME Init PROVE QueueCountExact
    OBVIOUS
  <2>1. Uncounted = {}
    BY DEF Init, Uncounted
  <2>2. Len(channel) = 0 /\ Received = 0 /\ Cardinality(Uncounted) = 0
    BY <2>1, FS_EmptySet DEF Init, Received, Idle
  <2>3. Waiting = 0
    BY <2>2 DEF Waiting
  <2> QED
    BY <2>3, ReadingCount, ProverAssumption DEF Init
<1> QED
  BY <1>1, InvInit, InvStep, CountStep, PTL DEF Spec
-----------------------------------------------------------------------------
(* The rate limits.  A window starts with a request that gets through, so  *)
(* that a span that reaches into the window before the current one misses  *)
(* that request of it.                                                     *)

Seconds == 0 .. MaxTime
SpanFrom(t, window) == {s \in t .. MaxTime : s < t + window}
BoundOf(window, max) == IF window = 1 THEN max ELSE 2 * max - 1

\* Nothing was let through after n, nor since the window of the entry ended; what
\* was let through before the window leaves room for a whole one, and there are
\* as many through since it started as the entry counts.
NoneLater(n, entry, through, window) ==
  \A s \in Seconds : through[s] # 0 =>
    /\ s <= n
    /\ IF entry.count = 0 THEN s + window <= n ELSE s < entry.start + window

InWindow(n, entry, through, window, max) ==
  entry.count # 0 =>
    /\ entry.start \in 0 .. n
    /\ through[entry.start] # 0
    /\ SumFunctionOnSet(through, entry.start .. MaxTime) = entry.count
    /\ \A t \in Seconds : t < entry.start /\ entry.start < t + window =>
         SumFunctionOnSet(through, t .. (entry.start - 1)) <= max - 1

WithinBound(through, window, max) ==
  \A t \in Seconds : SumFunctionOnSet(through, SpanFrom(t, window)) <= BoundOf(window, max)

Windowed(n, entry, through, window, max) ==
  /\ entry \in [start : Nat, count : 0 .. max]
  /\ through \in [Seconds -> Nat]
  /\ NoneLater(n, entry, through, window)
  /\ InWindow(n, entry, through, window, max)
  /\ WithinBound(through, window, max)

WindowOf(k) == IF k \in Ips THEN IpWindow ELSE KeyWindow
MaxOf(k) == IF k \in Ips THEN IpMax ELSE KeyMax
Keys == Ips \cup Pubkeys

LimitsKept ==
  /\ limits \in [Keys -> [start : Nat, count : Nat]]
  /\ admitted \in [Keys -> [Seconds -> Nat]]
  /\ \A k \in Keys : Windowed(now, limits[k], admitted[k], WindowOf(k), MaxOf(k))

\* Sums of what was let through.
LEMMA SecondsFinite == IsFiniteSet(Seconds) /\ \A S \in SUBSET Seconds : IsFiniteSet(S)
<1>1. 0 \in Int /\ MaxTime \in Int
  BY ProverAssumption
<1>2. IsFiniteSet(0 .. MaxTime)
  BY <1>1, FS_Interval
<1> QED
  BY <1>2, FS_Subset DEF Seconds

LEMMA ThroughType ==
  ASSUME NEW a \in [Seconds -> Nat], NEW S \in SUBSET Seconds
  PROVE  SumFunctionOnSet(a, S) \in Nat
<1>1. IsFiniteSet(S) /\ \A x \in S : a[x] \in Nat
  BY SecondsFinite
<1> QED
  BY <1>1, SumTypeNat

\* What is in either of two spans is at most what is in both together.
LEMMA ThroughCovered ==
  ASSUME NEW a \in [Seconds -> Nat], NEW S \in SUBSET Seconds, NEW T \in SUBSET Seconds,
         NEW U \in SUBSET (S \cup T)
  PROVE  SumFunctionOnSet(a, U) <= SumFunctionOnSet(a, S) + SumFunctionOnSet(a, T)
<1> DEFINE V == U \cap S
           W == U \ S
           S0 == S \ V
           T0 == T \ W
<1>1. /\ V \in SUBSET Seconds /\ W \in SUBSET Seconds
      /\ S0 \in SUBSET Seconds /\ T0 \in SUBSET Seconds
      /\ V \cap W = {} /\ V \cap S0 = {} /\ W \cap T0 = {}
      /\ V \cup W = U /\ V \cup S0 = S /\ W \cup T0 = T
  OBVIOUS
<1> HIDE DEF V, W, S0, T0
<1>2. ASSUME NEW A \in SUBSET Seconds, NEW B \in SUBSET Seconds, A \cap B = {}
      PROVE  SumFunctionOnSet(a, A \cup B) = SumFunctionOnSet(a, A) + SumFunctionOnSet(a, B)
  <2>1. IsFiniteSet(A) /\ IsFiniteSet(B) /\ \A x \in A \cup B : a[x] \in Int
    BY SecondsFinite
  <2> QED
    BY <1>2, <2>1, SumOfUnion
<1>3. SumFunctionOnSet(a, U) = SumFunctionOnSet(a, V) + SumFunctionOnSet(a, W)
  BY <1>1, <1>2
<1>4. SumFunctionOnSet(a, S) = SumFunctionOnSet(a, V) + SumFunctionOnSet(a, S0)
  BY <1>1, <1>2
<1>5. SumFunctionOnSet(a, T) = SumFunctionOnSet(a, W) + SumFunctionOnSet(a, T0)
  BY <1>1, <1>2
<1>6. /\ SumFunctionOnSet(a, V) \in Nat /\ SumFunctionOnSet(a, W) \in Nat
      /\ SumFunctionOnSet(a, S0) \in Nat /\ SumFunctionOnSet(a, T0) \in Nat
  BY <1>1, ThroughType
<1> QED
  BY <1>3, <1>4, <1>5, <1>6

\* Fewer seconds, fewer requests.
LEMMA ThroughSmaller ==
  ASSUME NEW a \in [Seconds -> Nat], NEW S \in SUBSET Seconds, NEW U \in SUBSET S
  PROVE  SumFunctionOnSet(a, U) <= SumFunctionOnSet(a, S)
<1>1. U \in SUBSET (S \cup {}) /\ {} \in SUBSET Seconds
  OBVIOUS
<1>2. SumFunctionOnSet(a, U) <= SumFunctionOnSet(a, S) + SumFunctionOnSet(a, {})
  BY <1>1, ThroughCovered
<1>3. SumFunctionOnSet(a, S) \in Nat
  BY ThroughType
<1> QED
  BY <1>2, <1>3, SumOfNone

\* One more at n counts where n is.
OneMore(n, a, b) ==
  /\ b \in [Seconds -> Nat]
  /\ \A S \in SUBSET Seconds :
       /\ n \in S => SumFunctionOnSet(b, S) = SumFunctionOnSet(a, S) + 1
       /\ n \notin S => SumFunctionOnSet(b, S) = SumFunctionOnSet(a, S)

LEMMA ThroughOneMore ==
  ASSUME NEW a \in [Seconds -> Nat], NEW n \in Seconds
  PROVE  OneMore(n, a, [a EXCEPT ![n] = @ + 1])
<1> DEFINE b == [a EXCEPT ![n] = @ + 1]
<1>1. /\ b \in [Seconds -> Nat] /\ b[n] = a[n] + 1 /\ a[n] \in Nat
      /\ \A x \in Seconds \ {n} : a[x] = b[x]
  OBVIOUS
<1> HIDE DEF b
<1>2. ASSUME NEW S \in SUBSET Seconds, n \in S
      PROVE  SumFunctionOnSet(b, S) = SumFunctionOnSet(a, S) + 1
  <2>1. IsFiniteSet(S) /\ SumFunctionOnSet(a, S) \in Nat
    BY SecondsFinite, ThroughType
  <2>2. \A x \in S : a[x] \in Int /\ b[x] \in Int
    BY <1>1
  <2>3. \A x \in S \ {n} : a[x] = b[x]
    BY <1>1
  <2>4. SumFunctionOnSet(b, S) = (SumFunctionOnSet(a, S) + b[n]) - a[n]
    BY ONLY <1>2, <2>1, <2>2, <2>3, SumOneChanges
  <2> QED
    BY <1>1, <2>1, <2>4
<1>3. ASSUME NEW S \in SUBSET Seconds, n \notin S
      PROVE  SumFunctionOnSet(b, S) = SumFunctionOnSet(a, S)
  <2>1. \A x \in S : b[x] = a[x]
    BY <1>1, <1>3
  <2> QED
    BY <2>1, SecondsFinite, SumSame
<1>4. OneMore(n, a, b)
  BY <1>1, <1>2, <1>3 DEF OneMore
<1> QED
  BY <1>4 DEF b

LEMMA ThroughNone ==
  ASSUME NEW a, NEW S \in SUBSET Seconds, \A s \in S : a[s] = 0
  PROVE  SumFunctionOnSet(a, S) = 0
BY SecondsFinite, SumAllZero

\* The time passes: nothing changes but what is now.
LEMMA WindowedLater ==
  ASSUME NEW n \in Nat, NEW e, NEW a, NEW w \in Nat \ {0}, NEW m, Windowed(n, e, a, w, m)
  PROVE  Windowed(n + 1, e, a, w, m)
<1>1. NoneLater(n + 1, e, a, w)
  BY DEF Windowed, NoneLater, Seconds
<1>2. InWindow(n + 1, e, a, w, m)
  BY DEF Windowed, InWindow
<1> QED
  BY <1>1, <1>2 DEF Windowed

\* An entry is cleaned: every request of its window has left every open span.
LEMMA WindowedCleaned ==
  ASSUME NEW n \in Nat, NEW e, NEW a, NEW w \in Nat \ {0}, NEW m \in Nat,
         Windowed(n, e, a, w, m), e.start <= n - 2 * w
  PROVE  Windowed(n, NoLimit, a, w, m)
<1>1. e \in [start : Nat, count : 0 .. m] /\ NoneLater(n, e, a, w)
  BY DEF Windowed
<1>2. NoneLater(n, NoLimit, a, w)
  <2>1. SUFFICES ASSUME NEW s \in Seconds, a[s] # 0 PROVE s <= n /\ s + w <= n
    BY DEF NoneLater, NoLimit
  <2>2. s \in Int /\ e.start \in Int
    BY <1>1, ProverAssumption DEF Seconds
  <2> QED
    BY <1>1, <2>1, <2>2 DEF NoneLater
<1>3. InWindow(n, NoLimit, a, w, m)
  BY DEF InWindow, NoLimit
<1>4. NoLimit \in [start : Nat, count : 0 .. m]
  BY DEF NoLimit
<1> QED
  BY <1>2, <1>3, <1>4 DEF Windowed

\* A request gets through in a window that is open.
LEMMA WindowedNext ==
  ASSUME NEW n \in Seconds, NEW e, NEW a, NEW w \in Nat \ {0}, NEW m \in Nat \ {0},
         Windowed(n, e, a, w, m), e.count # 0, n < e.start + w, e.count < m,
         NEW f, f = [e EXCEPT !.count = @ + 1],
         NEW b, b = [a EXCEPT ![n] = @ + 1]
  PROVE  Windowed(n, f, b, w, m)
<1>0. m \in Nat \ {0}
  OBVIOUS
<1>1. /\ e \in [start : Nat, count : 0 .. m] /\ a \in [Seconds -> Nat]
      /\ NoneLater(n, e, a, w) /\ InWindow(n, e, a, w, m) /\ WithinBound(a, w, m)
  BY DEF Windowed
<1>2. /\ e.start \in 0 .. n /\ a[e.start] # 0
      /\ SumFunctionOnSet(a, e.start .. MaxTime) = e.count
      /\ \A t \in Seconds : t < e.start /\ e.start < t + w =>
           SumFunctionOnSet(a, t .. (e.start - 1)) <= m - 1
  BY <1>1 DEF InWindow
<1>3. f.start = e.start /\ f.count = e.count + 1 /\ f \in [start : Nat, count : 0 .. m]
  BY <1>1
<1>4. n \in Nat /\ n <= MaxTime /\ MaxTime \in Nat
  BY ProverAssumption DEF Seconds
<1>5. e.start .. MaxTime \in SUBSET Seconds /\ n \in e.start .. MaxTime
  BY <1>2, <1>4 DEF Seconds
<1>6. /\ b \in [Seconds -> Nat]
      /\ \A S \in SUBSET Seconds : n \in S =>
           SumFunctionOnSet(b, S) = SumFunctionOnSet(a, S) + 1
      /\ \A S \in SUBSET Seconds : n \notin S =>
           SumFunctionOnSet(b, S) = SumFunctionOnSet(a, S)
  <2>1. OneMore(n, a, b)
    BY <1>1, ThroughOneMore
  <2> QED
    BY <2>1 DEF OneMore
<1>7. SumFunctionOnSet(b, e.start .. MaxTime) = e.count + 1
  BY <1>2, <1>5, <1>6
<1>8. ASSUME NEW t \in Seconds, t < e.start
      PROVE  /\ t .. (e.start - 1) \in SUBSET Seconds
             /\ SumFunctionOnSet(b, t .. (e.start - 1)) = SumFunctionOnSet(a, t .. (e.start - 1))
  <2>1. t .. (e.start - 1) \in SUBSET Seconds /\ n \notin t .. (e.start - 1)
    <3>1. e.start \in Nat /\ e.start <= n /\ t \in Nat
      BY <1>2, <1>4 DEF Seconds
    <3> QED
      BY <1>4, <3>1 DEF Seconds
  <2>2. SumFunctionOnSet(a, t .. (e.start - 1)) \in Nat
    BY <1>1, <2>1, ThroughType
  <2> QED
    BY <1>6, <2>1, <2>2
<1>9. NoneLater(n, f, b, w)
  <2>1. SUFFICES ASSUME NEW s \in Seconds, b[s] # 0 PROVE s <= n /\ s < e.start + w
    BY <1>1, <1>3 DEF NoneLater
  <2>2. CASE s = n
    BY <1>4, <2>2
  <2>3. CASE s # n
    BY <1>1, <2>1, <2>3 DEF NoneLater
  <2> QED
    BY <2>2, <2>3
<1>10. InWindow(n, f, b, w, m)
  <2>1. b[e.start] # 0
    BY <1>1, <1>2, <1>4 DEF Seconds
  <2> QED
    BY <1>2, <1>3, <1>7, <1>8, <2>1 DEF InWindow
<1>11. WithinBound(b, w, m)
  <2>1. SUFFICES ASSUME NEW t \in Seconds
                 PROVE  SumFunctionOnSet(b, SpanFrom(t, w)) <= BoundOf(w, m)
    BY DEF WithinBound
  <2> DEFINE D == SpanFrom(t, w)
  <2>2. t \in Nat /\ D \in SUBSET Seconds /\ D \in SUBSET (t .. MaxTime)
    BY DEF Seconds, SpanFrom
  <2>3. SumFunctionOnSet(a, D) <= BoundOf(w, m) /\ SumFunctionOnSet(a, D) \in Nat
    BY <1>1, <2>2, ThroughType DEF WithinBound
  <2>4. CASE n \notin D
    BY <1>6, <2>2, <2>3, <2>4
  <2>5. CASE n \in D
    <3>1. t <= n /\ n < t + w
      BY <2>2, <2>5, <1>4 DEF SpanFrom
    <3>2. m <= BoundOf(w, m) /\ e.count + 1 <= m
      BY <1>1 DEF BoundOf
    <3>3. CASE e.start <= t
      <4>1. D \in SUBSET (e.start .. MaxTime)
        BY <1>2, <2>2, <3>3
      <4>2. SumFunctionOnSet(b, D) <= SumFunctionOnSet(b, e.start .. MaxTime)
        BY <1>5, <1>6, <4>1, ThroughSmaller
      <4>3. BoundOf(w, m) \in Int /\ e.count \in Nat
        BY <1>1 DEF BoundOf
      <4>4. SumFunctionOnSet(b, D) \in Nat
        BY <1>6, <2>2, ThroughType
      <4>5. SumFunctionOnSet(b, D) <= e.count + 1
        BY <1>7, <4>2
      <4>9. SumFunctionOnSet(b, D) <= BoundOf(w, m)
        <5> HIDE DEF D
        <5> QED
          BY ONLY <3>2, <4>3, <4>4, <4>5, <1>0
      <4> QED
        BY <4>9
    <3>4. CASE t < e.start
      <4> DEFINE L == t .. (e.start - 1)
      <4>1. D \in SUBSET (L \cup (e.start .. MaxTime)) /\ L \in SUBSET Seconds
        BY <1>2, <1>4, <2>2, <3>4 DEF Seconds
      <4>2. SumFunctionOnSet(b, D)
              <= SumFunctionOnSet(b, L) + SumFunctionOnSet(b, e.start .. MaxTime)
        BY <1>5, <1>6, <4>1, ThroughCovered
      <4>3. SumFunctionOnSet(b, L) <= m - 1
        <5>1. e.start < t + w
          BY <1>2, <1>4, <2>2, <3>1
        <5>2. SumFunctionOnSet(a, L) <= m - 1
          BY <1>2, <3>4, <5>1
        <5> QED
          BY <1>8, <3>4, <5>2
      <4>4. SumFunctionOnSet(b, D) \in Nat /\ SumFunctionOnSet(b, L) \in Nat
        BY <1>6, <2>2, <4>1, ThroughType
      <4>5. w # 1
        BY <1>2, <1>4, <2>2, <3>1, <3>4
      <4>6. BoundOf(w, m) = 2 * m - 1
        BY <4>5 DEF BoundOf
      <4>7. e.count \in Nat
        BY <1>1
      <4>8. SumFunctionOnSet(b, D) <= SumFunctionOnSet(b, L) + (e.count + 1)
        BY <1>7, <4>2
      <4>9. SumFunctionOnSet(b, D) <= BoundOf(w, m)
        <5> HIDE DEF D, L
        <5> QED
          BY ONLY <3>2, <4>3, <4>4, <4>6, <4>7, <4>8, <1>0
      <4> QED
        BY <4>9
    <3> QED
      BY <1>2, <2>2, <3>3, <3>4
  <2> QED
    BY <2>4, <2>5
<1> QED
  BY <1>3, <1>6, <1>9, <1>10, <1>11 DEF Windowed

\* A request starts a new window.
LEMMA WindowedFirst ==
  ASSUME NEW n \in Seconds, NEW e, NEW a, NEW w \in Nat \ {0}, NEW m \in Nat \ {0},
         Windowed(n, e, a, w, m), e.count = 0 \/ e.start + w <= n,
         NEW f, f = [start |-> n, count |-> 1],
         NEW b, b = [a EXCEPT ![n] = @ + 1]
  PROVE  Windowed(n, f, b, w, m)
<1>0. m \in Nat \ {0}
  OBVIOUS
<1>1. /\ e \in [start : Nat, count : 0 .. m] /\ a \in [Seconds -> Nat]
      /\ NoneLater(n, e, a, w) /\ InWindow(n, e, a, w, m) /\ WithinBound(a, w, m)
  BY DEF Windowed
<1>2. n \in Nat /\ n <= MaxTime /\ MaxTime \in Nat
  BY ProverAssumption DEF Seconds
<1>3. f.start = n /\ f.count = 1 /\ f \in [start : Nat, count : 0 .. m]
  BY <1>2
<1>4. /\ b \in [Seconds -> Nat]
      /\ \A S \in SUBSET Seconds : n \in S =>
           SumFunctionOnSet(b, S) = SumFunctionOnSet(a, S) + 1
      /\ \A S \in SUBSET Seconds : n \notin S =>
           SumFunctionOnSet(b, S) = SumFunctionOnSet(a, S)
  <2>1. OneMore(n, a, b)
    BY <1>1, ThroughOneMore
  <2> QED
    BY <2>1 DEF OneMore
<1>5. ASSUME NEW s \in Seconds, n <= s PROVE a[s] = 0
  BY <1>1, <1>2, <1>5 DEF NoneLater, Seconds
<1>6. n .. MaxTime \in SUBSET Seconds /\ SumFunctionOnSet(a, n .. MaxTime) = 0
  <2>1. n .. MaxTime \in SUBSET Seconds /\ \A s \in n .. MaxTime : s \in Seconds /\ n <= s
    BY <1>2 DEF Seconds
  <2>2. \A s \in n .. MaxTime : a[s] = 0
    BY <1>5, <2>1
  <2> QED
    BY <2>1, <2>2, ThroughNone
<1>7. SumFunctionOnSet(b, n .. MaxTime) = 1
  <2>1. n \in n .. MaxTime
    BY <1>2
  <2>2. SumFunctionOnSet(b, n .. MaxTime) = SumFunctionOnSet(a, n .. MaxTime) + 1
    BY <1>4, <1>6, <2>1
  <2> QED
    BY <1>6, <2>2
<1>8. ASSUME NEW t \in Seconds, t < n, n < t + w
      PROVE  t .. (n - 1) \in SUBSET Seconds /\ SumFunctionOnSet(b, t .. (n - 1)) <= m - 1
  <2> DEFINE L == t .. (n - 1)
  <2>1. t \in Nat /\ L \in SUBSET Seconds /\ n \notin L
    BY <1>2 DEF Seconds
  <2>2. SumFunctionOnSet(a, L) \in Nat
    BY <1>1, <2>1, ThroughType
  <2>3. SumFunctionOnSet(b, L) = SumFunctionOnSet(a, L)
    BY <1>4, <2>1, <2>2
  <2>4. CASE e.count = 0
    <3>1. \A s \in L : a[s] = 0
      BY <1>1, <1>2, <1>8, <2>1, <2>4 DEF NoneLater, Seconds
    <3>2. SumFunctionOnSet(a, L) = 0
      BY <2>1, <3>1, ThroughNone
    <3> QED
      BY <2>1, <2>3, <3>2
  <2>5. CASE e.count # 0
    <3> DEFINE W == e.start .. MaxTime
    <3>1. /\ e.start \in 0 .. n /\ a[e.start] # 0 /\ e.start + w <= n
          /\ SumFunctionOnSet(a, W) = e.count
      BY <1>1, <2>5 DEF InWindow
    <3>2. W \in SUBSET Seconds /\ L \in SUBSET (W \ {e.start}) /\ e.start \in W
      BY <1>2, <1>8, <2>1, <3>1 DEF Seconds
    <3>3. W \ {e.start} \in SUBSET Seconds
      BY <3>2
    <3>4. SumFunctionOnSet(a, L) <= SumFunctionOnSet(a, W \ {e.start})
      BY <1>1, <3>2, <3>3, ThroughSmaller
    <3>5. SumFunctionOnSet(a, W) = a[e.start] + SumFunctionOnSet(a, W \ {e.start})
      <4>1. IsFiniteSet(W) /\ \A x \in W : a[x] \in Int
        <5> HIDE DEF W
        <5> QED
          BY <1>1, <3>2, SecondsFinite
      <4> QED
        BY <3>2, <4>1, SumTakeOut
    <3>6. a[e.start] \in Nat /\ SumFunctionOnSet(a, W \ {e.start}) \in Nat
      BY <1>1, <3>2, <3>3, ThroughType
    <3>7. e.count <= m /\ e.count \in Nat
      BY <1>1
    <3>8. SumFunctionOnSet(b, L) <= m - 1
      <4> HIDE DEF L, W
      <4> QED
        BY <2>2, <2>3, <3>1, <3>4, <3>5, <3>6, <3>7
    <3> QED
      BY <2>1, <3>8
  <2> QED
    BY <2>1, <2>4, <2>5
<1>9. NoneLater(n, f, b, w)
  <2>1. SUFFICES ASSUME NEW s \in Seconds, b[s] # 0 PROVE s <= n /\ s < n + w
    BY <1>3 DEF NoneLater
  <2>2. CASE s = n
    BY <1>2, <2>2
  <2>3. CASE s # n
    BY <1>1, <1>2, <1>5, <2>1, <2>3 DEF Seconds
  <2> QED
    BY <2>2, <2>3
<1>10. InWindow(n, f, b, w, m)
  <2>1. b[n] # 0
    BY <1>1
  <2>2. f.start \in 0 .. n
    BY <1>2, <1>3
  <2>3. \A t \in Seconds : t < n /\ n < t + w => SumFunctionOnSet(b, t .. (n - 1)) <= m - 1
    BY <1>8
  <2> QED
    BY <1>3, <1>7, <2>1, <2>2, <2>3 DEF InWindow
<1>11. WithinBound(b, w, m)
  <2>1. SUFFICES ASSUME NEW t \in Seconds
                 PROVE  SumFunctionOnSet(b, SpanFrom(t, w)) <= BoundOf(w, m)
    BY DEF WithinBound
  <2> DEFINE D == SpanFrom(t, w)
  <2>2. t \in Nat /\ D \in SUBSET Seconds /\ D \in SUBSET (t .. MaxTime)
    BY DEF Seconds, SpanFrom
  <2>3. SumFunctionOnSet(a, D) <= BoundOf(w, m) /\ SumFunctionOnSet(a, D) \in Nat
    BY <1>1, <2>2, ThroughType DEF WithinBound
  <2>4. CASE n \notin D
    BY <1>4, <2>2, <2>3, <2>4
  <2>5. CASE n \in D
    <3>1. t <= n /\ n < t + w
      BY <2>2, <2>5, <1>2 DEF SpanFrom
    <3>2. m <= BoundOf(w, m)
      BY DEF BoundOf
    <3>3. SumFunctionOnSet(b, D) \in Nat
      BY <1>4, <2>2, ThroughType
    <3>4. CASE t = n
      <4>1. D \in SUBSET (n .. MaxTime)
        BY <2>2, <3>4
      <4>2. SumFunctionOnSet(b, D) <= SumFunctionOnSet(b, n .. MaxTime)
        BY <1>4, <1>6, <4>1, ThroughSmaller
      <4> QED
        BY <1>7, <3>2, <3>3, <4>2 DEF BoundOf
    <3>5. CASE t < n
      <4> DEFINE L == t .. (n - 1)
      <4>1. D \in SUBSET (L \cup (n .. MaxTime)) /\ L \in SUBSET Seconds
        BY <1>2, <2>2, <3>5 DEF Seconds
      <4>2. SumFunctionOnSet(b, D) <= SumFunctionOnSet(b, L) + SumFunctionOnSet(b, n .. MaxTime)
        BY <1>4, <1>6, <4>1, ThroughCovered
      <4>3. SumFunctionOnSet(b, L) <= m - 1
        BY <1>8, <3>1, <3>5
      <4>4. SumFunctionOnSet(b, L) \in Nat
        BY <1>4, <4>1, ThroughType
      <4>5. BoundOf(w, m) \in Int
        BY DEF BoundOf
      <4>6. SumFunctionOnSet(b, D) <= m
        <5> HIDE DEF D, L
        <5> QED
          BY <1>7, <3>3, <4>2, <4>3, <4>4
      <4>9. SumFunctionOnSet(b, D) <= BoundOf(w, m)
        <5> HIDE DEF D, L
        <5> QED
          BY ONLY <3>2, <3>3, <4>5, <4>6, <1>0
      <4> QED
        BY <4>9
    <3> QED
      BY <1>2, <2>2, <3>1, <3>4, <3>5
  <2> QED
    BY <2>4, <2>5
<1> QED
  BY <1>3, <1>4, <1>9, <1>10, <1>11 DEF Windowed

\* check_and_update for a key that is not limited.
LEMMA WindowedCounted ==
  ASSUME NEW k, NEW w \in Nat \ {0}, NEW m \in Nat \ {0}, now \in Seconds,
         Windowed(now, limits[k], admitted[k], w, m), ~Limited(k, w, m)
  PROVE  Windowed(now, Counted(k, w, m), [admitted[k] EXCEPT ![now] = @ + 1], w, m)
<1> DEFINE f == Counted(k, w, m)
           b == [admitted[k] EXCEPT ![now] = @ + 1]
<1>1. limits[k] \in [start : Nat, count : 0 .. m] /\ now \in Nat
  BY ProverAssumption DEF Windowed, Seconds
<1>2. CASE Elapsed(limits[k], w)
  <2>1. f = [start |-> now, count |-> 1]
    BY <1>2 DEF Counted
  <2>2. limits[k].count = 0 \/ limits[k].start + w <= now
    BY <1>1, <1>2 DEF Elapsed
  <2> HIDE DEF f, b
  <2>3. b = [admitted[k] EXCEPT ![now] = @ + 1]
    BY DEF b
  <2>4. Windowed(now, f, b, w, m)
    BY <2>1, <2>2, <2>3, WindowedFirst
  <2> QED
    BY <2>4 DEF f, b
<1>3. CASE ~Elapsed(limits[k], w)
  <2>1. f = [limits[k] EXCEPT !.count = @ + 1]
    BY <1>3 DEF Counted
  <2>2. limits[k].count # 0 /\ now < limits[k].start + w /\ limits[k].count < m
    BY <1>1, <1>3 DEF Elapsed, Limited
  <2> HIDE DEF f, b
  <2>3. b = [admitted[k] EXCEPT ![now] = @ + 1]
    BY DEF b
  <2>4. Windowed(now, f, b, w, m)
    BY <2>1, <2>2, <2>3, WindowedNext
  <2> QED
    BY <2>4 DEF f, b
<1> QED
  BY <1>2, <1>3

LEMMA KeysSplit ==
  /\ Ips \cap Pubkeys = {} /\ MaxTime \in Nat
  /\ \A k \in Keys : WindowOf(k) \in Nat \ {0} /\ MaxOf(k) \in Nat \ {0}
BY ProverAssumption DEF Keys, WindowOf, MaxOf

\* What a limiter does with a key, whether it lets the request through or not.
LEMMA LimitsOfKey ==
  ASSUME Inv, LimitsKept, NEW k \in Keys,
         \/ /\ limits'[k] = limits[k]
            /\ admitted'[k] = admitted[k]
         \/ /\ ~Limited(k, WindowOf(k), MaxOf(k))
            /\ limits'[k] = Counted(k, WindowOf(k), MaxOf(k))
            /\ admitted'[k] = [admitted[k] EXCEPT ![now] = @ + 1],
         now' = now
  PROVE  Windowed(now', limits'[k], admitted'[k], WindowOf(k), MaxOf(k))
<1>1. Windowed(now, limits[k], admitted[k], WindowOf(k), MaxOf(k))
  BY DEF LimitsKept
<1>2. now \in Seconds
  BY DEF Inv, Typed, HandlerTyped, Seconds
<1>3. CASE limits'[k] = limits[k] /\ admitted'[k] = admitted[k]
  BY <1>1, <1>3
<1>4. CASE /\ ~Limited(k, WindowOf(k), MaxOf(k))
           /\ limits'[k] = Counted(k, WindowOf(k), MaxOf(k))
           /\ admitted'[k] = [admitted[k] EXCEPT ![now] = @ + 1]
  <2>1. WindowOf(k) \in Nat \ {0} /\ MaxOf(k) \in Nat \ {0}
    BY KeysSplit
  <2>2. Windowed(now, Counted(k, WindowOf(k), MaxOf(k)),
                 [admitted[k] EXCEPT ![now] = @ + 1], WindowOf(k), MaxOf(k))
    BY <1>1, <1>2, <1>4, <2>1, WindowedCounted
  <2> QED
    BY <1>4, <2>2
<1> QED
  BY <1>3, <1>4

\* What is windowed is typed.
LEMMA LimitsTyped ==
  ASSUME DOMAIN limits' = Keys, limits' = [k \in DOMAIN limits' |-> limits'[k]],
         DOMAIN admitted' = Keys, admitted' = [k \in DOMAIN admitted' |-> admitted'[k]],
         \A k \in Keys : Windowed(now', limits'[k], admitted'[k], WindowOf(k), MaxOf(k))
  PROVE  LimitsKept'
<1>1. \A k \in Keys : /\ limits'[k] \in [start : Nat, count : 0 .. MaxOf(k)]
                      /\ admitted'[k] \in [Seconds -> Nat] /\ MaxOf(k) \in Nat
  BY KeysSplit DEF Windowed
<1>2. \A k \in Keys : limits'[k] \in [start : Nat, count : Nat]
  BY <1>1
<1> QED
  BY <1>1, <1>2 DEF LimitsKept

LEMMA LimitsAdmit ==
  ASSUME Inv, LimitsKept, NEW c \in Calls, NEW r \in Requests, NEW ip \in Ips, Admit(c, r, ip)
  PROVE  LimitsKept'
<1> DEFINE key == PubkeyOf(r)
           toKey == ~Limited(ip, IpWindow, IpMax) /\ r \in Eligible
           passed == toKey /\ ~Limited(key, KeyWindow, KeyMax)
           through == (IF Limited(ip, IpWindow, IpMax) THEN {} ELSE {ip})
                        \cup (IF passed THEN {key} ELSE {})
<1>1. /\ limits' = [limits EXCEPT ![ip] = Counted(ip, IpWindow, IpMax),
                                  ![key] = IF toKey THEN Counted(key, KeyWindow, KeyMax) ELSE @]
      /\ admitted' = [k \in DOMAIN admitted |->
                       IF k \in through THEN [admitted[k] EXCEPT ![now] = @ + 1] ELSE admitted[k]]
      /\ now' = now
  BY DEF Admit
<1>2. /\ limits \in [Keys -> [start : Nat, count : Nat]]
      /\ admitted \in [Keys -> [Seconds -> Nat]]
  BY DEF LimitsKept
<1>3. ip \in Keys /\ key \in Keys /\ key \notin Ips /\ key # ip
  BY KeysSplit DEF Keys, Pubkeys
<1>4. DOMAIN limits' = Keys /\ DOMAIN admitted' = Keys
  BY <1>1, <1>2
<1>5. /\ limits'[ip] = Counted(ip, IpWindow, IpMax)
      /\ toKey => limits'[key] = Counted(key, KeyWindow, KeyMax)
      /\ ~toKey => limits'[key] = limits[key]
      /\ \A k \in Keys \ {ip, key} : limits'[k] = limits[k]
  <2> HIDE DEF key, toKey
  <2> QED
    BY <1>1, <1>2, <1>3
<1>6. \A k \in Keys : /\ k \in through => admitted'[k] = [admitted[k] EXCEPT ![now] = @ + 1]
                      /\ k \notin through => admitted'[k] = admitted[k]
  <2> HIDE DEF through
  <2> QED
    BY <1>1, <1>2
<1>7. /\ Limited(ip, IpWindow, IpMax) => Counted(ip, IpWindow, IpMax) = limits[ip]
      /\ Limited(key, KeyWindow, KeyMax) => Counted(key, KeyWindow, KeyMax) = limits[key]
  BY DEF Limited, Counted
<1>8. /\ ip \in through <=> ~Limited(ip, IpWindow, IpMax)
      /\ key \in through <=> passed
      /\ \A k \in Keys \ {ip, key} : k \notin through
  <2> HIDE DEF key, passed
  <2> QED
    BY <1>3
<1>9. /\ WindowOf(ip) = IpWindow /\ MaxOf(ip) = IpMax
      /\ WindowOf(key) = KeyWindow /\ MaxOf(key) = KeyMax
  <2> HIDE DEF key
  <2> QED
    BY <1>3 DEF WindowOf, MaxOf
<1> HIDE DEF through, key
<1>10. ASSUME NEW k \in Keys
       PROVE  Windowed(now', limits'[k], admitted'[k], WindowOf(k), MaxOf(k))
  <2>1. CASE k = ip
    <3>1. CASE Limited(ip, IpWindow, IpMax)
      BY <1>1, <1>5, <1>6, <1>7, <1>8, <2>1, <3>1, LimitsOfKey
    <3>2. CASE ~Limited(ip, IpWindow, IpMax)
      BY <1>1, <1>5, <1>6, <1>8, <1>9, <2>1, <3>2, LimitsOfKey
    <3> QED
      BY <3>1, <3>2
  <2>2. CASE k = key
    <3>1. CASE passed
      BY <1>1, <1>5, <1>6, <1>8, <1>9, <2>2, <3>1, LimitsOfKey
    <3>2. CASE ~passed
      <4>1. limits'[key] = limits[key]
        BY <1>5, <1>7, <3>2
      <4> QED
        BY <1>1, <1>6, <1>8, <2>2, <3>2, <4>1, LimitsOfKey
    <3> QED
      BY <3>1, <3>2
  <2>3. CASE k \notin {ip, key}
    BY <1>1, <1>5, <1>6, <1>8, <2>3, LimitsOfKey
  <2> QED
    BY <2>1, <2>2, <2>3
<1> QED
  BY <1>1, <1>2, <1>4, <1>10, LimitsTyped

LEMMA LimitsCleaned ==
  ASSUME Inv, LimitsKept, LimitsCleanup
  PROVE  LimitsKept'
<1> DEFINE fresh(k) == limits[k].start > now - 2 * WindowOf(k)
<1>1. /\ limits \in [Keys -> [start : Nat, count : Nat]]
      /\ admitted \in [Keys -> [Seconds -> Nat]]
      /\ now \in Nat
  BY ProverAssumption DEF LimitsKept, Inv, Typed, HandlerTyped
<1>2. /\ \A k \in Keys : limits'[k] = IF fresh(k) THEN limits[k] ELSE NoLimit
      /\ limits' \in [Keys -> [start : Nat, count : Nat]]
      /\ UNCHANGED <<now, admitted>>
  <2>1. NoLimit \in [start : Nat, count : Nat]
    BY DEF NoLimit
  <2> QED
    BY <1>1, <2>1 DEF LimitsCleanup, WindowOf
<1>3. ASSUME NEW k \in Keys
      PROVE  Windowed(now', limits'[k], admitted'[k], WindowOf(k), MaxOf(k))
  <2>1. Windowed(now, limits[k], admitted[k], WindowOf(k), MaxOf(k))
    BY DEF LimitsKept
  <2>2. WindowOf(k) \in Nat \ {0} /\ MaxOf(k) \in Nat \ {0}
    BY KeysSplit
  <2>3. CASE ~fresh(k)
    <3>1. Windowed(now, NoLimit, admitted[k], WindowOf(k), MaxOf(k))
      BY <1>1, <2>1, <2>2, <2>3, WindowedCleaned
    <3> QED
      BY <1>2, <2>3, <3>1
  <2>4. CASE fresh(k)
    BY <1>2, <2>1, <2>4
  <2> QED
    BY <2>3, <2>4
<1> QED
  BY <1>1, <1>2, <1>3, LimitsTyped

\* No request has got through yet.
LEMMA WindowedFresh ==
  ASSUME NEW n, NEW k \in Keys
  PROVE  Windowed(n, NoLimit, [t \in Seconds |-> 0], WindowOf(k), MaxOf(k))
<1> DEFINE a == [t \in Seconds |-> 0]
           w == WindowOf(k)
           m == MaxOf(k)
<1>1. w \in Nat \ {0} /\ m \in Nat \ {0}
  BY KeysSplit
<1>2. a \in [Seconds -> Nat] /\ \A s \in Seconds : a[s] = 0
  OBVIOUS
<1> HIDE DEF a, w, m
<1>3. WithinBound(a, w, m)
  <2>1. SUFFICES ASSUME NEW t \in Seconds
                 PROVE  SumFunctionOnSet(a, SpanFrom(t, w)) <= BoundOf(w, m)
    BY DEF WithinBound
  <2>2. SpanFrom(t, w) \in SUBSET Seconds
    BY ProverAssumption DEF SpanFrom, Seconds
  <2>3. SumFunctionOnSet(a, SpanFrom(t, w)) = 0
    BY <1>2, <2>2, ThroughNone
  <2> QED
    BY <1>1, <2>3 DEF BoundOf
<1>4. Windowed(n, NoLimit, a, w, m)
  BY <1>1, <1>2, <1>3 DEF Windowed, NoneLater, InWindow, NoLimit
<1> QED
  BY <1>4 DEF a, w, m

LEMMA LimitsStep == Inv /\ LimitsKept /\ [Next]_vars => LimitsKept'
<1> SUFFICES ASSUME Inv, LimitsKept, [Next]_vars PROVE LimitsKept'
  OBVIOUS
<1>1. ASSUME UNCHANGED <<now, limits, admitted>> PROVE LimitsKept'
  BY <1>1 DEF LimitsKept
<1>2. CASE Tick
  <2>1. now \in Nat /\ now' = now + 1 /\ UNCHANGED <<limits, admitted>>
    BY <1>2 DEF Tick, memory, Inv, Typed, HandlerTyped
  <2>2. ASSUME NEW k \in Keys
        PROVE  Windowed(now', limits'[k], admitted'[k], WindowOf(k), MaxOf(k))
    <3>1. Windowed(now, limits[k], admitted[k], WindowOf(k), MaxOf(k))
      BY DEF LimitsKept
    <3>2. WindowOf(k) \in Nat \ {0}
      BY KeysSplit
    <3>3. Windowed(now + 1, limits[k], admitted[k], WindowOf(k), MaxOf(k))
      BY <2>1, <3>1, <3>2, WindowedLater
    <3> QED
      BY <2>1, <3>3
  <2> QED
    BY <2>1, <2>2 DEF LimitsKept
<1>3. ASSUME NEW c \in Calls, NEW r \in Requests, NEW ip \in Ips, Admit(c, r, ip)
      PROVE  LimitsKept'
  BY <1>3, LimitsAdmit
<1>4. CASE LimitsCleanup
  BY <1>4, LimitsCleaned
<1>5. CASE Restart
  <2>1. /\ limits' = [k \in Keys |-> NoLimit]
        /\ admitted' = [k \in Keys |-> [t \in Seconds |-> 0]]
    BY <1>5 DEF Restart, Keys, Seconds, LimitsKept
  <2>2. ASSUME NEW k \in Keys
        PROVE  Windowed(now', limits'[k], admitted'[k], WindowOf(k), MaxOf(k))
    BY <2>1, WindowedFresh
  <2> QED
    BY <2>1, <2>2, LimitsTyped
<1>6. CASE CacheCleanup \/ JobsCleanup \/ Receive \/ CountReceived \/ Spawn \/ UNCHANGED vars
  BY <1>1, <1>6 DEF CacheCleanup, JobsCleanup, Receive, CountReceived, Spawn, vars, memory
<1>7. ASSUME NEW c \in Calls, HandlerStep(c) \/ Disconnect(c) PROVE LimitsKept'
  BY <1>1, <1>7 DEF HandlerStep, Disconnect, LookUp, CheckClaimed, LoadSize, TrySend, CountSent,
       InsertPending, memory
<1>8. ASSUME NEW c \in Calls, Run(c) \/ TimeOut(c) \/ Finish(c) PROVE LimitsKept'
  BY <1>1, <1>8 DEF Run, TimeOut, Finish, Prove, Fail, Publish, End
<1> QED
  BY <1>2, <1>3, <1>4, <1>5, <1>6, <1>7, <1>8 DEF Next, Dispatch, Cleanup

\* Fixed windows that do not slide let no more than twice the limit, less one,
\* through in any span as long as the window, and the cleanup forgets no window
\* that still counts, for any limits, windows, clients and accounts
\* (rate_limit.rs:38-85).
THEOREM RateBoundCorrect == Spec => []RateBound
<1>1. Init => LimitsKept
  <2> SUFFICES ASSUME Init PROVE LimitsKept
    OBVIOUS
  <2>1. /\ limits = [k \in Keys |-> NoLimit]
        /\ admitted = [k \in Keys |-> [t \in Seconds |-> 0]]
    BY DEF Init, Keys, Seconds
  <2>2. \A k \in Keys : Windowed(now, limits[k], admitted[k], WindowOf(k), MaxOf(k))
    BY <2>1, WindowedFresh
  <2>3. /\ limits \in [Keys -> [start : Nat, count : Nat]]
        /\ admitted \in [Keys -> [Seconds -> Nat]]
    BY <2>1 DEF NoLimit
  <2> QED
    BY <2>2, <2>3 DEF LimitsKept
<1>2. LimitsKept => RateBound
  <2> SUFFICES ASSUME LimitsKept PROVE RateBound
    OBVIOUS
  <2>1. \A k \in Keys : WithinBound(admitted[k], WindowOf(k), MaxOf(k))
    BY DEF LimitsKept, Windowed
  <2>2. \A k \in Ips : WithinBound(admitted[k], IpWindow, IpMax)
    BY <2>1 DEF Keys, WindowOf, MaxOf
  <2>3. \A k \in Pubkeys : WithinBound(admitted[k], KeyWindow, KeyMax)
    BY <2>1, KeysSplit DEF Keys, WindowOf, MaxOf
  <2> QED
    BY <2>2, <2>3 DEF RateBound, WithinBound, SpanFrom, BoundOf, Seconds
<1> QED
  BY <1>1, <1>2, InvInit, InvStep, LimitsStep, PTL DEF Spec
=============================================================================

---------------------------- MODULE RegistryOutbox ----------------------------
(***************************************************************************)
(* The outbox of signed hosting records of one identity (RegistryService,  *)
(* IdentityRegistryRepository and OutboxRepository), together with the     *)
(* rotations of its root (RootRotation), whose last act is to announce the *)
(* new root through the outbox.  Requests add and remove registries, sync  *)
(* (sign and push with the password at hand), retry and cancel jobs; a     *)
(* poller pushes what is signed and undelivered.  All of them read jobs    *)
(* first and act on the copies some awaits later.                          *)
(*                                                                         *)
(* The registries are external.  As the comments on pushJob tell, one      *)
(* accepts an update only if its signature verifies under the head of the  *)
(* chain sent along; a takedown takes away the record there is, whenever   *)
(* it arrives.  (How a registry weighs the times that are signed along is  *)
(* not in this repository.)  Backoff delays are left out: a job that waits *)
(* for its next attempt may be due at any tick of the poller.              *)
(***************************************************************************)
EXTENDS RootRotation, Sequences

CONSTANTS Urls,          \* registries a record may be announced to
          Requests,      \* bound: requests of the user under way at once
          Poller,
          Asked,         \* the kinds of requests that are made
          MaxAttempts,   \* outbox.max_attempts
          MaxJobs,       \* bound: rows of outbox
          MaxRequests    \* bound: requests ever made

ASSUME OutboxBounds == MaxAttempts \in Nat \ {0} /\ MaxJobs \in Nat /\ MaxRequests \in Nat
ASSUME OutboxNone == None \notin {"pending", "synced", "error"}
ASSUME OutboxSlots == Poller \notin Requests /\ Rotators \cap (Requests \cup {Poller}) = {}

VARIABLES
  regs,      \* identity_registry.status of each url, None without a row
  jobs,      \* the rows of outbox in the order they were created
  tasks,     \* requests, announcements of rotations and the poller at work
  shown,     \* registries: the root of the last update accepted, None before
  gone,      \* registries: those that took a takedown after that update
  accepted,  \* history: jobs a registry has accepted
  requests,  \* history: how many requests were made
  crossed    \* history: a rotation and other work on the outbox crossed

outbox == <<regs, jobs, shown, gone, accepted>>
outboxVars == <<outbox, tasks, requests, crossed>>
vars == <<rotationVars, outboxVars>>

Workers == Requests \cup {Poller}
Job == [action : {"update", "delete"}, url : Urls,
        status : {"pending", "failed", "completed", "cancelled"},
        attempts : 0..MaxAttempts, sig : Roots \cup {None}]
Copy == [job : 1..MaxJobs, sig : Roots \cup {None}, attempts : 0..MaxAttempts]
Kinds == {"add", "remove", "sync", "retry", "cancel", "republish", "deliver"}
Stages == {"insert", "enqueue", "drop", "write", "regs", "active", "clear", "each",
           "status", "reread", "sign", "next", "post", "complete", "synced", "fail", "error"}
Task == [kind : Kinds, stage : Stages,
         url : Urls \cup {None},
         root : Roots \cup {None},     \* the key at hand for signing
         head : Roots,                 \* the head of the chain sent along
         urls : SUBSET Urls, active : SUBSET Urls,
         batch : SUBSET Copy]          \* copies of the jobs still to be handled
ASSUME OutboxTasks == None \notin Task

TypeOK ==
  /\ RotationTypeOK
  /\ regs \in [Urls -> {None, "pending", "synced", "error"}]
  /\ jobs \in Seq(Job) /\ Len(jobs) <= MaxJobs
  /\ tasks \in [Workers \cup Rotators -> Task \cup {None}]
  /\ shown \in [Urls -> Roots \cup {None}]
  /\ gone \subseteq Urls
  /\ accepted \subseteq 1..Len(jobs)
  /\ requests \in 0..MaxRequests
  /\ crossed \in BOOLEAN

Init ==
  /\ RotationInit
  /\ regs = [u \in Urls |-> None]
  /\ jobs = <<>>
  /\ tasks = [k \in Workers \cup Rotators |-> None]
  /\ shown = [u \in Urls |-> None]
  /\ gone = {}
  /\ accepted = {}
  /\ requests = 0
  /\ crossed = FALSE

-----------------------------------------------------------------------------
Active(j) == jobs[j].status \in {"pending", "failed"}
Snapshot(js) ==
  {[job |-> j, sig |-> jobs[j].sig, attempts |-> jobs[j].attempts] : j \in js}

At(k, stage) == tasks[k] # None /\ tasks[k].stage = stage
(* The copy a handler has in hand: jobs are read in the order they were    *)
(* created, and handled in that order.                                     *)
InHand(k) == CHOOSE c \in tasks[k].batch : \A d \in tasks[k].batch : c.job <= d.job
Updates(k) == jobs[InHand(k).job].action = "update"

Goto(k, stage) == tasks' = [tasks EXCEPT ![k].stage = stage]
Done(k) == tasks' = [tasks EXCEPT ![k] = None]
Blank(kind, stage) ==
  [kind |-> kind, stage |-> stage, url |-> None, root |-> None, head |-> Genesis,
   urls |-> {}, active |-> {}, batch |-> {}]

(* A rotation has been appended and is not announced everywhere yet.       *)
Unannounced(r) ==
  \/ rots[r] # None /\ rots[r].stage \in {"resign", "republish"}
  \/ tasks[r] # None

(* Work on the outbox starts.                                              *)
Start(k, task) ==
  /\ tasks[k] = None
  /\ tasks' = [tasks EXCEPT ![k] = task]
  /\ crossed' = (crossed \/ \E r \in Rotators : Unannounced(r))

Request(k, task) ==
  /\ k \in Requests
  /\ task.kind \in Asked
  /\ requests < MaxRequests
  /\ requests' = requests + 1
  /\ Start(k, task)
  /\ UNCHANGED <<rotationVars, outbox>>

Enqueue(action, u) ==
  /\ Len(jobs) < MaxJobs
  /\ jobs' = Append(jobs, [action |-> action, url |-> u, status |-> "pending",
                           attempts |-> 0, sig |-> None])

(* A database call outside any try block fails: the handler stops there.   *)
Throw(k) ==
  /\ tasks[k] # None
  /\ tasks[k].stage \notin {"post", "complete", "synced", "sign"}
  /\ tasks[k].stage = "next" => tasks[k].batch # {} /\ InHand(k).sig = None
  /\ Fault
  /\ Done(k)
  /\ UNCHANGED <<identity, rots, outbox, requests, crossed>>

-----------------------------------------------------------------------------
(* addRegistry: find, insert (url and identity are unique), enqueue.       *)
StartAdd(k, u) ==
  /\ regs[u] = None
  /\ Request(k, [Blank("add", "insert") EXCEPT !.url = u])

InsertRegistry(k) ==
  /\ At(k, "insert")
  /\ IF regs[tasks[k].url] = None
     THEN regs' = [regs EXCEPT ![tasks[k].url] = "pending"] /\ Goto(k, "enqueue")
     ELSE UNCHANGED regs /\ Done(k)
  /\ UNCHANGED <<rotationVars, jobs, shown, gone, accepted, requests, crossed>>

(* removeRegistry: find, enqueue the takedown, drop the row.               *)
StartRemove(k, u) ==
  /\ regs[u] # None
  /\ Request(k, [Blank("remove", "enqueue") EXCEPT !.url = u])

EnqueueAsked(k) ==
  /\ At(k, "enqueue")
  /\ IF tasks[k].kind = "add"
     THEN Enqueue("update", tasks[k].url) /\ Done(k)
     ELSE Enqueue("delete", tasks[k].url) /\ Goto(k, "drop")
  /\ UNCHANGED <<rotationVars, regs, shown, gone, accepted, requests, crossed>>

DropRegistry(k) ==
  /\ At(k, "drop")
  /\ regs' = [regs EXCEPT ![tasks[k].url] = None]
  /\ Done(k)
  /\ UNCHANGED <<rotationVars, jobs, shown, gone, accepted, requests, crossed>>

(* retryJob and cancelJob check the status they read, then write.          *)
StartRetry(k, j) ==
  /\ jobs[j].status \notin {"completed", "cancelled"}
  /\ Request(k, [Blank("retry", "write") EXCEPT !.batch = Snapshot({j})])

StartCancel(k, j) ==
  /\ jobs[j].status # "completed"
  /\ Request(k, [Blank("cancel", "write") EXCEPT !.batch = Snapshot({j})])

WriteStatus(k) ==
  /\ At(k, "write")
  /\ jobs' = [jobs EXCEPT ![InHand(k).job].status =
                IF tasks[k].kind = "retry" THEN "pending" ELSE "cancelled"]
  /\ Done(k)
  /\ UNCHANGED <<rotationVars, regs, shown, gone, accepted, requests, crossed>>

-----------------------------------------------------------------------------
(* republishAfterRotation, with the new root at hand if it is custodial.   *)
(* Without a registry it ends at once, and jobs of removed registries keep *)
(* the signatures they have.                                               *)
StartRepublish(k) ==
  /\ FinishRotation(k)
  /\ tasks[k] = None
  /\ tasks' = [tasks EXCEPT ![k] = [Blank("republish", "regs") EXCEPT
       !.root = IF Custodial(k) THEN rots[k].stmt.new ELSE None]]
  /\ UNCHANGED <<outbox, requests, crossed>>

ReadRegistries(k) ==
  /\ At(k, "regs")
  /\ LET known == {u \in Urls : regs[u] # None}
     IN IF known = {}
        THEN Done(k) /\ crossed' = (crossed \/ \E j \in DOMAIN jobs : Active(j))
        ELSE /\ tasks' = [tasks EXCEPT ![k] = [@ EXCEPT !.stage = "active", !.urls = known]]
             /\ UNCHANGED crossed
  /\ UNCHANGED <<rotationVars, outbox, requests>>

ReadAnnounced(k) ==
  /\ At(k, "active") /\ tasks[k].kind = "republish"
  /\ tasks' = [tasks EXCEPT ![k] = [@ EXCEPT !.stage = "clear",
       !.active = {jobs[j].url : j \in {i \in DOMAIN jobs :
                        Active(i) /\ jobs[i].action = "update"}}]]
  /\ UNCHANGED <<rotationVars, outbox, requests, crossed>>

\* Mutant: jobs that are over are armed again too.
ClearEverything(k) ==
  /\ At(k, "clear")
  /\ jobs' = [j \in DOMAIN jobs |->
       IF jobs[j].action = "update"
       THEN [jobs[j] EXCEPT !.sig = None, !.status = "pending", !.attempts = 0]
       ELSE jobs[j]]
  /\ Goto(k, "each")
  /\ UNCHANGED <<rotationVars, regs, shown, gone, accepted, requests, crossed>>

\* Mutant: signatures of the retired root stay on the jobs.
ClearNothing(k) ==
  /\ At(k, "clear")
  /\ Goto(k, "each")
  /\ UNCHANGED <<rotationVars, outbox, requests, crossed>>

(* clearUpdateSignaturesForActor: one statement over the jobs not over.    *)
ClearSignatures(k) ==
  /\ At(k, "clear")
  /\ jobs' = [j \in DOMAIN jobs |->
       IF Active(j) /\ jobs[j].action = "update"
       THEN [jobs[j] EXCEPT !.sig = None, !.status = "pending", !.attempts = 0]
       ELSE jobs[j]]
  /\ Goto(k, "each")
  /\ UNCHANGED <<rotationVars, regs, shown, gone, accepted, requests, crossed>>

\* Mutant: no new job for a registry that has none.
NothingEnqueued(k) ==
  /\ At(k, "each")
  /\ \E u \in tasks[k].urls :
       tasks' = [tasks EXCEPT ![k] = [@ EXCEPT !.stage = "status", !.url = u]]
  /\ UNCHANGED <<rotationVars, outbox, requests, crossed>>

(* Each registry without an active update gets one ...                     *)
AnnounceTo(k) ==
  /\ At(k, "each")
  /\ \E u \in tasks[k].urls :
       /\ IF u \in tasks[k].active THEN UNCHANGED jobs ELSE Enqueue("update", u)
       /\ tasks' = [tasks EXCEPT ![k] = [@ EXCEPT !.stage = "status", !.url = u]]
  /\ UNCHANGED <<rotationVars, regs, shown, gone, accepted, requests, crossed>>

(* ... and waits for it: UPDATE touches no row that is gone.               *)
MarkPending(k) ==
  /\ At(k, "status")
  /\ LET u == tasks[k].url
         left == tasks[k].urls \ {u}
     IN /\ regs' = [regs EXCEPT ![u] = IF @ = None THEN None ELSE "pending"]
        /\ IF left # {} THEN tasks' = [tasks EXCEPT ![k] = [@ EXCEPT !.stage = "each", !.urls = left]]
           ELSE IF tasks[k].root = None THEN Done(k)
           ELSE tasks' = [tasks EXCEPT ![k] = [@ EXCEPT !.stage = "reread", !.urls = left]]
  /\ UNCHANGED <<rotationVars, jobs, shown, gone, accepted, requests, crossed>>

ReadUnsigned(k) ==
  /\ At(k, "reread")
  /\ tasks' = [tasks EXCEPT ![k] = [@ EXCEPT !.stage = "sign",
       !.batch = Snapshot({j \in DOMAIN jobs :
                       Active(j) /\ jobs[j].action = "update" /\ jobs[j].sig = None})]]
  /\ UNCHANGED <<rotationVars, outbox, requests, crossed>>

(* A signature that cannot be saved is given up, the next one is tried.    *)
SignAgain(k) ==
  /\ At(k, "sign")
  /\ IF tasks[k].batch = {} THEN Done(k) /\ UNCHANGED <<jobs, faults>>
     ELSE /\ tasks' = [tasks EXCEPT ![k].batch = @ \ {InHand(k)}]
          /\ \/ /\ jobs' = [jobs EXCEPT ![InHand(k).job].sig = tasks[k].root]
                /\ UNCHANGED faults
             \/ Fault /\ UNCHANGED jobs
  /\ UNCHANGED <<identity, rots, regs, shown, gone, accepted, requests, crossed>>

-----------------------------------------------------------------------------
(* sync: the identity row is read and the password tried, then the active  *)
(* jobs are read, and each is signed if need be and pushed.                *)
StartSync(k) ==
  /\ seed # None
  /\ Request(k, [Blank("sync", "active") EXCEPT !.root = seed])

ReadActive(k) ==
  /\ At(k, "active") /\ tasks[k].kind = "sync"
  /\ tasks' = [tasks EXCEPT ![k] = [@ EXCEPT !.stage = "next",
                            !.batch = Snapshot({j \in DOMAIN jobs : Active(j)})]]
  /\ UNCHANGED <<rotationVars, outbox, requests, crossed>>

(* deliveryTick: one poll at a time, over what is pending and signed.      *)
Deliverable(j) == jobs[j].status = "pending" /\ jobs[j].sig # None
StartDeliver ==
  LET due == {j \in DOMAIN jobs : Deliverable(j)}
  IN /\ due # {}
     /\ Start(Poller, [Blank("deliver", "next") EXCEPT !.batch = Snapshot(due)])
     /\ UNCHANGED <<rotationVars, outbox, requests>>

EndBatch(k) ==
  /\ At(k, "next") /\ tasks[k].batch = {}
  /\ Done(k)
  /\ UNCHANGED <<rotationVars, outbox, requests, crossed>>

SaveSignature(k) ==
  /\ At(k, "next") /\ tasks[k].batch # {}
  /\ InHand(k).sig = None
  /\ jobs' = [jobs EXCEPT ![InHand(k).job].sig = tasks[k].root]
  /\ tasks' = [tasks EXCEPT ![k].batch =
       (@ \ {InHand(k)}) \cup {[InHand(k) EXCEPT !.sig = tasks[k].root]}]
  /\ UNCHANGED <<rotationVars, regs, shown, gone, accepted, requests, crossed>>

(* pushJob loads the chain to send along with an update ...                *)
LoadChain(k) ==
  /\ At(k, "next") /\ tasks[k].batch # {}
  /\ InHand(k).sig # None
  /\ \/ /\ tasks' = [tasks EXCEPT ![k] = [@ EXCEPT !.stage = "post", !.head = CurrentRoot]]
        /\ UNCHANGED faults
     \/ /\ Updates(k) /\ Fault
        /\ Goto(k, "fail")
  /\ UNCHANGED <<identity, rots, outbox, requests, crossed>>

(* ... and posts.  The registry accepts, or it refuses or cannot be        *)
(* reached, or it accepts and its answer is lost.                          *)
Accept(k) ==
  LET j == InHand(k).job
      update == jobs[j].action = "update"
  IN /\ update => InHand(k).sig = tasks[k].head
     /\ accepted' = accepted \cup {j}
     /\ shown' = IF update THEN [shown EXCEPT ![jobs[j].url] = InHand(k).sig] ELSE shown
     /\ gone' = IF update THEN gone \ {jobs[j].url} ELSE gone \cup {jobs[j].url}

\* Mutant: whatever the registry answers, the job is over.
AnswerIgnored(k) ==
  /\ At(k, "post")
  /\ Goto(k, "complete")
  /\ Accept(k) \/ UNCHANGED <<accepted, shown, gone>>
  /\ UNCHANGED <<rotationVars, regs, jobs, requests, crossed>>

Post(k) ==
  /\ At(k, "post")
  /\ \/ Accept(k) /\ (Goto(k, "complete") \/ Goto(k, "fail"))
     \/ Goto(k, "fail") /\ UNCHANGED <<accepted, shown, gone>>
  /\ UNCHANGED <<rotationVars, regs, jobs, requests, crossed>>

(* The job in hand is dealt with, the next one comes.                      *)
NextJob(k) ==
  tasks' = [tasks EXCEPT ![k].stage = "next", ![k].batch = @ \ {InHand(k)}]

MarkCompleted(k) ==
  /\ At(k, "complete")
  /\ \/ /\ jobs' = [jobs EXCEPT ![InHand(k).job].status = "completed"]
        /\ IF Updates(k) THEN Goto(k, "synced") ELSE NextJob(k)
        /\ UNCHANGED faults
     \/ /\ Fault
        /\ Goto(k, "fail")
        /\ UNCHANGED jobs
  /\ UNCHANGED <<identity, rots, regs, shown, gone, accepted, requests, crossed>>

SetStatus(k, status) ==
  LET u == jobs[InHand(k).job].url
  IN regs' = [regs EXCEPT ![u] = IF @ = None THEN None ELSE status]

MarkSynced(k) ==
  /\ At(k, "synced")
  /\ \/ SetStatus(k, "synced") /\ NextJob(k) /\ UNCHANGED faults
     \/ Fault /\ Goto(k, "fail") /\ UNCHANGED regs
  /\ UNCHANGED <<identity, rots, jobs, shown, gone, accepted, requests, crossed>>

(* markFailed counts from the attempts of the copy; the last attempt is    *)
(* terminal.  (Attempts beyond the maximum are not told apart.)            *)
MarkFailed(k) ==
  /\ At(k, "fail")
  /\ LET tried == IF InHand(k).attempts < MaxAttempts THEN InHand(k).attempts + 1
                  ELSE MaxAttempts
     IN jobs' = [jobs EXCEPT ![InHand(k).job] = [@ EXCEPT !.attempts = tried,
                   !.status = IF tried = MaxAttempts THEN "failed" ELSE "pending"]]
  /\ IF Updates(k) THEN Goto(k, "error") ELSE NextJob(k)
  /\ UNCHANGED <<rotationVars, regs, shown, gone, accepted, requests, crossed>>

MarkError(k) ==
  /\ At(k, "error")
  /\ SetStatus(k, "error")
  /\ NextJob(k)
  /\ UNCHANGED <<rotationVars, jobs, shown, gone, accepted, requests, crossed>>

-----------------------------------------------------------------------------
(* The steps of RootRotation; an append crosses whatever is at work.       *)
Rotate(k) ==
  /\ RotationStep(k)
  /\ LET working == \E w \in Workers : tasks[w] # None
         unannounced == \E r \in Rotators : Unannounced(r)
     IN crossed' = (crossed \/ (chain' # chain /\ (working \/ unannounced)))
  /\ UNCHANGED <<outbox, tasks, requests>>

Ask(k) ==
  \/ \E u \in Urls : StartAdd(k, u) \/ StartRemove(k, u)
  \/ \E j \in DOMAIN jobs : StartRetry(k, j) \/ StartCancel(k, j)
  \/ StartSync(k)

Work(k) ==
  \/ InsertRegistry(k) \/ EnqueueAsked(k) \/ DropRegistry(k) \/ WriteStatus(k)
  \/ ReadActive(k) \/ EndBatch(k) \/ SaveSignature(k) \/ LoadChain(k) \/ Post(k)
  \/ MarkCompleted(k) \/ MarkSynced(k) \/ MarkFailed(k) \/ MarkError(k)

Announce(k) ==
  \/ ReadRegistries(k) \/ ReadAnnounced(k) \/ ClearSignatures(k) \/ AnnounceTo(k)
  \/ MarkPending(k) \/ ReadUnsigned(k) \/ SignAgain(k)

Next ==
  \/ \E k \in Rotators : Rotate(k) \/ StartRepublish(k) \/ Announce(k) \/ Throw(k)
  \/ \E k \in Requests : Ask(k)
  \/ \E k \in Workers : Work(k) \/ Throw(k)
  \/ StartDeliver

Spec == Init /\ [][Next]_vars

-----------------------------------------------------------------------------
Held(j) ==
  \E k \in Workers :
    tasks[k] # None /\ \E c \in tasks[k].batch : c.job = j
Settled == /\ ~crossed /\ faults = 0
           /\ \A r \in Rotators : ~Unannounced(r)
Quiet == Settled /\ \A k \in Workers : tasks[k] = None

(* No record is lost: a job is completed only after its registry took it,  *)
(* however posts, lost answers, retries and cancellations interleave, and  *)
(* a registry is called synced only if it once accepted a record.          *)
AtLeastOnce ==
  /\ \A j \in DOMAIN jobs : jobs[j].status = "completed" => j \in accepted
  /\ \A u \in Urls : regs[u] = "synced" => shown[u] # None

(* The comments on the outbox promise that the poller never redelivers a   *)
(* record signed by a retired root: outside of an announcement that runs,  *)
(* every update that may still be sent is unsigned or signed by the        *)
(* current root.  True of rotations no other work on the outbox crossed.   *)
SignedByRoot ==
  Settled => \A j \in DOMAIN jobs :
    Active(j) /\ jobs[j].action = "update" => jobs[j].sig \in {None, CurrentRoot}

(* The root of the record a registry holds, None if it holds none.         *)
RecordOf(u) == IF u \in gone THEN None ELSE shown[u]

(* A takedown of u was accepted, and u was announced again after the       *)
(* removal it belongs to.                                                  *)
AnnouncedAgain(u) ==
  \E j \in accepted, i \in DOMAIN jobs :
    /\ j < i /\ jobs[j].url = u /\ jobs[i].url = u
    /\ jobs[j].action = "delete" /\ jobs[i].action = "update"

(* The user reads in the list of registries where the identity stands.     *)
(* With nothing under way and nothing crossed, a registry called synced    *)
(* holds a record under the current root, and one called pending has an    *)
(* update that is waiting or was cancelled.  One exception is the code's   *)
(* own: a takedown whose answer was lost is sent again after the registry  *)
(* has been added again, and takes the new record away with it.            *)
StatusTells ==
  Quiet => \A u \in Urls :
    /\ regs[u] = "synced" => \/ RecordOf(u) = CurrentRoot
                             \/ u \in gone /\ AnnouncedAgain(u)
    /\ regs[u] = "pending" => \E j \in DOMAIN jobs :
         /\ jobs[j].action = "update" /\ jobs[j].url = u
         /\ jobs[j].status # "completed"

(* A step writes the status of a job that is over only from a copy of it.  *)
LeftAlone ==
  \A j \in DOMAIN jobs :
    jobs[j].status \in {"completed", "cancelled"} /\ ~Held(j)
      => jobs'[j].status \in {jobs[j].status, "cancelled"}

(* A job that is completed or cancelled stays so, whatever is announced,   *)
(* synced or polled later; only a handler that took its copy before may    *)
(* still write over it.                                                    *)
TerminalStays == [][LeftAlone]_vars
===============================================================================

---------------------------- MODULE ChannelMessages ----------------------------
(***************************************************************************)
(* The messages of one channel of a server: the requests of MessageService *)
(* (apps/slyng/api/src/message/message.service.ts), the app of a user who  *)
(* looks at the channel (the store messages.svelte.ts and the page loads   *)
(* of channel-page.svelte), and the RealtimeClient that brings the events  *)
(* to it.  Every request and every load stops at its awaits, and the       *)
(* others go on.                                                           *)
(***************************************************************************)
EXTENDS RealtimeClient, SequencesExt, Orders

CONSTANTS Channel,   \* the topic of the channel
          Page,      \* rows per page (50 in the code)
          Jobs,      \* bound: requests under way
          Fetches,   \* bound: page loads under way
          MaxPosts,  \* bound: messages ever posted
          MaxJobs,   \* bound: requests about a message ever made
          MaxLoads,  \* bound: times the channel is opened, scrolled or jumped in
          MaxFlips,  \* bound: changes of the permission to see removed messages
          MaxFaults, \* bound: requests and loads that ever fail midway
          Exercised  \* the requests that are made

ASSUME ChannelKnown == Channel \in Topics
ASSUME PageBounds == Page \in Nat \ {0} /\ {MaxPosts, MaxJobs, MaxLoads, MaxFlips, MaxFaults} \subseteq Nat

VARIABLES
  rows,    \* the table, by message; messages are numbered in the order of created_at
  pins,    \* the messages with a row in pinned_message
  clock,   \* the last number given
  due,     \* messages whose links are being resolved
  jobs,    \* requests under way
  fetches, \* page loads under way
  reveal,  \* whether the user may see removed messages
  app,     \* what the page and the store hold
  log      \* only read by properties and bounds

channelVars == <<rows, pins, clock, due, jobs, fetches, reveal, app, log>>
allVars == <<clientVars, channelVars>>

Messages == 1..MaxPosts
Row == [text : 0..1, embeds : BOOLEAN, deleted : BOOLEAN, pinned : BOOLEAN]
Posted == [text |-> 0, embeds |-> FALSE, deleted |-> FALSE, pinned |-> FALSE]
Copy == [id : Messages, row : Row]

(* post is a message of somebody else, send one of the user of the app.    *)
Edits == {"update", "clear", "embed"}
Pinning == {"pin", "unpin"}
Ops == {"post", "send", "delete", "restore", "harddelete"} \cup Edits \cup Pinning
Job == [op : Ops, m : Messages, stage : {"pins", "write", "read", "tell", "answer"},
        copy : Row \cup {None}]

(* before: load what is older than this message (0: the newest page); all: *)
(* with the removed ones, and once the page is read, whether it was read   *)
(* with them; want: the message jumped to.  Two marks are only read by     *)
(* properties: stale, what was told since the page was read, and old, the  *)
(* list is not any more the one the page was asked for.                    *)
Fetch == [kind : {"load", "refetch", "scroll", "jump"}, before : 0..MaxPosts,
          all : BOOLEAN, want : 0..MaxPosts, page : Seq(Copy), read : BOOLEAN,
          stale : SUBSET Messages, old : BOOLEAN]
App == [open : BOOLEAN, cache : Seq(Copy), more : BOOLEAN, busy : BOOLEAN]
(* suspect: messages whose events crossed, were lost or failed; crossed: a *)
(* page was put before a list it was not asked for; rivals: since the list *)
(* was loaded a message was told of while an older one was being posted,   *)
(* or one that is not the newest was being posted when it was loaded.      *)
Log == [suspect : SUBSET Messages, crossed : BOOLEAN, rivals : BOOLEAN,
        jobs : 0..MaxJobs, loads : 0..MaxLoads, flips : 0..MaxFlips, faults : 0..MaxFaults]
ASSUME ExercisedOps == Exercised \subseteq Ops
ASSUME MessageRecords == None \notin Row /\ None \notin Job /\ None \notin Fetch

(* What is declared above, and in RealtimeClient, has the shape it says.   *)
AllTypeOK ==
  /\ ClientTypeOK
  /\ rows \in [Messages -> Row \cup {None}] /\ pins \subseteq Messages
  /\ clock \in 0..MaxPosts /\ due \subseteq Messages
  /\ jobs \in [Jobs -> Job \cup {None}] /\ fetches \in [Fetches -> Fetch \cup {None}]
  /\ reveal \in BOOLEAN /\ app \in App /\ log \in Log

ChannelInit ==
  /\ ClientInit
  /\ rows = [m \in Messages |-> None] /\ pins = {} /\ clock = 0 /\ due = {}
  /\ jobs = [k \in Jobs |-> None] /\ fetches = [f \in Fetches |-> None]
  /\ reveal \in BOOLEAN
  /\ app = [open |-> FALSE, cache |-> <<>>, more |-> TRUE, busy |-> FALSE]
  /\ log = [suspect |-> {}, crossed |-> FALSE, rivals |-> FALSE,
            jobs |-> 0, loads |-> 0, flips |-> 0, faults |-> 0]

-----------------------------------------------------------------------------
(* The store.                                                              *)
InCache(m) == \E i \in DOMAIN app.cache : app.cache[i].id = m
Without(m) == Picked(app.cache, {i \in DOMAIN app.cache : app.cache[i].id # m})
Patched(m, row) ==
  [i \in DOMAIN app.cache |-> IF app.cache[i].id = m THEN [id |-> m, row |-> row]
                                                     ELSE app.cache[i]]

\* Mutant: what the sender's page has added is added again.
AddedTwice(m, row) == Append(app.cache, [id |-> m, row |-> row])

(* addMessage: at the end, unless it is there.                             *)
Added(m, row) ==
  IF InCache(m) THEN app.cache ELSE Append(app.cache, [id |-> m, row |-> row])

(* MESSAGE_UPDATE: a row that is not shown is ignored, and one that is     *)
(* removed goes from the list of those who may not see it.                 *)
Updated(m, row) == IF row.deleted /\ ~reveal THEN Without(m) ELSE Patched(m, row)

RePinned(m, flag) ==
  [i \in DOMAIN app.cache |-> IF app.cache[i].id = m
     THEN [app.cache[i] EXCEPT !.row.pinned = flag] ELSE app.cache[i]]

(* What the event at the end of a request does to the list; the event of a *)
(* removal depends on who it is for.                                       *)
CacheAfter(op, m, copy) ==
  CASE op \in {"post", "send"} -> Added(m, copy)
    [] op \in Edits \cup {"restore"} -> Updated(m, copy)
    [] op = "delete" -> IF ~reveal THEN Without(m)
                        ELSE IF copy = None THEN app.cache ELSE Updated(m, copy)
    [] op = "harddelete" -> Without(m)
    [] op \in Pinning -> RePinned(m, op = "pin")

(* broadcastToChannel reaches the app over a socket that has the topic.    *)
Hears == \E c \in Conns : conns[c] # None /\ conns[c].open /\ Channel \in conns[c].topics

-----------------------------------------------------------------------------
(* MessageService.                                                         *)
JobAt(k, stage) == jobs[k] # None /\ jobs[k].stage = stage
AtWork == {jobs[k].m : k \in {j \in Jobs : jobs[j] # None}}
JobTo(k, stage) == jobs' = [jobs EXCEPT ![k].stage = stage]
JobOver(k) == jobs' = [jobs EXCEPT ![k] = None]
Posting(k) == jobs[k] # None /\ jobs[k].op \in {"post", "send"}
FirstStage(op) == IF op \in Pinning \cup {"harddelete"} THEN "pins" ELSE "write"

Begin(k, op, m, more) ==
  /\ jobs[k] = None
  /\ jobs' = [jobs EXCEPT ![k] = [op |-> op, m |-> m, stage |-> FirstStage(op), copy |-> None]]
  /\ log' = [more EXCEPT !.suspect = IF m \in AtWork THEN @ \cup {m} ELSE @]

(* create, up to the row: created_at is now, the row comes later.          *)
Post(k, op) ==
  /\ op \in {"post", "send"} \cap Exercised /\ clock < MaxPosts
  /\ op = "send" => app.open
  /\ clock' = clock + 1
  /\ Begin(k, op, clock + 1, log)
  /\ UNCHANGED <<rows, pins, due, fetches, reveal, app>>

(* The links of a new message are resolved in their own time, if it has    *)
(* some, and there is something to show.                                   *)
ResolveEmbeds(k, m) ==
  /\ m \in due
  /\ due' = due \ {m}
  /\ Begin(k, "embed", m, log)
  /\ UNCHANGED <<rows, pins, clock, fetches, reveal, app>>

(* The other requests read the row first; pinning does not.                *)
Request(k, op, m) ==
  /\ op \in Exercised \ {"post", "send", "embed"} /\ m <= clock
  /\ log.jobs < MaxJobs
  /\ op \notin Pinning => rows[m] # None
  /\ op \in {"restore", "harddelete"} => rows[m].deleted
  /\ Begin(k, op, m, [log EXCEPT !.jobs = @ + 1])
  /\ UNCHANGED <<rows, pins, clock, due, fetches, reveal, app>>

WritePins(k) ==
  /\ JobAt(k, "pins")
  /\ pins' = IF jobs[k].op = "pin" THEN pins \cup {jobs[k].m} ELSE pins \ {jobs[k].m}
  /\ JobTo(k, "write")
  /\ UNCHANGED <<rows, clock, due, fetches, reveal, app, log>>

Written(op, row) ==
  CASE op \in {"post", "send"} -> Posted
    [] op = "update" -> [row EXCEPT !.text = 1 - @]
    [] op \in {"embed", "clear"} -> [row EXCEPT !.embeds = op = "embed"]
    [] op \in {"delete", "restore"} -> [row EXCEPT !.deleted = op = "delete"]
    [] op \in Pinning -> [row EXCEPT !.pinned = op = "pin"]
    [] op = "harddelete" -> None

(* A merge leaves a row alone that is gone, and an edit finds nothing to   *)
(* tell of then.                                                           *)
WriteRow(k) ==
  /\ JobAt(k, "write")
  /\ LET op == jobs[k].op
         m == jobs[k].m
         row == IF rows[m] = None /\ op \notin {"post", "send"} THEN None ELSE Written(op, rows[m])
     IN /\ rows' = [rows EXCEPT ![m] = row]
        /\ IF op \in Edits /\ row = None THEN JobOver(k)
           ELSE jobs' = [jobs EXCEPT ![k].stage = IF op \in {"delete", "restore"} THEN "read" ELSE "tell",
                                     ![k].copy = IF op \in Edits \cup {"post", "send"} THEN row ELSE None]
        /\ due' = IF op \in {"post", "send"} /\ "embed" \in Exercised THEN due \cup {m} ELSE due
  /\ UNCHANGED <<pins, clock, fetches, reveal, app, log>>

(* The row as it is now is what is told of a removal or a return.          *)
ReadAgain(k) ==
  /\ JobAt(k, "read")
  /\ LET row == rows[jobs[k].m]
     IN IF jobs[k].op = "restore" /\ row = None THEN JobOver(k)
        ELSE jobs' = [jobs EXCEPT ![k].stage = "tell", ![k].copy = row]
  /\ UNCHANGED <<rows, pins, clock, due, fetches, reveal, app, log>>

(* A page that was read before an event is older than the list.            *)
Overtaken(m) ==
  [f \in Fetches |-> IF fetches[f] # None /\ fetches[f].read
                     THEN [fetches[f] EXCEPT !.stale = @ \cup {m}] ELSE fetches[f]]

(* A restored message is told of to lists that do not have it any more.    *)
LostOn(op, m) == ~Hears \/ (op = "restore" /\ ~InCache(m))

(* A message is told of while an older one is still being posted.          *)
Outruns(k) == Posting(k) /\ \E j \in Jobs : Posting(j) /\ jobs[j].m < jobs[k].m

Tell(k) ==
  /\ JobAt(k, "tell")
  /\ LET op == jobs[k].op
         m == jobs[k].m
     IN /\ app' = IF app.open /\ Hears
                  THEN [app EXCEPT !.cache = CacheAfter(op, m, jobs[k].copy)] ELSE app
        /\ log' = [log EXCEPT !.suspect = IF LostOn(op, m) THEN @ \cup {m} ELSE @,
                              !.rivals = @ \/ Outruns(k)]
        /\ fetches' = Overtaken(m)
        /\ IF op = "send" THEN JobTo(k, "answer") ELSE JobOver(k)
  /\ UNCHANGED <<rows, pins, clock, due, reveal>>

(* handleSend: the answer adds the message where it was sent from.         *)
SendAnswered(k) ==
  /\ JobAt(k, "answer")
  /\ app' = IF app.open THEN [app EXCEPT !.cache = Added(jobs[k].m, jobs[k].copy)] ELSE app
  /\ fetches' = Overtaken(jobs[k].m)
  /\ JobOver(k)
  /\ UNCHANGED <<rows, pins, clock, due, reveal, log>>

JobFails(k) ==
  /\ log.faults < MaxFaults /\ jobs[k] # None
  /\ log' = [log EXCEPT !.faults = @ + 1, !.suspect = @ \cup {jobs[k].m}]
  /\ fetches' = Overtaken(jobs[k].m)
  /\ JobOver(k)
  /\ UNCHANGED <<rows, pins, clock, due, reveal, app>>

-----------------------------------------------------------------------------
(* The page.                                                               *)
Ask(f, kind, before, want) ==
  [kind |-> kind, before |-> before, all |-> reveal, want |-> want, page |-> <<>>,
   read |-> FALSE, stale |-> {}, old |-> FALSE]
Aged(fs) == [f \in Fetches |-> IF fs[f] = None THEN None ELSE [fs[f] EXCEPT !.old = TRUE]]
Counted == [log EXCEPT !.loads = @ + 1]
Oldest == Head(app.cache).id

(* loadChannel, up to the load; loads of an earlier visit may still be     *)
(* under way.                                                              *)
Open(f) ==
  /\ ~app.open /\ fetches[f] = None /\ log.loads < MaxLoads
  /\ app' = [app EXCEPT !.open = TRUE, !.cache = <<>>, !.more = TRUE]
  /\ fetches' = [Aged(fetches) EXCEPT ![f] = Ask(f, "load", 0, 0)]
  /\ log' = [Counted EXCEPT !.crossed = FALSE]
  /\ UNCHANGED <<rows, pins, clock, due, jobs, reveal>>

(* Another channel is opened: what the store keeps of this one is not      *)
(* looked at again.                                                        *)
Leave ==
  /\ app.open
  /\ app' = [app EXCEPT !.open = FALSE, !.cache = <<>>]
  /\ UNCHANGED <<rows, pins, clock, due, jobs, fetches, reveal, log>>

(* handleScroll: one load of older messages at a time.                     *)
ScrollUp(f) ==
  /\ app.open /\ ~app.busy /\ app.more /\ app.cache # <<>>
  /\ fetches[f] = None /\ log.loads < MaxLoads
  /\ app' = [app EXCEPT !.busy = TRUE]
  /\ fetches' = [fetches EXCEPT ![f] = Ask(f, "scroll", Oldest, 0)]
  /\ log' = Counted
  /\ UNCHANGED <<rows, pins, clock, due, jobs, reveal>>

(* ensureAndJump, to a message that is not shown.                          *)
Jump(f, m) ==
  /\ app.open /\ ~InCache(m) /\ app.cache # <<>> /\ m <= clock
  /\ fetches[f] = None /\ log.loads < MaxLoads
  /\ fetches' = [fetches EXCEPT ![f] = Ask(f, "jump", Oldest, m)]
  /\ log' = Counted
  /\ UNCHANGED <<rows, pins, clock, due, jobs, reveal, app>>

(* The permission changes, and a page that notices loads again.            *)
Flip(f) ==
  /\ log.flips < MaxFlips /\ fetches[f] = None
  /\ reveal' = ~reveal
  /\ fetches' = IF app.open THEN [fetches EXCEPT ![f] = [Ask(f, "refetch", 0, 0) EXCEPT !.all = ~reveal]]
                ELSE fetches
  /\ log' = [log EXCEPT !.flips = @ + 1]
  /\ UNCHANGED <<rows, pins, clock, due, jobs, app>>

Newest(S, n) == {m \in S : Cardinality({o \in S : o > m}) < n}

(* findByChannel: the rows of the page first, then those among them that   *)
(* may be seen, oldest first.                                              *)
PageOf(before, all) ==
  LET older == {m \in Messages : rows[m] # None /\ (before = 0 \/ m < before)}
      seen == {m \in Newest(older, Page) : all \/ ~rows[m].deleted}
      ids == Ascending(seen, [m \in seen |-> m])
  IN [i \in DOMAIN ids |-> [id |-> ids[i], row |-> rows[ids[i]]]]

Query(f) ==
  /\ fetches[f] # None /\ ~fetches[f].read
  /\ LET all == fetches[f].all /\ reveal
     IN fetches' = [fetches EXCEPT ![f].read = TRUE, ![f].all = all,
                                   ![f].page = PageOf(fetches[f].before, all)]
  /\ UNCHANGED <<rows, pins, clock, due, jobs, reveal, app, log>>

(* The list becomes the page, whatever happened to the list meanwhile.     *)
ListReplaced(f) ==
  /\ fetches[f] # None /\ fetches[f].read /\ fetches[f].kind \in {"load", "refetch"}
  /\ IF ~app.open THEN UNCHANGED <<app, log>> /\ fetches' = [fetches EXCEPT ![f] = None]
     ELSE /\ app' = [app EXCEPT !.cache = fetches[f].page, !.more = Len(fetches[f].page) >= Page]
          /\ log' = [log EXCEPT !.suspect = fetches[f].stale \cup (@ \cap AtWork),
                             !.crossed = fetches[f].all # reveal,
                             !.rivals = \E k \in Jobs : Posting(k) /\ jobs[k].m # clock]
          /\ fetches' = Aged([fetches EXCEPT ![f] = None])
  /\ UNCHANGED <<rows, pins, clock, due, jobs, reveal>>

(* After a load the page subscribes to the channel, as the layout of the   *)
(* server has done before: where that has been heard, a second frame       *)
(* changes nothing.                                                        *)
LoadShown(f) ==
  /\ ListReplaced(f)
  /\ IF fetches[f].kind = "load" /\ app.open /\ ~(Hears /\ Channel \in client.subscribed)
     THEN \E k \in Calls : Subscription(k, [op |-> "subscribe", topics |-> {Channel}])
     ELSE UNCHANGED clientVars

(* The older page goes before the list; a jump goes on until it is there.  *)
OlderShown(f) ==
  /\ fetches[f] # None /\ fetches[f].read /\ fetches[f].kind \in {"scroll", "jump"}
  /\ LET g == fetches[f]
         shown == g.page \o app.cache
         full == Len(g.page) >= Page
         onward == g.kind = "jump" /\ app.open /\ full /\ \A i \in DOMAIN shown : shown[i].id # g.want
         rest == [fetches EXCEPT ![f] = IF onward THEN Ask(f, "jump", Head(shown).id, g.want) ELSE None]
         free == [app EXCEPT !.busy = @ /\ g.kind = "jump"]
     IN IF ~app.open THEN app' = free /\ fetches' = rest /\ UNCHANGED log
        ELSE /\ app' = [free EXCEPT !.cache = shown, !.more = @ /\ full]
             /\ fetches' = [h \in Fetches |-> IF h # f /\ fetches[h] # None /\ fetches[h].kind \in {"scroll", "jump"}
                              THEN [fetches[h] EXCEPT !.old = TRUE] ELSE rest[h]]
             /\ log' = [log EXCEPT !.crossed = @ \/ g.old, !.suspect = @ \cup {m \in g.stale : m < g.before}]
  /\ UNCHANGED <<rows, pins, clock, due, jobs, reveal>>

FetchFails(f) ==
  /\ log.faults < MaxFaults /\ fetches[f] # None
  /\ fetches' = [fetches EXCEPT ![f] = None]
  /\ app' = [app EXCEPT !.busy = @ /\ fetches[f].kind # "scroll"]
  /\ log' = [log EXCEPT !.faults = @ + 1, !.crossed = @ \/ fetches[f].kind = "refetch"]
  /\ UNCHANGED <<rows, pins, clock, due, jobs, reveal>>

-----------------------------------------------------------------------------
JobStep(k) ==
  \/ \E op \in Exercised : Post(k, op) \/ \E m \in Messages : Request(k, op, m)
  \/ \E m \in Messages : ResolveEmbeds(k, m)
  \/ WritePins(k) \/ WriteRow(k) \/ ReadAgain(k) \/ Tell(k) \/ SendAnswered(k) \/ JobFails(k)
PageStep(f) ==
  \/ Open(f) \/ ScrollUp(f) \/ (\E m \in Messages : Jump(f, m)) \/ Flip(f)
  \/ Query(f) \/ OlderShown(f) \/ FetchFails(f)

ChannelNext ==
  \/ ((\E k \in Jobs : JobStep(k)) \/ (\E f \in Fetches : PageStep(f)) \/ Leave) /\ UNCHANGED clientVars
  \/ \E f \in Fetches : LoadShown(f)
  \/ ClientNext /\ UNCHANGED channelVars

ChannelSpec == ChannelInit /\ [][ChannelNext]_allVars

-----------------------------------------------------------------------------
Visible(m) == rows[m] # None /\ (reveal \/ ~rows[m].deleted)

(* The list is open, and is not about to be replaced; and since it was     *)
(* loaded no page was put before a list it was not asked for (crossed) and *)
(* no message was told of before an older one (rivals).                    *)
Steady ==
  /\ app.open /\ ~log.crossed /\ ~log.rivals
  /\ \A f \in Fetches : fetches[f] # None => fetches[f].kind \in {"scroll", "jump"}

InOrder == \A i, j \in DOMAIN app.cache : i < j => app.cache[i].id < app.cache[j].id
Covered(m) == (app.cache # <<>> /\ m >= Oldest) \/ (reveal /\ ~app.more)

(* "Paging from the present keeps the timeline contiguous (no gap)"        *)
(* (channel-page.svelte): from the oldest message it shows on, a list      *)
(* holds, in order and once each, the messages the user may see, as they   *)
(* are; and when there is nothing more to page for, it holds them all      *)
(* (those who do not see removed messages may be told so too early).  All  *)
(* this through requests that overlap loads, late answers and embeds; it   *)
(* is not so for messages whose own requests overlapped or failed, or were *)
(* told of while nobody listened or a page was on its way, nor after a     *)
(* page was put before a list it was not asked for (crossed), nor after of *)
(* two messages posted at once the newer one was told of first (rivals).   *)
(* Each of these lasts until the next load, the last until one at which no *)
(* message but the newest is being posted.                                 *)
CacheTells ==
  Steady =>
    /\ InOrder
    /\ \A m \in Messages \ (log.suspect \cup AtWork) :
         /\ \A i \in DOMAIN app.cache : app.cache[i].id = m => Visible(m) /\ app.cache[i].row = rows[m]
         /\ Visible(m) /\ Covered(m) => InCache(m)
================================================================================

---------------------------- MODULE ServerChannels ----------------------------
(***************************************************************************)
(* The channels and categories of one server: the requests of              *)
(* ChannelService and CategoryService (apps/slyng/api/src/channel/         *)
(* channel.service.ts, category/category.service.ts), and the sidebar of   *)
(* an app that looks at the server: the store servers.svelte.ts, its load  *)
(* by server-layout.svelte, and the drags of channels-panel.svelte, which  *)
(* show their outcome before the server has heard of them.  A request has  *)
(* an action per await; what it tells reaches the app if a socket of its   *)
(* RealtimeClient has the topic of the server.                             *)
(***************************************************************************)
EXTENDS RealtimeClient, SequencesExt, Orders

CONSTANTS Server,    \* the topic of the server
          Chans,     \* the ids of its channels
          Cats,      \* the ids of its categories
          Acts,      \* bound: requests under way
          Loads,     \* bound: loads of the sidebar under way
          MaxPlace,  \* bound: the last position
          MaxActs,   \* bound: requests ever made
          MaxVisits, \* bound: loads ever made
          MaxThrows, \* bound: requests and loads that ever fail midway
          Asked      \* the requests that are made

ASSUME ServerKnown == Server \in Topics
ASSUME SidebarBounds ==
  /\ {MaxPlace, MaxActs, MaxVisits, MaxThrows} \subseteq Nat
  /\ Chans \cap Cats = {} /\ None \notin Chans \cup Cats
  /\ IsFiniteSet(Chans) /\ IsFiniteSet(Cats)

VARIABLES
  channels,   \* the rows of the channels, in the trash or not
  categories, \* the positions of the categories
  acts,       \* requests under way
  sidebar,    \* what the app shows of the server
  loads,      \* loads of the sidebar under way
  trail       \* only read by properties and bounds, and for ids to be new

serverVars == <<channels, categories, acts, sidebar, loads, trail>>

Things == Chans \cup Cats
Place == 0..MaxPlace
ChannelRow == [place : Place, cat : Cats \cup {None}, deleted : BOOLEAN]
Listed == [Chans -> ChannelRow \cup {None}]
Headed == [Cats -> Place \cup {None}]

Kinds == {"create", "update", "delete", "restore", "harddelete", "reorder",
          "addcat", "dropcat", "sortcats", "swap"}
(* The kinds of requests that give out positions, and to what.             *)
Placing(op) ==
  IF op \in {"create", "reorder"} THEN {"channels"}
  ELSE IF op \in {"addcat", "sortcats", "swap"} THEN {"categories"} ELSE {}

(* A write to come: the position of a channel or category, unless it stays *)
(* (None), the category of a channel, if it is moved, and the row as it    *)
(* was read.                                                               *)
Move == [id : Things, place : Place \cup {None}, moved : BOOLEAN,
         cat : Cats \cup {None}, row : ChannelRow \cup {None}]
Act == [op : Kinds, stage : {"list", "write", "read", "tell", "drop"},
        x : Things \cup {None}, cat : Cats \cup {None}, ids : Seq(Things),
        place : Place \cup {None}, todo : Seq(Move), mine : BOOLEAN, about : SUBSET Things]

(* due: a drag was refused, and the sidebar is about to be loaded again.   *)
Sidebar == [open : BOOLEAN, shown : Listed, headings : Headed, due : BOOLEAN]
(* stale: what was told of since the first read, or went untold (only read *)
(* by properties).                                                         *)
Load == [kind : {"open", "refresh"}, chans : Listed \cup {None}, cats : Headed \cup {None},
         stale : SUBSET Things]
(* suspect: what the app may have missed, or got out of order; torn: what  *)
(* requests that overlapped or failed were about, or that was put into a   *)
(* category that is gone; raced: positions were given out by two requests  *)
(* at once, or by one that failed; gone: ids of rows that are no more.     *)
Trail == [suspect : SUBSET Things, torn : SUBSET Things, gone : SUBSET Things,
          raced : SUBSET {"channels", "categories"},
          acts : 0..MaxActs, visits : 0..MaxVisits, throws : 0..MaxThrows]
ASSUME SidebarRecords ==
  /\ None \notin Place /\ None \notin ChannelRow /\ None \notin Listed /\ None \notin Headed
  /\ None \notin Act /\ None \notin Load

(* What is declared above has the shape it says.                           *)
SidebarTypeOK ==
  /\ channels \in Listed /\ categories \in Headed
  /\ acts \in [Acts -> Act \cup {None}]
  /\ sidebar \in Sidebar
  /\ loads \in [Loads -> Load \cup {None}]
  /\ trail \in Trail

Nowhere == [c \in Chans |-> None]
NoHeading == [g \in Cats |-> None]
ServerInit ==
  /\ \E c \in Chans : channels = [Nowhere EXCEPT ![c] = [place |-> 0, cat |-> None, deleted |-> FALSE]]
  /\ categories = NoHeading
  /\ acts = [k \in Acts |-> None] /\ loads = [l \in Loads |-> None]
  /\ sidebar = [open |-> FALSE, shown |-> Nowhere, headings |-> NoHeading, due |-> FALSE]
  /\ trail = [suspect |-> {}, torn |-> {}, gone |-> {}, raced |-> {}, acts |-> 0, visits |-> 0, throws |-> 0]

-----------------------------------------------------------------------------
(* The store.                                                              *)
Existing(rows) == {x \in DOMAIN rows : rows[x] # None}
Live(c) == channels[c] # None /\ ~channels[c].deleted
LiveRows == [c \in Chans |-> IF Live(c) THEN channels[c] ELSE None]

(* CHANNEL_CREATE and CATEGORY_CREATE add what is not there, the UPDATEs   *)
(* patch what is there, the DELETEs take it away.                          *)
Adding(rows, x, row) == IF rows[x] = None THEN [rows EXCEPT ![x] = row] ELSE rows
Patching(rows, x, row) == IF rows[x] = None \/ row = None THEN rows ELSE [rows EXCEPT ![x] = row]
Removing(rows, x) == [rows EXCEPT ![x] = None]

WithChannels(rows) == [sidebar EXCEPT !.shown = rows]
WithHeadings(rows) == [sidebar EXCEPT !.headings = rows]

PlaceIn(rows, x) == IF x \in Chans THEN rows[x].place ELSE rows[x]
ByPlace(rows, S) == Ascending(S, [x \in S |-> PlaceIn(rows, x)])

(* The positions of some, dealt out to them in their order.                *)
Dealt(rows, ids) ==
  LET was == [i \in DOMAIN ids |-> PlaceIn(rows, ids[i])]
      order == Ascending(DOMAIN ids, was)
  IN [i \in DOMAIN ids |-> was[order[i]]]
IndexIn(ids, x) == CHOOSE i \in DOMAIN ids : ids[i] = x

(* reorderChannels and reorderCategories, before the server is asked.      *)
Reordered(rows, ids, cat) ==
  [c \in Chans |-> IF c \in ToSet(ids)
     THEN [rows[c] EXCEPT !.place = Dealt(rows, ids)[IndexIn(ids, c)], !.cat = cat] ELSE rows[c]]
Resorted(rows, ids) ==
  [g \in Cats |-> IF g \in ToSet(ids) THEN Dealt(rows, ids)[IndexIn(ids, g)] ELSE rows[g]]

(* emitToServer reaches the app over a socket that has the topic.          *)
ServerHeard == \E c \in Conns : conns[c] # None /\ conns[c].open /\ Server \in conns[c].topics

Outdated(xs) ==
  [l \in Loads |-> IF loads[l] # None /\ (loads[l].chans # None \/ loads[l].cats # None)
                   THEN [loads[l] EXCEPT !.stale = @ \cup xs] ELSE loads[l]]

EmitServer(after, xs, t) ==
  /\ sidebar' = IF sidebar.open /\ ServerHeard THEN after ELSE sidebar
  /\ loads' = Outdated(xs)
  /\ trail' = [t EXCEPT !.suspect = IF ServerHeard THEN @ ELSE @ \cup xs]

-----------------------------------------------------------------------------
(* The requests.                                                           *)
ActAt(k, op, stage) == acts[k] # None /\ acts[k].op = op /\ acts[k].stage = stage
Busy == {k \in Acts : acts[k] # None}
InWork == UNION {acts[k].about : k \in Busy}
ActTo(k, stage) == acts' = [acts EXCEPT ![k].stage = stage]
ActOver(k) == acts' = [acts EXCEPT ![k] = None]

Plain(op, x, stage) ==
  [op |-> op, stage |-> stage, x |-> x, cat |-> None, ids |-> <<>>, place |-> None,
   todo |-> <<>>, mine |-> FALSE, about |-> {x}]

(* The categories that some channels are in, or one is to be in.           *)
Homes(S, cat) == ({cat} \cup {channels[c].cat : c \in S \cap Existing(channels)}) \ {None}

(* What becomes doubtful when request k is about this: all that it and     *)
(* those it overlaps with are about.                                       *)
Clashing(k, about) ==
  UNION {acts[j].about \cup about : j \in {i \in Busy \ {k} : acts[i].about \cap about # {}}}

(* A request begins; more is what else becomes doubtful with it.           *)
Starts(k, act, more) ==
  LET clash == Clashing(k, act.about) \cup more
      lost == IF act.cat # None /\ categories[act.cat] = None THEN act.about \cap Chans ELSE {}
  IN /\ acts[k] = None /\ act.op \in Asked /\ trail.acts < MaxActs
     /\ acts' = [acts EXCEPT ![k] = act]
     /\ trail' = [trail EXCEPT !.acts = @ + 1,
          !.suspect = @ \cup clash, !.torn = @ \cup clash \cup lost,
          !.raced = @ \cup UNION {Placing(acts[j].op) \cap Placing(act.op) : j \in Busy}]

New(x) == x \notin trail.gone /\ \A k \in Busy : acts[k].x # x

\* Mutant: the trash is left out of account.
NextOfLive(rows) ==
  LET places == IF DOMAIN rows = Chans THEN {rows[x].place : x \in {c \in Chans : Live(c)}}
                ELSE {rows[x] : x \in Existing(rows)}
  IN IF places = {} THEN 0 ELSE Max(places) + 1

(* One more than the last, the trash included.                             *)
NextPlace(rows) ==
  LET places == {PlaceIn(rows, x) : x \in Existing(rows)}
  IN IF places = {} THEN 0 ELSE Max(places) + 1

(* create reads the last position, and then inserts and tells.             *)
StartCreate(k, c, cat) ==
  /\ channels[c] = None /\ New(c) /\ NextPlace(channels) \in Place
  /\ Starts(k, [Plain("create", c, "write") EXCEPT !.cat = cat, !.place = NextPlace(channels),
                  !.about = @ \cup Homes({}, cat)], {})
  /\ UNCHANGED <<channels, categories, sidebar, loads>>

InsertChannel(k) ==
  /\ ActAt(k, "create", "write")
  /\ LET c == acts[k].x
         row == [place |-> acts[k].place, cat |-> acts[k].cat, deleted |-> FALSE]
     IN /\ channels' = [channels EXCEPT ![c] = row]
        /\ EmitServer(WithChannels(Adding(sidebar.shown, c, row)), {c}, trail)
  /\ ActOver(k)
  /\ UNCHANGED categories

(* update, of the category: the row is there when it is looked up.         *)
StartUpdate(k, c, cat) ==
  /\ channels[c] # None
  /\ Starts(k, [Plain("update", c, "write") EXCEPT !.cat = cat, !.about = @ \cup Homes({c}, cat)], {})
  /\ UNCHANGED <<channels, categories, sidebar, loads>>

(* delete and restore look at the row before they mark it, and a final     *)
(* deletion before it purges what the channel has.                         *)
StartMark(k, op, c) ==
  /\ op \in {"delete", "restore", "harddelete"}
  /\ channels[c] # None /\ channels[c].deleted = (op # "delete")
  /\ Starts(k, Plain(op, c, IF op = "harddelete" THEN "list" ELSE "write"), {})
  /\ UNCHANGED <<channels, categories, sidebar, loads>>

PurgeChannel(k) ==
  /\ ActAt(k, "harddelete", "list")
  /\ ActTo(k, "write")
  /\ UNCHANGED <<channels, categories, sidebar, loads, trail>>

Marked(row, act) ==
  IF act.op = "update" THEN [row EXCEPT !.cat = act.cat] ELSE [row EXCEPT !.deleted = act.op = "delete"]

(* The row is written; a deletion tells at once, the others read it again. *)
WriteChannel(k) ==
  /\ \E op \in {"update", "delete", "restore"} : ActAt(k, op, "write")
  /\ LET c == acts[k].x
     IN /\ channels' = IF channels[c] = None THEN channels
                       ELSE [channels EXCEPT ![c] = Marked(@, acts[k])]
        /\ IF acts[k].op = "delete"
           THEN ActOver(k) /\ EmitServer(WithChannels(Removing(sidebar.shown, c)), {c}, trail)
           ELSE ActTo(k, "read") /\ UNCHANGED <<sidebar, loads, trail>>
  /\ UNCHANGED categories

\* Mutant: a restored channel is told of as an update.
RestoredAsUpdate(act) == Patching(sidebar.shown, act.x, channels[act.x])

(* What is told is the row of this moment, whatever has become of it.      *)
ToldAgain(act) ==
  IF act.op = "restore" /\ channels[act.x] # None
  THEN Adding(sidebar.shown, act.x, channels[act.x])
  ELSE Patching(sidebar.shown, act.x, channels[act.x])

ReadChannelAgain(k) ==
  /\ \E op \in {"update", "restore"} : ActAt(k, op, "read")
  /\ EmitServer(WithChannels(ToldAgain(acts[k])), {acts[k].x}, trail)
  /\ ActOver(k)
  /\ UNCHANGED <<channels, categories>>

(* A final deletion is told to nobody, not even if the channel has come    *)
(* back meanwhile.                                                         *)
DropChannel(k) ==
  /\ ActAt(k, "harddelete", "write")
  /\ channels' = Removing(channels, acts[k].x)
  /\ loads' = IF Live(acts[k].x) THEN Outdated({acts[k].x}) ELSE loads
  /\ trail' = [trail EXCEPT !.gone = @ \cup {acts[k].x}]
  /\ ActOver(k)
  /\ UNCHANGED <<categories, sidebar>>

-----------------------------------------------------------------------------
(* Orders.                                                                 *)
Within(rows, cat) == {c \in Existing(rows) : rows[c].cat = cat}

(* A drag takes c out of the list of S and puts it somewhere in it.        *)
Drops(rows, S, c) ==
  {e \in Enumerations(S \cup {c}) : \A i, j \in DOMAIN e :
     i < j /\ c \notin {e[i], e[j]} => PlaceIn(rows, e[i]) <= PlaceIn(rows, e[j])}

(* An app that sees rows and heads, ours or that of somebody else, drags a *)
(* channel into a category, or out of every one; or a category.            *)
StartReorder(k, rows, heads, mine) ==
  \E c \in Existing(rows), cat \in Existing(heads) \cup {None} :
    /\ \E ids \in Drops(rows, Within(rows, cat), c) :
         LET about == ToSet(ids) \cup Homes(ToSet(ids), cat)
         IN /\ Starts(k, [Plain("reorder", None, "list") EXCEPT !.cat = cat, !.ids = ids,
                            !.mine = mine, !.about = about],
                      IF mine /\ about \cap trail.suspect # {} THEN about ELSE {})
            /\ sidebar' = IF mine THEN WithChannels(Reordered(sidebar.shown, ids, cat)) ELSE sidebar
    /\ UNCHANGED <<channels, categories, loads>>

StartSort(k, heads, mine) ==
  /\ \E g \in Existing(heads) : \E ids \in Drops(heads, Existing(heads), g) :
       /\ Len(ids) > 1
       /\ Starts(k, [Plain("sortcats", None, "list") EXCEPT !.ids = ids, !.mine = mine,
                       !.about = ToSet(ids)],
                 IF mine /\ ToSet(ids) \cap trail.suspect # {} THEN ToSet(ids) ELSE {})
       /\ sidebar' = IF mine THEN WithHeadings(Resorted(sidebar.headings, ids)) ELSE sidebar
  /\ UNCHANGED <<channels, categories, loads>>

(* What a list of ids comes to, by the rows of this moment: each gets the  *)
(* position of its index among theirs, and the category; what is so        *)
(* already is left out.                                                    *)
Staying(rows, ids, i) == Dealt(rows, ids)[i] = PlaceIn(rows, ids[i])
Moving(rows, ids, leaving, cat) ==
  LET changed == {i \in DOMAIN ids : ~Staying(rows, ids, i) \/ ids[i] \in leaving}
  IN Picked([i \in DOMAIN ids |->
              [id |-> ids[i], place |-> IF Staying(rows, ids, i) THEN None ELSE Dealt(rows, ids)[i],
               moved |-> ids[i] \in leaving, cat |-> cat, row |-> None]], changed)
ChannelMoves(ids, cat) == Moving(channels, ids, {c \in ToSet(ids) : channels[c].cat # cat}, cat)
CategoryMoves(ids) == Moving(categories, ids, {}, None)

Planned(k, todo) ==
  acts' = [acts EXCEPT ![k] = IF todo = <<>> THEN None ELSE [@ EXCEPT !.todo = todo, !.stage = "write"]]

(* Whoever dragged loads the sidebar again if the server refuses.          *)
Refused(k) ==
  /\ ActOver(k)
  /\ sidebar' = [sidebar EXCEPT !.due = @ \/ (acts[k].mine /\ sidebar.open)]

ListForMoves(k) ==
  /\ ActAt(k, "reorder", "list") \/ ActAt(k, "sortcats", "list")
  /\ LET ids == acts[k].ids
         known == \A i \in DOMAIN ids : IF ids[i] \in Chans THEN Live(ids[i]) ELSE categories[ids[i]] # None
     IN IF ~known THEN Refused(k)
        ELSE /\ Planned(k, IF acts[k].op = "reorder" THEN ChannelMoves(ids, acts[k].cat)
                           ELSE CategoryMoves(ids))
             /\ UNCHANGED sidebar
  /\ UNCHANGED <<channels, categories, loads, trail>>

MovedRow(row, m) ==
  [row EXCEPT !.place = IF m.place = None THEN @ ELSE m.place, !.cat = IF m.moved THEN m.cat ELSE @]

(* One row after the other: written, read again, told.                     *)
WriteMove(k) ==
  /\ ActAt(k, "reorder", "write") \/ ActAt(k, "sortcats", "write")
  /\ LET m == Head(acts[k].todo)
     IN /\ channels' = IF m.id \notin Chans \/ channels[m.id] = None THEN channels
                       ELSE [channels EXCEPT ![m.id] = MovedRow(@, m)]
        /\ categories' = IF m.id \notin Cats \/ categories[m.id] = None THEN categories
                         ELSE [categories EXCEPT ![m.id] = m.place]
  /\ ActTo(k, "read")
  /\ UNCHANGED <<sidebar, loads, trail>>

TellMove(k) ==
  /\ ActAt(k, "reorder", "read") \/ ActAt(k, "sortcats", "read")
  /\ LET x == Head(acts[k].todo).id
     IN EmitServer(IF x \in Chans THEN WithChannels(Patching(sidebar.shown, x, channels[x]))
                   ELSE WithHeadings(Patching(sidebar.headings, x, categories[x])), {x}, trail)
  /\ Planned(k, Tail(acts[k].todo))
  /\ UNCHANGED <<channels, categories>>

-----------------------------------------------------------------------------
(* Categories.                                                             *)
StartAddCategory(k, g) ==
  /\ categories[g] = None /\ New(g) /\ NextPlace(categories) \in Place
  /\ Starts(k, [Plain("addcat", g, "write") EXCEPT !.place = NextPlace(categories)], {})
  /\ UNCHANGED <<channels, categories, sidebar, loads>>

InsertCategory(k) ==
  /\ ActAt(k, "addcat", "write")
  /\ LET g == acts[k].x
     IN /\ categories' = [categories EXCEPT ![g] = acts[k].place]
        /\ EmitServer(WithHeadings(Adding(sidebar.headings, g, acts[k].place)), {g}, trail)
  /\ ActOver(k)
  /\ UNCHANGED channels

StartDropCategory(k, g) ==
  /\ categories[g] # None
  /\ Starts(k, [Plain("dropcat", g, "list") EXCEPT !.about = @ \cup Within(channels, g)], {})
  /\ UNCHANGED <<channels, categories, sidebar, loads>>

\* Mutant: channels in the trash are not looked for.
LiveChildren(g) == ByPlace(channels, Within(LiveRows, g))

(* Its channels, those in the trash as well.                               *)
Children(g) == ByPlace(channels, Within(channels, g))

ListChildren(k) ==
  /\ ActAt(k, "dropcat", "list")
  /\ LET list == Children(acts[k].x)
         about == acts[k].about \cup ToSet(list)
         clash == Clashing(k, about)
     IN /\ acts' = [acts EXCEPT ![k].stage = "drop", ![k].about = about,
               ![k].todo = [i \in DOMAIN list |->
                 [id |-> list[i], place |-> None, moved |-> TRUE, cat |-> None, row |-> channels[list[i]]]]]
        /\ trail' = [trail EXCEPT !.suspect = @ \cup clash, !.torn = @ \cup clash]
  /\ UNCHANGED <<channels, categories, sidebar, loads>>

(* A channel leaves the category; what is told is the row as it was read,  *)
(* but for the category.                                                   *)
FreeChild(k) ==
  /\ ActAt(k, "dropcat", "drop") /\ acts[k].todo # <<>>
  /\ LET m == Head(acts[k].todo)
     IN /\ channels' = IF channels[m.id] = None THEN channels
                       ELSE [channels EXCEPT ![m.id] = MovedRow(@, m)]
        /\ EmitServer(WithChannels(Patching(sidebar.shown, m.id, MovedRow(m.row, m))), {m.id}, trail)
  /\ acts' = [acts EXCEPT ![k].todo = Tail(@)]
  /\ UNCHANGED categories

DropCategory(k) ==
  /\ ActAt(k, "dropcat", "drop") /\ acts[k].todo = <<>>
  /\ LET g == acts[k].x
     IN /\ categories' = Removing(categories, g)
        /\ EmitServer(WithHeadings(Removing(sidebar.headings, g)), {g}, [trail EXCEPT !.gone = @ \cup {g}])
  /\ ActOver(k)
  /\ UNCHANGED channels

(* swap reads one, the other, writes both, reads both again, and tells.    *)
StartSwap(k, g, h) ==
  /\ g # h /\ categories[g] # None
  /\ Starts(k, [Plain("swap", None, "list") EXCEPT !.ids = <<g, h>>, !.place = categories[g],
                  !.about = {g, h}], {})
  /\ UNCHANGED <<channels, categories, sidebar, loads>>

SwapReadsOther(k) ==
  /\ ActAt(k, "swap", "list")
  /\ LET g == acts[k].ids[1]
         h == acts[k].ids[2]
         to(id, place) == [id |-> id, place |-> place, moved |-> FALSE, cat |-> None, row |-> None]
     IN IF categories[h] = None THEN ActOver(k)
        ELSE Planned(k, <<to(g, categories[h]), to(h, acts[k].place)>>)
  /\ UNCHANGED <<channels, categories, sidebar, loads, trail>>

SwapWrites(k) ==
  /\ ActAt(k, "swap", "write")
  /\ LET m == Head(acts[k].todo)
     IN categories' = IF categories[m.id] = None THEN categories ELSE [categories EXCEPT ![m.id] = m.place]
  /\ acts' = [acts EXCEPT ![k].todo = Tail(@), ![k].stage = IF Len(acts[k].todo) = 1 THEN "read" ELSE @]
  /\ UNCHANGED <<channels, sidebar, loads, trail>>

SwapReadsAgain(k) ==
  /\ ActAt(k, "swap", "read")
  /\ acts' = [acts EXCEPT ![k].stage = "tell", ![k].place = categories[acts[k].ids[1]]]
  /\ UNCHANGED <<channels, categories, sidebar, loads, trail>>

SwapTells(k) ==
  /\ ActAt(k, "swap", "tell")
  /\ LET g == acts[k].ids[1]
         h == acts[k].ids[2]
     IN EmitServer(WithHeadings(Patching(Patching(sidebar.headings, g, acts[k].place), h, categories[h])),
                   {g, h}, trail)
  /\ ActOver(k)
  /\ UNCHANGED <<channels, categories>>

(* A call fails, and the request with it.                                  *)
ActThrows(k) ==
  /\ acts[k] # None /\ trail.throws < MaxThrows
  /\ Refused(k)
  /\ trail' = [trail EXCEPT !.throws = @ + 1, !.suspect = @ \cup acts[k].about,
                 !.torn = @ \cup acts[k].about, !.raced = @ \cup Placing(acts[k].op)]
  /\ loads' = Outdated(acts[k].about)
  /\ UNCHANGED <<channels, categories>>

-----------------------------------------------------------------------------
(* The app.                                                                *)
Starting(kind) == [kind |-> kind, chans |-> None, cats |-> None, stale |-> {}]
Visited == [trail EXCEPT !.visits = @ + 1]

(* loadServer and refreshChannels, up to the two reads.                    *)
OpenServer(l) ==
  /\ ~sidebar.open /\ loads[l] = None /\ trail.visits < MaxVisits
  /\ sidebar' = [open |-> TRUE, shown |-> Nowhere, headings |-> NoHeading, due |-> FALSE]
  /\ loads' = [loads EXCEPT ![l] = Starting("open")]
  /\ trail' = Visited
  /\ UNCHANGED <<channels, categories, acts>>

Refresh(l) ==
  /\ sidebar.open /\ loads[l] = None /\ trail.visits < MaxVisits
  /\ sidebar' = [sidebar EXCEPT !.due = FALSE]
  /\ loads' = [loads EXCEPT ![l] = Starting("refresh")]
  /\ trail' = Visited
  /\ UNCHANGED <<channels, categories, acts>>

ReadChannels(l) ==
  /\ loads[l] # None /\ loads[l].chans = None
  /\ loads' = [loads EXCEPT ![l].chans = LiveRows]
  /\ UNCHANGED <<channels, categories, acts, sidebar, trail>>

ReadCategories(l) ==
  /\ loads[l] # None /\ loads[l].cats = None
  /\ loads' = [loads EXCEPT ![l].cats = categories]
  /\ UNCHANGED <<channels, categories, acts, sidebar, trail>>

(* Both lists are replaced, whatever was told meanwhile.                   *)
ListsReplaced(l) ==
  /\ loads[l] # None /\ loads[l].chans # None /\ loads[l].cats # None
  /\ sidebar' = [sidebar EXCEPT !.shown = loads[l].chans, !.headings = loads[l].cats]
  /\ loads' = [loads EXCEPT ![l] = None]
  /\ trail' = [trail EXCEPT !.suspect = loads[l].stale \cup (@ \cap InWork)]
  /\ UNCHANGED <<channels, categories, acts>>

(* Only then does the layout subscribe to the server.                      *)
ShowLists(l) ==
  /\ ListsReplaced(l)
  /\ IF loads[l].kind = "open"
     THEN \E k \in Calls : Subscription(k, [op |-> "subscribe", topics |-> {Server}])
     ELSE UNCHANGED clientVars

(* Without categories a load goes on; without channels the layout shows    *)
(* none, and does not subscribe.                                           *)
LoadThrows(l) ==
  /\ loads[l] # None /\ trail.throws < MaxThrows
  /\ \/ /\ loads[l].cats = None
        /\ loads' = [loads EXCEPT ![l].cats = NoHeading, ![l].stale = @ \cup Cats]
        /\ UNCHANGED sidebar
     \/ /\ loads[l].chans = None
        /\ loads' = [loads EXCEPT ![l] = None]
        /\ sidebar' = IF loads[l].kind = "open" THEN [sidebar EXCEPT !.shown = Nowhere] ELSE sidebar
  /\ trail' = [trail EXCEPT !.throws = @ + 1, !.suspect = @ \cup Things]
  /\ UNCHANGED <<channels, categories, acts>>

-----------------------------------------------------------------------------
ActStarts(k) ==
  /\ acts[k] = None /\ trail.acts < MaxActs
  /\ \/ \E c \in Chans, cat \in Cats \cup {None} : StartCreate(k, c, cat) \/ StartUpdate(k, c, cat)
     \/ \E c \in Chans, op \in Asked : StartMark(k, op, c)
     \/ StartReorder(k, LiveRows, categories, FALSE)
     \/ StartReorder(k, sidebar.shown, sidebar.headings, TRUE)
     \/ StartSort(k, categories, FALSE) \/ StartSort(k, sidebar.headings, TRUE)
     \/ \E g \in Cats : StartAddCategory(k, g) \/ StartDropCategory(k, g) \/ \E h \in Cats : StartSwap(k, g, h)
ActStep(k) ==
  /\ acts[k] # None
  /\ \/ InsertChannel(k) \/ PurgeChannel(k) \/ WriteChannel(k) \/ ReadChannelAgain(k) \/ DropChannel(k)
     \/ ListForMoves(k) \/ WriteMove(k) \/ TellMove(k)
     \/ InsertCategory(k) \/ ListChildren(k) \/ FreeChild(k) \/ DropCategory(k)
     \/ SwapReadsOther(k) \/ SwapWrites(k) \/ SwapReadsAgain(k) \/ SwapTells(k)
     \/ ActThrows(k)
SidebarStep(l) ==
  OpenServer(l) \/ Refresh(l) \/ ReadChannels(l) \/ ReadCategories(l) \/ LoadThrows(l)

ServerNext ==
  \/ ((\E k \in Acts : ActStarts(k) \/ ActStep(k)) \/ (\E l \in Loads : SidebarStep(l))) /\ UNCHANGED clientVars
  \/ \E l \in Loads : ShowLists(l)

-----------------------------------------------------------------------------
Settled == sidebar.open /\ ~sidebar.due /\ \A l \in Loads : loads[l] = None

(* "Realtime sidebar updates via CHANNEL_CREATE / CHANNEL_UPDATE /         *)
(* CHANNEL_DELETE WS events" (servers.svelte.ts): a sidebar that is not    *)
(* being loaded shows every live channel and category where the server has *)
(* it, and nothing else, through creations, moves, the trash, drags that   *)
(* were shown before they were done, and loads that overlap all this.  Not *)
(* so for what requests that overlapped or failed were about, or what was  *)
(* told while the app did not listen or had a page on its way, until the   *)
(* next load.                                                              *)
SidebarTells ==
  Settled =>
    /\ \A c \in Chans \ (trail.suspect \cup InWork) : sidebar.shown[c] = LiveRows[c]
    /\ \A g \in Cats \ (trail.suspect \cup InWork) : sidebar.headings[g] = categories[g]

(* No two channels, nor two categories, ever share a position, those in    *)
(* the trash included (they may be restored), as long as positions were    *)
(* given out by one request at a time: an order that is a tie cannot be    *)
(* mended by dragging, since reorder only deals out the positions there    *)
(* are.                                                                    *)
Dealing == trail.raced \cup UNION {Placing(acts[k].op) : k \in Busy}
PlacesApart ==
  /\ "channels" \notin Dealing =>
       \A c, d \in Existing(channels) : c # d => channels[c].place # channels[d].place
  /\ "categories" \notin Dealing =>
       \A g, h \in Existing(categories) : g # h => categories[g] # categories[h]

(* "Delete a category (uncategorizes child channels)"                      *)
(* (category.controller.ts): at no moment does the sidebar hold a channel  *)
(* under a heading it does not draw, which would make the channel vanish   *)
(* from the screen, whichever of the two was changed or restored last.     *)
NothingVanishes ==
  sidebar.open => \A c \in Existing(sidebar.shown) :
    LET g == sidebar.shown[c].cat
    IN {c, g} \cap (trail.suspect \cup trail.torn) = {} => g = None \/ sidebar.headings[g] # None
===============================================================================

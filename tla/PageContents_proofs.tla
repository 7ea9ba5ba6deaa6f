-------------------------- MODULE PageContents_proofs --------------------------
(***************************************************************************)
(* What the page of a server shows, for any number of everything: the      *)
(* positions of channels and categories, the sidebar, and the list of      *)
(* messages.                                                               *)
(***************************************************************************)
EXTENDS ChannelPage_proofs

-----------------------------------------------------------------------------
(* Positions.  A request that gives some out has moves to make; the place  *)
(* that each channel or category has now, or will have by then, is its     *)
(* alone.                                                                  *)
Aims(todo, rws, x, p) ==
  \/ \E i \in DOMAIN todo : todo[i].id = x /\ todo[i].place = p /\ p # None
  \/ (\A i \in DOMAIN todo : todo[i].id = x => todo[i].place = None) /\ p = PlaceIn(rws, x)
Apart(todo, rws) ==
  \A x, y \in Existing(rws) : \A p, q \in Place :
    x # y /\ Aims(todo, rws, x, p) /\ Aims(todo, rws, y, q) => p # q
Placed(a, rws) == LET m == Head(a.todo) IN m.id \in Existing(rws) /\ m.place # None => PlaceIn(rws, m.id) = m.place
Deals(a, rws) ==
  /\ Apart(a.todo, rws)
  /\ a.op \in {"create", "addcat"} => a.todo = <<>> /\ \A x \in Existing(rws) : PlaceIn(rws, x) < a.place
  /\ a.op \in Ordering /\ a.stage = "read" => Placed(a, rws)
  /\ a.op = "swap" /\ a.stage = "list" => \A x \in Existing(rws) \ {a.ids[1]} : PlaceIn(rws, x) # a.place
Givers(tab, as) == {k \in Acts : as[k] # None /\ tab \in Placing(as[k].op)}
PlacesAt(tab, rws, as, raced) ==
  \/ tab \in raced
  \/ /\ \A j, k \in Givers(tab, as) : j = k
     /\ Givers(tab, as) = {} => Apart(<<>>, rws)
     /\ \A k \in Givers(tab, as) : Deals(as[k], rws)
PlacesInv ==
  PlacesAt("channels", channels, acts, trail.raced) /\ PlacesAt("categories", categories, acts, trail.raced)

(* Rows go or are written, and none gets another position.                 *)
Calm(rws, rws2) ==
  Existing(rws2) \subseteq Existing(rws) /\ \A x \in Existing(rws2) : PlaceIn(rws2, x) = PlaceIn(rws, x)

LEMMA CalmApart ==
  ASSUME NEW rws, NEW rws2, Calm(rws, rws2), NEW todo, Apart(todo, rws) PROVE Apart(todo, rws2)
<1> SUFFICES ASSUME NEW x \in Existing(rws2), NEW y \in Existing(rws2), NEW p \in Place, NEW q \in Place,
                    x # y, Aims(todo, rws2, x, p), Aims(todo, rws2, y, q)
             PROVE  p # q
  BY DEF Apart
<1>1. PlaceIn(rws2, x) = PlaceIn(rws, x) /\ PlaceIn(rws2, y) = PlaceIn(rws, y) /\ x \in Existing(rws) /\ y \in Existing(rws)
  BY DEF Calm
<1>2. Aims(todo, rws, x, p) /\ Aims(todo, rws, y, q)
  BY <1>1 DEF Aims
<1> QED
  BY <1>1, <1>2 DEF Apart

LEMMA CalmDeals ==
  ASSUME NEW rws, NEW rws2, Calm(rws, rws2), NEW a, Deals(a, rws) PROVE Deals(a, rws2)
<1>1. Apart(a.todo, rws2)
  BY CalmApart DEF Deals
<1>2. a.op \in Ordering /\ a.stage = "read" => Placed(a, rws2)
  BY DEF Deals, Calm, Placed
<1>3. a.op \in {"create", "addcat"} => a.todo = <<>> /\ \A x \in Existing(rws2) : PlaceIn(rws2, x) < a.place
  BY DEF Deals, Calm
<1>4. a.op = "swap" /\ a.stage = "list" => \A x \in Existing(rws2) \ {a.ids[1]} : PlaceIn(rws2, x) # a.place
  BY DEF Deals, Calm
<1> QED
  BY <1>1, <1>2, <1>3, <1>4 DEF Deals

LEMMA PlacesMove ==
  ASSUME SidebarTypeOK, AllShaped, NEW k \in Acts, acts[k] # None, Stepping(k), NEW tab, NEW rws, NEW rws2,
         PlacesAt(tab, rws, acts, trail.raced),
         IF tab \in Placing(acts[k].op)
         THEN tab \in trail'.raced \/ (Deals(acts[k], rws) => IF acts'[k] = None THEN Apart(<<>>, rws2)
                                                              ELSE Deals(acts'[k], rws2))
         ELSE Calm(rws, rws2)
  PROVE  PlacesAt(tab, rws2, acts', trail'.raced)
<1>1. trail.raced \subseteq trail'.raced
  BY DEF Stepping, TrailGrows
<1>2. PICK a : acts' = [acts EXCEPT ![k] = a] /\ (a = None \/ a.op = acts[k].op)
  BY DEF Stepping, Onward
<1>3. acts'[k] = a /\ \A j \in Acts \ {k} : acts'[j] = acts[j]
  BY <1>2 DEF SidebarTypeOK
<1>4. CASE tab \in trail'.raced
  BY <1>4 DEF PlacesAt
<1>5. CASE tab \notin trail'.raced
  <2>1. /\ \A i, j \in Givers(tab, acts) : i = j
        /\ Givers(tab, acts) = {} => Apart(<<>>, rws)
        /\ \A j \in Givers(tab, acts) : Deals(acts[j], rws)
    BY <1>1, <1>5 DEF PlacesAt
  <2>2. Givers(tab, acts') \subseteq Givers(tab, acts)
    BY <1>2, <1>3 DEF Givers
  <2>3. CASE tab \in Placing(acts[k].op)
    <3>1. Givers(tab, acts) = {k}
      BY <2>1, <2>3 DEF Givers
    <3>2. Givers(tab, acts') = IF a = None THEN {} ELSE {k}
      BY <1>2, <1>3, <2>2, <2>3, <3>1 DEF Givers
    <3>3. IF a = None THEN Apart(<<>>, rws2) ELSE Deals(a, rws2)
      BY <1>3, <1>5, <2>1, <2>3, <3>1
    <3> QED
      BY <1>3, <2>1, <2>2, <3>2, <3>3 DEF PlacesAt
  <2>4. CASE tab \notin Placing(acts[k].op)
    <3>1. Givers(tab, acts') = Givers(tab, acts) /\ \A j \in Givers(tab, acts) : acts'[j] = acts[j]
      BY <1>2, <1>3, <2>2, <2>4 DEF Givers
    <3>2. Givers(tab, acts) = {} => Apart(<<>>, rws2)
      BY <2>1, <2>4, CalmApart
    <3>3. \A j \in Givers(tab, acts) : Deals(acts[j], rws2)
      BY <2>1, <2>4, CalmDeals
    <3> QED
      BY <2>1, <3>1, <3>2, <3>3 DEF PlacesAt
  <2> QED
    BY <2>3, <2>4
<1> QED
  BY <1>4, <1>5

(* What a list of ids comes to.                                            *)
LEMMA AimsAre ==
  ASSUME NEW T, NEW ids \in Seq(T), Once(ids), NEW rws, NEW leaving, NEW cat,
         \A i \in DOMAIN ids : PlaceIn(rws, ids[i]) \in Place,
         NEW x, NEW p, Aims(Moving(rws, ids, leaving, cat), rws, x, p)
  PROVE  /\ \A i \in DOMAIN ids : ids[i] = x => p = Dealt(rws, ids)[i]
         /\ x \notin ToSet(ids) => p = PlaceIn(rws, x)
<1> DEFINE todo == Moving(rws, ids, leaving, cat)
           S == Changed(rws, ids, leaving)
<1>1. /\ \A n \in DOMAIN todo : \E i \in S : todo[n] = MoveOf(rws, ids, leaving, cat, i)
      /\ \A i \in S : \E n \in DOMAIN todo : todo[n] = MoveOf(rws, ids, leaving, cat, i)
  BY MovingIs
<1> HIDE DEF todo
<1>2. /\ \A i : MoveOf(rws, ids, leaving, cat, i).id = ids[i]
      /\ \A i : MoveOf(rws, ids, leaving, cat, i).place = IF Staying(rws, ids, i) THEN None ELSE Dealt(rws, ids)[i]
  BY DEF MoveOf
<1>3. S \subseteq DOMAIN ids
  BY DEF Changed
<1>4. ASSUME NEW n \in DOMAIN todo, NEW i \in DOMAIN ids, todo[n].id = ids[i]
      PROVE  i \in S /\ todo[n].place = IF Staying(rws, ids, i) THEN None ELSE Dealt(rws, ids)[i]
  <2>1. PICK j \in S : todo[n] = MoveOf(rws, ids, leaving, cat, j)
    BY <1>1
  <2>2. j = i
    BY <1>2, <1>3, <1>4, <2>1 DEF Once
  <2> QED
    BY <1>2, <2>1, <2>2
<1>5. ASSUME NEW i \in DOMAIN ids, ids[i] = x PROVE p = Dealt(rws, ids)[i]
  <2>1. Dealt(rws, ids)[i] \in Place
    BY DealtTypes
  <2>2. CASE Staying(rws, ids, i)
    <3>1. \A n \in DOMAIN todo : todo[n].id = x => todo[n].place = None
      BY <1>4, <1>5, <2>2
    <3>2. p = PlaceIn(rws, x)
      BY <3>1 DEF Aims, todo
    <3> QED
      BY <1>5, <2>2, <3>2 DEF Staying
  <2>3. CASE ~Staying(rws, ids, i)
    <3>1. PICK n \in DOMAIN todo : todo[n] = MoveOf(rws, ids, leaving, cat, i)
      BY <1>1, <2>3 DEF Changed
    <3>2. todo[n].id = x /\ todo[n].place # None
      BY <1>2, <1>5, <2>1, <2>3, <3>1, SidebarRecords
    <3>3. PICK m \in DOMAIN todo : todo[m].id = x /\ todo[m].place = p
      BY <3>2 DEF Aims, todo
    <3> QED
      BY <1>4, <1>5, <2>3, <3>3
  <2> QED
    BY <2>2, <2>3
<1>6. ASSUME x \notin ToSet(ids) PROVE p = PlaceIn(rws, x)
  <2>1. \A n \in DOMAIN todo : todo[n].id # x
    BY <1>1, <1>2, <1>3, <1>6 DEF ToSet
  <2> QED
    BY <2>1 DEF Aims, todo
<1> QED
  BY <1>5, <1>6

LEMMA NobodyAims ==
  ASSUME NEW rws, Apart(<<>>, rws), NEW x \in Existing(rws), NEW y \in Existing(rws), x # y,
         PlaceIn(rws, x) \in Place, PlaceIn(rws, y) \in Place
  PROVE  PlaceIn(rws, x) # PlaceIn(rws, y)
<1>1. Aims(<<>>, rws, x, PlaceIn(rws, x)) /\ Aims(<<>>, rws, y, PlaceIn(rws, y))
  BY DEF Aims
<1> QED
  BY <1>1 DEF Apart

LEMMA MovingApart ==
  ASSUME NEW T, NEW ids \in Seq(T), Once(ids), NEW rws, NEW leaving, NEW cat, Apart(<<>>, rws),
         \A x \in Existing(rws) : PlaceIn(rws, x) \in Place, \A i \in DOMAIN ids : ids[i] \in Existing(rws)
  PROVE  Apart(Moving(rws, ids, leaving, cat), rws)
<1> DEFINE todo == Moving(rws, ids, leaving, cat)
<1>1. \A i \in DOMAIN ids : PlaceIn(rws, ids[i]) \in Place
  OBVIOUS
<1>2. PICK o : DealtBy(rws, ids, o)
  BY <1>1, DealtIs
<1>3. /\ o \in [DOMAIN ids -> DOMAIN ids] /\ \A i, j \in DOMAIN ids : o[i] = o[j] => i = j
      /\ \A i \in DOMAIN ids : Dealt(rws, ids)[i] = PlaceIn(rws, ids[o[i]])
  BY <1>2 DEF DealtBy, Once
<1> DEFINE Source(x, s) == /\ s \in Existing(rws)
                           /\ \/ x \notin ToSet(ids) /\ s = x
                              \/ \E i \in DOMAIN ids : ids[i] = x /\ s = ids[o[i]]
<1>4. ASSUME NEW x \in Existing(rws), NEW p \in Place, Aims(todo, rws, x, p)
      PROVE  \E s : Source(x, s) /\ p = PlaceIn(rws, s)
  <2>1. CASE x \notin ToSet(ids)
    BY <1>1, <1>4, <2>1, AimsAre
  <2>2. CASE x \in ToSet(ids)
    <3>1. PICK i \in DOMAIN ids : ids[i] = x
      BY <2>2 DEF ToSet
    <3>2. p = Dealt(rws, ids)[i]
      BY <1>1, <1>4, <3>1, AimsAre
    <3>3. p = PlaceIn(rws, ids[o[i]]) /\ ids[o[i]] \in Existing(rws)
      BY <1>3, <3>2
    <3> QED
      BY <3>1, <3>3
  <2> QED
    BY <2>1, <2>2
<1>5. ASSUME NEW x, NEW y, NEW s, Source(x, s), Source(y, s) PROVE x = y
  <2>1. \A i \in DOMAIN ids : ids[o[i]] \in ToSet(ids)
    BY <1>3 DEF ToSet
  <2>2. \A i, j \in DOMAIN ids : ids[o[i]] = ids[o[j]] => i = j
    BY <1>3 DEF Once
  <2> QED
    BY <1>5, <2>1, <2>2
<1> HIDE DEF Source, todo
<1> SUFFICES ASSUME NEW x \in Existing(rws), NEW y \in Existing(rws), NEW p \in Place, NEW q \in Place,
                    x # y, Aims(todo, rws, x, p), Aims(todo, rws, y, q)
             PROVE  p # q
  BY DEF Apart, todo
<1>6. PICK s : Source(x, s) /\ p = PlaceIn(rws, s)
  BY <1>4
<1>7. PICK t : Source(y, t) /\ q = PlaceIn(rws, t)
  BY <1>4
<1>8. s # t /\ s \in Existing(rws) /\ t \in Existing(rws)
  BY <1>5, <1>6, <1>7 DEF Source
<1> QED
  BY <1>6, <1>7, <1>8, NobodyAims

(* What the steps of the requests do to positions.                         *)
LEMMA PlacesAre ==
  ASSUME SidebarTypeOK
  PROVE  /\ \A x \in Existing(channels) : x \in Chans /\ PlaceIn(channels, x) = channels[x].place /\ PlaceIn(channels, x) \in Place
         /\ \A x \in Existing(categories) : x \in Cats /\ PlaceIn(categories, x) = categories[x] /\ PlaceIn(categories, x) \in Place
         /\ \A x : x \in Existing(channels) <=> x \in Chans /\ channels[x] # None
         /\ \A x : x \in Existing(categories) <=> x \in Cats /\ categories[x] # None
BY ListsAre DEF Existing

LEMMA SameCalm == ASSUME NEW rws PROVE Calm(rws, rws)
BY DEF Calm

LEMMA RowCalm ==
  ASSUME SidebarTypeOK, NEW c \in Chans, NEW row \in ChannelRow \cup {None},
         row = None \/ (channels[c] # None /\ row.place = channels[c].place),
         channels' = channels \/ channels' = [channels EXCEPT ![c] = row]
  PROVE  Calm(channels, channels')
BY ListsAre DEF Calm, Existing, PlaceIn

LEMMA HeadCalm ==
  ASSUME SidebarTypeOK, NEW g \in Cats, categories' = [categories EXCEPT ![g] = None]
  PROVE  Calm(categories, categories')
BY ListsAre DEF Calm, Existing, PlaceIn

LEMMA LastApart ==
  ASSUME NEW rws, NEW rws2, NEW c, NEW p, Apart(<<>>, rws),
         \A x \in Existing(rws) : PlaceIn(rws, x) \in Place,
         \A x \in Existing(rws) : PlaceIn(rws, x) < p,
         Existing(rws2) = Existing(rws) \cup {c}, PlaceIn(rws2, c) = p,
         \A x \in Existing(rws) \ {c} : PlaceIn(rws2, x) = PlaceIn(rws, x)
  PROVE  Apart(<<>>, rws2)
<1> SUFFICES ASSUME NEW x \in Existing(rws2), NEW y \in Existing(rws2), x # y
             PROVE  PlaceIn(rws2, x) # PlaceIn(rws2, y)
  BY DEF Apart, Aims
<1>1. CASE x # c /\ y # c
  BY <1>1, NobodyAims
<1>2. CASE x = c
  BY <1>2 DEF Place
<1>3. CASE y = c
  BY <1>3 DEF Place
<1> QED
  BY <1>1, <1>2, <1>3

LEMMA PlacingIs ==
  /\ \A op \in {"create", "reorder"} : Placing(op) = {"channels"}
  /\ \A op \in {"addcat", "sortcats", "swap"} : Placing(op) = {"categories"}
  /\ \A op \in {"update", "delete", "restore", "harddelete", "dropcat"} : Placing(op) = {}
  /\ "channels" # "categories"
BY DEF Placing

(* Whoever gives out none leaves them alone.                               *)
LEMMA PlacesStand ==
  ASSUME SidebarTypeOK, AllShaped, PlacesInv, NEW k \in Acts, acts[k] # None, Stepping(k),
         Placing(acts[k].op) = {}, Calm(channels, channels'), Calm(categories, categories')
  PROVE  PlacesInv'
<1>1. PlacesAt("channels", channels', acts', trail'.raced)
  BY PlacesMove DEF PlacesInv
<1>2. PlacesAt("categories", categories', acts', trail'.raced)
  BY PlacesMove DEF PlacesInv
<1> QED
  BY <1>1, <1>2 DEF PlacesInv

LEMMA ChannelsPlaced ==
  ASSUME SidebarTypeOK, AllShaped, PlacesInv, NEW k \in Acts, acts[k] # None, Stepping(k),
         Placing(acts[k].op) = {"channels"}, UNCHANGED categories,
         Deals(acts[k], channels) => IF acts'[k] = None THEN Apart(<<>>, channels') ELSE Deals(acts'[k], channels')
  PROVE  PlacesInv'
<1>1. PlacesAt("channels", channels', acts', trail'.raced)
  BY PlacesMove DEF PlacesInv
<1>2. PlacesAt("categories", categories', acts', trail'.raced)
  BY PlacesMove, SameCalm, PlacingIs DEF PlacesInv
<1> QED
  BY <1>1, <1>2 DEF PlacesInv

LEMMA CategoriesPlaced ==
  ASSUME SidebarTypeOK, AllShaped, PlacesInv, NEW k \in Acts, acts[k] # None, Stepping(k),
         Placing(acts[k].op) = {"categories"}, UNCHANGED channels,
         Deals(acts[k], categories) => IF acts'[k] = None THEN Apart(<<>>, categories') ELSE Deals(acts'[k], categories')
  PROVE  PlacesInv'
<1>1. PlacesAt("channels", channels', acts', trail'.raced)
  BY PlacesMove, SameCalm, PlacingIs DEF PlacesInv
<1>2. PlacesAt("categories", categories', acts', trail'.raced)
  BY PlacesMove DEF PlacesInv
<1> QED
  BY <1>1, <1>2 DEF PlacesInv

LEMMA PlainPlaces ==
  ASSUME SidebarTypeOK, AllShaped, PlacesInv, NEW k \in Acts, Stepping(k),
         PurgeChannel(k) \/ WriteChannel(k) \/ ReadChannelAgain(k) \/ DropChannel(k) \/ ListChildren(k)
           \/ FreeChild(k) \/ DropCategory(k)
  PROVE  PlacesInv'
<1>0. acts[k] # None
  BY DEF PurgeChannel, WriteChannel, ReadChannelAgain, DropChannel, ListChildren, FreeChild, DropCategory, ActAt
<1>1. acts[k] \in Act /\ Shaped(acts[k])
  BY <1>0, ActIs
<1>2. acts[k].op \in {"update", "delete", "restore", "harddelete", "dropcat"}
  BY DEF PurgeChannel, WriteChannel, ReadChannelAgain, DropChannel, ListChildren, FreeChild, DropCategory, ActAt
<1>3. Placing(acts[k].op) = {}
  BY <1>2, PlacingIs
<1>4. Calm(channels, channels') /\ Calm(categories, categories')
  <2>1. CASE PurgeChannel(k) \/ ReadChannelAgain(k) \/ ListChildren(k)
    BY <2>1, SameCalm DEF PurgeChannel, ReadChannelAgain, ListChildren
  <2>2. CASE WriteChannel(k)
    <3> DEFINE c == acts[k].x
               row == Marked(channels[c], acts[k])
    <3>1. /\ acts[k].op \in {"update", "delete", "restore"} /\ UNCHANGED categories
          /\ channels' = IF channels[c] = None THEN channels ELSE [channels EXCEPT ![c] = row]
      BY <2>2 DEF WriteChannel, ActAt
    <3>2. c \in Chans
      BY <1>1, <3>1 DEF Shaped
    <3>3. channels[c] # None => row \in ChannelRow /\ row.place = channels[c].place
      BY <1>1, <3>2, MarkedIs, ListsAre DEF Listed
    <3> HIDE DEF row
    <3> QED
      BY <3>1, <3>2, <3>3, RowCalm, SameCalm
  <2>3. CASE DropChannel(k)
    <3>1. acts[k].op = "harddelete" /\ UNCHANGED categories /\ channels' = [channels EXCEPT ![acts[k].x] = None]
      BY <2>3 DEF DropChannel, ActAt, Removing
    <3>2. acts[k].x \in Chans
      BY <1>1, <3>1 DEF Shaped
    <3> QED
      BY <3>1, <3>2, RowCalm, SameCalm
  <2>4. CASE FreeChild(k)
    <3> DEFINE m == Head(acts[k].todo)
               row == MovedRow(channels[m.id], m)
    <3>1. /\ acts[k].op = "dropcat" /\ acts[k].todo # <<>> /\ UNCHANGED categories
          /\ channels' = IF channels[m.id] = None THEN channels ELSE [channels EXCEPT ![m.id] = row]
      BY <2>4 DEF FreeChild, ActAt
    <3>2. acts[k].todo \in Seq(Move)
      BY <1>1 DEF Act
    <3>3. m \in Move /\ m = acts[k].todo[1] /\ 1 \in DOMAIN acts[k].todo
      BY <3>1, <3>2, TodoIs
    <3>4. m.id \in Chans /\ m.place = None
      BY <1>1, <3>1, <3>3 DEF Shaped, Freeing
    <3>5. channels[m.id] # None => row \in ChannelRow /\ row.place = channels[m.id].place
      BY <3>3, <3>4, MovedRowIs, ListsAre DEF Listed
    <3> HIDE DEF row
    <3> QED
      BY <3>1, <3>4, <3>5, RowCalm, SameCalm
  <2>5. CASE DropCategory(k)
    <3>1. acts[k].op = "dropcat" /\ UNCHANGED channels /\ categories' = [categories EXCEPT ![acts[k].x] = None]
      BY <2>5 DEF DropCategory, ActAt, Removing
    <3>2. acts[k].x \in Cats
      BY <1>1, <3>1 DEF Shaped
    <3> QED
      BY <3>1, <3>2, HeadCalm, SameCalm
  <2> QED
    BY <2>1, <2>2, <2>3, <2>4, <2>5
<1> QED
  BY <1>0, <1>3, <1>4, PlacesStand

LEMMA InsertPlaces ==
  ASSUME SidebarTypeOK, AllShaped, PlacesInv, NEW k \in Acts, Stepping(k), InsertChannel(k) \/ InsertCategory(k)
  PROVE  PlacesInv'
<1> DEFINE a == acts[k]
           x == a.x
           row == [place |-> a.place, cat |-> a.cat, deleted |-> FALSE]
<1>0. a # None /\ acts'[k] = None
  BY DEF InsertChannel, InsertCategory, ActAt, ActOver, SidebarTypeOK
<1>1. a \in Act /\ Shaped(a)
  BY <1>0, ActIs
<1>2. CASE InsertChannel(k)
  <2>1. a.op = "create" /\ UNCHANGED categories /\ channels' = [channels EXCEPT ![x] = row]
    BY <1>2 DEF InsertChannel, ActAt
  <2>2. x \in Chans /\ a.place \in Place /\ row # None /\ row.place = a.place
    <3>1. x \in Chans /\ a.place \in Place /\ row \in ChannelRow
      BY <1>1, <2>1 DEF Shaped, Act, ChannelRow
    <3> QED
      BY <3>1, SidebarRecords
  <2> HIDE DEF row
  <2>3. ASSUME Deals(a, channels) PROVE Apart(<<>>, channels')
    <3>1. Apart(<<>>, channels) /\ \A y \in Existing(channels) : PlaceIn(channels, y) < a.place
      BY <2>1, <2>3 DEF Deals
    <3>3. Existing(channels') = Existing(channels) \cup {x}
      BY <2>1, <2>2, ListsAre DEF Existing
    <3>4. PlaceIn(channels', x) = a.place
      BY <2>1, <2>2, ListsAre DEF PlaceIn
    <3>5. \A y \in Existing(channels) \ {x} : PlaceIn(channels', y) = PlaceIn(channels, y)
      BY <2>1, <2>2, ListsAre DEF PlaceIn, Existing
    <3> QED
      BY <3>1, <3>3, <3>4, <3>5, LastApart, PlacesAre
  <2> QED
    BY <1>0, <2>1, <2>3, ChannelsPlaced, PlacingIs
<1>3. CASE InsertCategory(k)
  <2>1. a.op = "addcat" /\ UNCHANGED channels /\ categories' = [categories EXCEPT ![x] = a.place]
    BY <1>3 DEF InsertCategory, ActAt
  <2>2. x \in Cats /\ x \notin Chans /\ a.place \in Place /\ a.place # None
    <3>1. x \in Cats /\ a.place \in Place
      BY <1>1, <2>1 DEF Shaped
    <3> QED
      BY <3>1, SidebarRecords, SidebarBounds
  <2>3. ASSUME Deals(a, categories) PROVE Apart(<<>>, categories')
    <3>1. Apart(<<>>, categories) /\ \A y \in Existing(categories) : PlaceIn(categories, y) < a.place
      BY <2>1, <2>3 DEF Deals
    <3>3. Existing(categories') = Existing(categories) \cup {x}
      BY <2>1, <2>2, ListsAre DEF Existing
    <3>4. PlaceIn(categories', x) = a.place
      BY <2>1, <2>2, ListsAre DEF PlaceIn
    <3>5. \A y \in Existing(categories) \ {x} : PlaceIn(categories', y) = PlaceIn(categories, y)
      <4> SUFFICES ASSUME NEW y \in Existing(categories) \ {x} PROVE PlaceIn(categories', y) = PlaceIn(categories, y)
        OBVIOUS
      <4>1. y \in Cats /\ y \notin Chans
        BY PlacesAre, SidebarBounds
      <4> QED
        BY <2>1, <4>1, ListsAre DEF PlaceIn
    <3> QED
      BY <3>1, <3>3, <3>4, <3>5, LastApart, PlacesAre
  <2> QED
    BY <1>0, <2>1, <2>3, CategoriesPlaced, PlacingIs
<1> QED
  BY <1>2, <1>3

(* The orders: what is planned, written and told.                          *)
LEMMA ListPlaces ==
  ASSUME SidebarTypeOK, AllShaped, PlacesInv, NEW k \in Acts, Stepping(k), ListForMoves(k) PROVE PlacesInv'
<1> DEFINE a == acts[k]
           todo == IF a.op = "reorder" THEN ChannelMoves(a.ids, a.cat) ELSE CategoryMoves(a.ids)
           rws == IF a.op = "reorder" THEN channels ELSE categories
<1>1. /\ a # None /\ a.op \in Ordering /\ a.stage = "list" /\ UNCHANGED <<channels, categories, trail>>
      /\ IF Known(a.ids) THEN Planned(k, todo) ELSE ActOver(k)
  BY DEF ListForMoves, ActAt, Ordering, Known, Refused
<1>2. a \in Act /\ Shaped(a)
  BY <1>1, ActIs
<1>3. a.todo = <<>> /\ Once(a.ids) /\ a.ids \in Seq(Chans \cup Cats)
      /\ (a.op = "reorder" => a.ids \in Seq(Chans)) /\ (a.op = "sortcats" => a.ids \in Seq(Cats))
  <2>1. Drawn(a, Chans) \/ Drawn(a, Cats)
    BY <1>1, <1>2 DEF Shaped, Ordering
  <2>2. a.todo = <<>> /\ Once(a.ids)
    BY <1>1, <2>1 DEF Drawn
  <2>3. (a.op = "reorder" => a.ids \in Seq(Chans)) /\ (a.op = "sortcats" => a.ids \in Seq(Cats))
    BY <1>2 DEF Shaped, Drawn
  <2> QED
    BY <1>1, <2>2, <2>3 DEF Ordering
<1>4. ASSUME Deals(a, rws) PROVE IF acts'[k] = None THEN Apart(<<>>, rws) ELSE Deals(acts'[k], rws)
  <2>1. Apart(<<>>, rws)
    BY <1>3, <1>4 DEF Deals
  <2>2. CASE acts'[k] = None
    BY <2>1, <2>2
  <2>3. CASE acts'[k] # None
    <3>1. Known(a.ids) /\ Planned(k, todo)
      BY <1>1, <2>3 DEF ActOver, SidebarTypeOK
    <3>2. todo \in Seq(Move)
      BY <1>1, <3>1, ListedMoves
    <3>3. todo # <<>>
      BY <1>1, <2>3, <3>1, <3>2, PlannedForm DEF ActOver, SidebarTypeOK
    <3>4. PICK b \in Act : acts' = [acts EXCEPT ![k] = b] /\ b.todo = todo /\ b.stage = "write" /\ b.op = a.op
      <4> HIDE DEF todo
      <4> QED
        BY <1>1, <3>1, <3>2, <3>3, PlannedForm
    <3>5. acts'[k] = b
      BY <3>4 DEF SidebarTypeOK
    <3>6. Apart(todo, rws)
      <4>1. CASE a.op = "reorder"
        <5>1. \A i \in DOMAIN a.ids : a.ids[i] \in Existing(rws)
          <6> SUFFICES ASSUME NEW i \in DOMAIN a.ids PROVE a.ids[i] \in Existing(rws)
            OBVIOUS
          <6>1. a.ids[i] \in Chans
            BY <1>3, <4>1
          <6>2. channels[a.ids[i]] # None
            BY <3>1, <6>1 DEF Known, Live
          <6> QED
            BY <4>1, <6>1, <6>2, PlacesAre
        <5>2. \A x \in Existing(rws) : PlaceIn(rws, x) \in Place
          BY <4>1, PlacesAre
        <5>3. todo = Moving(rws, a.ids, {c \in ToSet(a.ids) : channels[c].cat # a.cat}, a.cat)
          BY <4>1 DEF ChannelMoves
        <5> HIDE DEF todo
        <5> QED
          BY <1>3, <2>1, <5>1, <5>2, <5>3, MovingApart
      <4>2. CASE a.op = "sortcats"
        <5>1. \A i \in DOMAIN a.ids : a.ids[i] \in Existing(rws)
          <6> SUFFICES ASSUME NEW i \in DOMAIN a.ids PROVE a.ids[i] \in Existing(rws)
            OBVIOUS
          <6>1. a.ids[i] \in Cats /\ a.ids[i] \notin Chans
            BY <1>3, <4>2, SidebarBounds
          <6>2. categories[a.ids[i]] # None
            BY <3>1, <6>1 DEF Known
          <6> QED
            BY <4>2, <6>1, <6>2, PlacesAre
        <5>2. \A x \in Existing(rws) : PlaceIn(rws, x) \in Place
          BY <4>2, PlacesAre
        <5>3. todo = Moving(rws, a.ids, {}, None)
          BY <4>2 DEF CategoryMoves
        <5> HIDE DEF todo
        <5> QED
          BY <1>3, <2>1, <5>1, <5>2, <5>3, MovingApart
      <4> QED
        BY <1>1, <4>1, <4>2 DEF Ordering
    <3>7. b.op \notin {"create", "addcat", "swap"} /\ b.stage # "read"
      BY <1>1, <3>4 DEF Ordering
    <3> HIDE DEF todo, rws
    <3>8. Deals(b, rws)
      BY <3>4, <3>6, <3>7 DEF Deals
    <3> QED
      BY <2>3, <3>5, <3>8
  <2> QED
    BY <2>2, <2>3
<1>5. CASE a.op = "reorder"
  BY <1>1, <1>4, <1>5, ChannelsPlaced, PlacingIs
<1>6. CASE a.op = "sortcats"
  BY <1>1, <1>4, <1>6, CategoriesPlaced, PlacingIs
<1> QED
  BY <1>1, <1>5, <1>6 DEF Ordering

(* A move is written: the place it was aimed at is the one it has.         *)
LEMMA WrittenApart ==
  ASSUME NEW rws, NEW rws2, NEW todo \in Seq(Move), todo # <<>>, Apart(todo, rws),
         LET m == Head(todo)
         IN /\ Existing(rws2) \subseteq Existing(rws)
            /\ \A x \in Existing(rws2) : PlaceIn(rws2, x) = IF x = m.id /\ m.place # None THEN m.place ELSE PlaceIn(rws, x)
  PROVE  Apart(todo, rws2) /\ Apart(Tail(todo), rws2)
<1> DEFINE m == Head(todo)
<1>1. /\ m = todo[1] /\ 1 \in DOMAIN todo
      /\ \A i \in DOMAIN Tail(todo) : i + 1 \in DOMAIN todo /\ Tail(todo)[i] = todo[i + 1]
      /\ \A i \in DOMAIN todo \ {1} : i - 1 \in DOMAIN Tail(todo) /\ Tail(todo)[i - 1] = todo[i]
  <2>1. /\ m = todo[1] /\ DOMAIN todo = 1..Len(todo) /\ 1 \in DOMAIN todo /\ DOMAIN Tail(todo) = 1..(Len(todo) - 1)
        /\ \A i \in DOMAIN Tail(todo) : i + 1 \in DOMAIN todo /\ Tail(todo)[i] = todo[i + 1]
    BY TodoIs
  <2> HIDE DEF m
  <2>2. ASSUME NEW i \in DOMAIN todo \ {1} PROVE i - 1 \in DOMAIN Tail(todo) /\ Tail(todo)[i - 1] = todo[i]
    <3>1. i - 1 \in DOMAIN Tail(todo) /\ (i - 1) + 1 = i
      BY <2>1
    <3> QED
      BY <2>1, <3>1
  <2> QED
    BY <2>1, <2>2
<1> DEFINE rest == Tail(todo)
<1>2. /\ Existing(rws2) \subseteq Existing(rws)
      /\ \A x \in Existing(rws2) : PlaceIn(rws2, x) = IF x = m.id /\ m.place # None THEN m.place ELSE PlaceIn(rws, x)
  OBVIOUS
<1> HIDE DEF m, rest
<1>3. ASSUME NEW x \in Existing(rws2), NEW p \in Place, Aims(todo, rws2, x, p) PROVE Aims(todo, rws, x, p)
  <2>1. CASE \E i \in DOMAIN todo : todo[i].id = x /\ todo[i].place = p /\ p # None
    BY <2>1 DEF Aims
  <2>2. CASE (\A i \in DOMAIN todo : todo[i].id = x => todo[i].place = None) /\ p = PlaceIn(rws2, x)
    BY <1>1, <1>2, <2>2 DEF Aims
  <2> QED
    BY <1>3, <2>1, <2>2 DEF Aims
<1>4. ASSUME NEW x \in Existing(rws2), NEW p \in Place, Aims(rest, rws2, x, p) PROVE Aims(todo, rws, x, p)
  <2>1. CASE \E i \in DOMAIN rest : rest[i].id = x /\ rest[i].place = p /\ p # None
    <3>1. PICK i \in DOMAIN rest : rest[i].id = x /\ rest[i].place = p /\ p # None
      BY <2>1
    <3>2. i + 1 \in DOMAIN todo /\ rest[i] = todo[i + 1]
      BY <1>1, <3>1 DEF rest
    <3> QED
      BY <3>1, <3>2 DEF Aims
  <2>2. CASE (\A i \in DOMAIN rest : rest[i].id = x => rest[i].place = None) /\ p = PlaceIn(rws2, x)
    <3>1. ASSUME NEW i \in DOMAIN todo \ {1}, todo[i].id = x PROVE todo[i].place = None
      <4>1. i - 1 \in DOMAIN rest /\ rest[i - 1] = todo[i]
        BY <1>1 DEF rest
      <4> QED
        BY <2>2, <3>1, <4>1
    <3>2. CASE x = m.id /\ m.place # None
      <4>1. p = m.place /\ p # None
        BY <1>2, <2>2, <3>2
      <4>2. todo[1].id = x /\ todo[1].place = p
        BY <1>1, <3>2, <4>1
      <4> QED
        BY <1>1, <4>1, <4>2 DEF Aims
    <3>3. CASE ~(x = m.id /\ m.place # None)
      <4>1. \A i \in DOMAIN todo : todo[i].id = x => todo[i].place = None
        BY <1>1, <3>1, <3>3
      <4>2. p = PlaceIn(rws, x)
        BY <1>2, <2>2, <3>3
      <4> QED
        BY <4>1, <4>2 DEF Aims
    <3> QED
      BY <3>2, <3>3
  <2> QED
    BY <1>4, <2>1, <2>2 DEF Aims
<1>5. Apart(todo, rws2)
  BY <1>2, <1>3 DEF Apart
<1>6. Apart(rest, rws2)
  BY <1>2, <1>4 DEF Apart
<1> QED
  BY <1>5, <1>6 DEF rest

LEMMA WritePlaces ==
  ASSUME SidebarTypeOK, AllShaped, PlacesInv, NEW k \in Acts, Stepping(k), WriteMove(k) PROVE PlacesInv'
<1> DEFINE a == acts[k]
           m == Head(a.todo)
<1>1. /\ a # None /\ a.op \in Ordering /\ a.stage = "write" /\ ActTo(k, "read")
      /\ channels' = IF m.id \notin Chans \/ channels[m.id] = None THEN channels
                     ELSE [channels EXCEPT ![m.id] = MovedRow(channels[m.id], m)]
      /\ categories' = IF m.id \notin Cats \/ categories[m.id] = None THEN categories
                       ELSE [categories EXCEPT ![m.id] = m.place]
  BY DEF WriteMove, ActAt, Ordering
<1>2. /\ a \in Act /\ a.todo \in Seq(Move) /\ a.todo # <<>> /\ m \in Move
      /\ a.op = "reorder" => m.id \in Chans
      /\ a.op = "sortcats" => m.id \in Cats /\ m.place \in Place
  BY <1>1, OrderingIs
<1>3. PICK b \in Act : acts' = [acts EXCEPT ![k] = b] /\ b.stage = "read" /\ b.todo = a.todo /\ b.op = a.op
  BY <1>1, StageOnly
<1>4. acts'[k] = b /\ b # None
  BY <1>3, SidebarRecords DEF SidebarTypeOK
<1>5. ASSUME NEW rws, NEW rws2, Deals(a, rws), Existing(rws2) \subseteq Existing(rws),
             \A x \in Existing(rws2) : PlaceIn(rws2, x) = IF x = m.id /\ m.place # None THEN m.place ELSE PlaceIn(rws, x)
      PROVE  Deals(b, rws2)
  <2>1. Apart(a.todo, rws)
    BY <1>5 DEF Deals
  <2>2. Apart(a.todo, rws2)
    BY <1>2, <1>5, <2>1, WrittenApart
  <2>3. Placed(b, rws2)
    BY <1>3, <1>5 DEF Placed
  <2> QED
    BY <1>1, <1>3, <2>2, <2>3 DEF Deals, Ordering
<1>6. CASE a.op = "reorder"
  <2>1. m.id \in Chans /\ m.id \notin Cats /\ UNCHANGED categories
    BY <1>1, <1>2, <1>6, SidebarBounds
  <2>2. channels[m.id] # None => LET row == MovedRow(channels[m.id], m) IN
          row \in ChannelRow /\ row.place = IF m.place = None THEN channels[m.id].place ELSE m.place
    BY <1>2, <2>1, MovedRowIs, ListsAre DEF Listed
  <2> DEFINE row == MovedRow(channels[m.id], m)
  <2>3. channels' = channels \/ (channels[m.id] # None /\ channels' = [channels EXCEPT ![m.id] = row])
    BY <1>1, <2>1
  <2>4. channels[m.id] # None => row # None
    BY <2>2, SidebarRecords
  <2> HIDE DEF row
  <2>5. Existing(channels') \subseteq Existing(channels)
    BY <2>1, <2>3, ListsAre DEF Existing
  <2>6. \A x \in Existing(channels') :
          PlaceIn(channels', x) = IF x = m.id /\ m.place # None THEN m.place ELSE PlaceIn(channels, x)
    <3> SUFFICES ASSUME NEW x \in Existing(channels')
                 PROVE PlaceIn(channels', x) = IF x = m.id /\ m.place # None THEN m.place ELSE PlaceIn(channels, x)
      OBVIOUS
    <3>1. x \in Chans /\ channels[x] # None
      BY <2>5, PlacesAre
    <3>2. CASE x = m.id
      <4>1. channels'[x] = row
        BY <1>1, <2>1, <3>1, <3>2, ListsAre DEF row
      <4> QED
        BY <2>2, <3>1, <3>2, <4>1 DEF PlaceIn, row
    <3>3. CASE x # m.id
      <4>1. channels'[x] = channels[x]
        BY <2>3, <3>1, <3>3, ListsAre
      <4> QED
        BY <3>1, <3>3, <4>1 DEF PlaceIn
    <3> QED
      BY <3>2, <3>3
  <2> QED
    BY <1>1, <1>4, <1>5, <1>6, <2>1, <2>5, <2>6, ChannelsPlaced, PlacingIs
<1>7. CASE a.op = "sortcats"
  <2>1. m.id \in Cats /\ m.id \notin Chans /\ m.place \in Place /\ m.place # None /\ UNCHANGED channels
    BY <1>1, <1>2, <1>7, SidebarBounds, SidebarRecords
  <2>2. categories' = categories \/ (categories[m.id] # None /\ categories' = [categories EXCEPT ![m.id] = m.place])
    BY <1>1, <2>1
  <2>3. Existing(categories') \subseteq Existing(categories)
    BY <2>1, <2>2, ListsAre DEF Existing
  <2>4. \A x \in Existing(categories') :
          PlaceIn(categories', x) = IF x = m.id /\ m.place # None THEN m.place ELSE PlaceIn(categories, x)
    <3> SUFFICES ASSUME NEW x \in Existing(categories')
                 PROVE PlaceIn(categories', x) = IF x = m.id /\ m.place # None THEN m.place ELSE PlaceIn(categories, x)
      OBVIOUS
    <3>1. x \in Cats /\ categories[x] # None /\ x \notin Chans
      BY <2>3, PlacesAre, SidebarBounds
    <3>2. CASE x = m.id
      BY <1>1, <2>1, <3>1, <3>2, ListsAre DEF PlaceIn
    <3>3. CASE x # m.id
      BY <2>2, <3>1, <3>3, ListsAre DEF PlaceIn
    <3> QED
      BY <3>2, <3>3
  <2> QED
    BY <1>1, <1>4, <1>5, <1>7, <2>1, <2>3, <2>4, CategoriesPlaced, PlacingIs
<1> QED
  BY <1>1, <1>6, <1>7 DEF Ordering

LEMMA TellPlaces ==
  ASSUME SidebarTypeOK, AllShaped, PlacesInv, NEW k \in Acts, Stepping(k), TellMove(k) PROVE PlacesInv'
<1> DEFINE a == acts[k]
           rest == Tail(a.todo)
<1>1. /\ a # None /\ a.op \in Ordering /\ a.stage = "read" /\ Planned(k, rest) /\ UNCHANGED <<channels, categories>>
  BY DEF TellMove, ActAt, Ordering
<1>2. a \in Act /\ a.todo \in Seq(Move) /\ a.todo # <<>> /\ Head(a.todo) \in Move
  BY <1>1, OrderingIs
<1>3. rest \in Seq(Move)
  BY <1>2, TodoIs
<1>4. ASSUME NEW rws, Deals(a, rws) PROVE IF acts'[k] = None THEN Apart(<<>>, rws) ELSE Deals(acts'[k], rws)
  <2>1. Apart(a.todo, rws) /\ Placed(a, rws)
    BY <1>1, <1>4 DEF Deals
  <2>2. Apart(rest, rws)
    BY <1>2, <2>1, WrittenApart DEF Placed
  <2> HIDE DEF rest
  <2>3. CASE rest = <<>>
    <3>1. acts'[k] = None
      BY <1>1, <1>3, <2>3, PlannedForm DEF ActOver, SidebarTypeOK
    <3> QED
      BY <2>2, <2>3, <3>1
  <2>4. CASE rest # <<>>
    <3>1. PICK b \in Act : acts' = [acts EXCEPT ![k] = b] /\ b.todo = rest /\ b.stage = "write" /\ b.op = a.op
      BY <1>1, <1>3, <2>4, PlannedForm
    <3>2. acts'[k] = b /\ b # None
      BY <3>1, SidebarRecords DEF SidebarTypeOK
    <3>3. Deals(b, rws)
      BY <1>1, <2>2, <3>1 DEF Deals, Ordering
    <3> QED
      BY <3>2, <3>3
  <2> QED
    BY <2>3, <2>4
<1>5. CASE a.op = "reorder"
  BY <1>1, <1>4, <1>5, ChannelsPlaced, PlacingIs
<1>6. CASE a.op = "sortcats"
  BY <1>1, <1>4, <1>6, CategoriesPlaced, PlacingIs
<1> QED
  BY <1>1, <1>5, <1>6 DEF Ordering

(* The exchange of two categories.                                         *)
LEMMA SwapReadsPlaces ==
  ASSUME SidebarTypeOK, AllShaped, PlacesInv, NEW k \in Acts, Stepping(k), SwapReadsOther(k) PROVE PlacesInv'
<1> DEFINE a == acts[k]
           g == a.ids[1]
           h == a.ids[2]
           to(id, place) == [id |-> id, place |-> place, moved |-> FALSE, cat |-> None, row |-> None]
           todo == <<to(g, categories[h]), to(h, a.place)>>
<1>1. /\ a # None /\ a.op = "swap" /\ a.stage = "list" /\ UNCHANGED <<channels, categories, sidebar, loads, trail>>
      /\ IF categories[h] = None THEN ActOver(k) ELSE Planned(k, todo)
  BY DEF SwapReadsOther, ActAt
<1>2. a \in Act /\ g \in Cats /\ h \in Cats /\ g # h /\ a.place \in Place /\ a.todo = <<>>
  <2>1. a \in Act /\ Exchanged(a) /\ g \in Cats /\ h \in Cats /\ g # h
    BY <1>1, SwapIs
  <2> QED
    BY <1>1, <2>1 DEF Exchanged
<1>3. ASSUME Deals(a, categories) PROVE IF acts'[k] = None THEN Apart(<<>>, categories) ELSE Deals(acts'[k], categories)
  <2>1. Apart(<<>>, categories) /\ \A x \in Existing(categories) \ {g} : PlaceIn(categories, x) # a.place
    BY <1>1, <1>2, <1>3 DEF Deals
  <2>2. CASE categories[h] = None
    BY <1>1, <2>1, <2>2 DEF ActOver, SidebarTypeOK
  <2>3. CASE categories[h] # None
    <3>1. h \in Existing(categories) /\ PlaceIn(categories, h) = categories[h] /\ categories[h] \in Place
      BY <1>2, <2>3, PlacesAre
    <3>2. PICK t1, t2 : t1 = to(g, categories[h]) /\ t2 = to(h, a.place)
      OBVIOUS
    <3>3. t1 \in Move /\ t2 \in Move /\ t1.id = g /\ t1.place = categories[h] /\ t2.id = h /\ t2.place = a.place
      BY <1>2, <3>1, <3>2 DEF Move, Things
    <3>4. PICK s : s = <<t1, t2>>
      OBVIOUS
    <3>5. s \in Seq(Move) /\ s # <<>> /\ s[1] = t1 /\ s[2] = t2 /\ DOMAIN s = {1, 2}
      BY <3>3, <3>4
    <3>6. s = todo
      BY <3>2, <3>4
    <3> HIDE DEF todo, to
    <3>7. PICK b \in Act : acts' = [acts EXCEPT ![k] = b] /\ b.todo = s /\ b.stage = "write" /\ b.op = a.op
      BY <1>1, <2>3, <3>5, <3>6, PlannedForm
    <3>8. acts'[k] = b /\ b # None
      BY <3>7, SidebarRecords DEF SidebarTypeOK
    <3>9. ASSUME NEW x, NEW p, Aims(s, categories, x, p)
          PROVE  /\ x = g => p = categories[h]
                 /\ x = h => p = a.place
                 /\ x # g /\ x # h => p = PlaceIn(categories, x)
      BY <1>2, <3>1, <3>3, <3>5, <3>9, SidebarRecords DEF Aims
    <3>10. Apart(s, categories)
      <4> SUFFICES ASSUME NEW x \in Existing(categories), NEW y \in Existing(categories), NEW p \in Place, NEW q \in Place,
                          x # y, Aims(s, categories, x, p), Aims(s, categories, y, q) PROVE p # q
        BY DEF Apart
      <4>1. \A z \in Existing(categories) : PlaceIn(categories, z) \in Place
        BY PlacesAre
      <4>2. \A z \in Existing(categories) : z # h => PlaceIn(categories, z) # categories[h]
        BY <2>1, <3>1, <4>1, NobodyAims
      <4>3. a.place # categories[h]
        BY <1>2, <2>1, <3>1
      <4>4. x # g /\ x # h /\ y # g /\ y # h => PlaceIn(categories, x) # PlaceIn(categories, y)
        BY <2>1, <4>1, NobodyAims
      <4>5. (x = g => p = categories[h]) /\ (x = h => p = a.place) /\ (x # g /\ x # h => p = PlaceIn(categories, x))
        BY <3>9
      <4>6. (y = g => q = categories[h]) /\ (y = h => q = a.place) /\ (y # g /\ y # h => q = PlaceIn(categories, y))
        BY <3>9
      <4> QED
        BY <2>1, <4>2, <4>3, <4>4, <4>5, <4>6
    <3>11. Deals(b, categories)
      BY <1>1, <3>7, <3>10 DEF Deals, Ordering
    <3> QED
      BY <3>8, <3>11
  <2> QED
    BY <2>2, <2>3
<1> QED
  BY <1>1, <1>3, CategoriesPlaced, PlacingIs

LEMMA SwapPlaces ==
  ASSUME SidebarTypeOK, AllShaped, PlacesInv, NEW k \in Acts, Stepping(k), SwapWrites(k) PROVE PlacesInv'
<1> DEFINE a == acts[k]
           m == Head(a.todo)
           stage == IF Len(a.todo) = 1 THEN "read" ELSE a.stage
           rest == Tail(a.todo)
           b == [a EXCEPT !.todo = rest, !.stage = stage]
<1>1. /\ a # None /\ a.op = "swap" /\ a.stage = "write" /\ UNCHANGED <<channels, sidebar, loads, trail>>
      /\ categories' = IF categories[m.id] = None THEN categories ELSE [categories EXCEPT ![m.id] = m.place]
      /\ acts' = [acts EXCEPT ![k].todo = rest, ![k].stage = stage]
  BY DEF SwapWrites, ActAt
<1>2. a \in Act /\ Exchanged(a) /\ a.todo \in Seq(Move)
  BY <1>1, SwapIs
<1>3. a.todo # <<>>
  BY <1>1, <1>2 DEF Exchanged
<1>4. m \in Move /\ m = a.todo[1] /\ 1 \in DOMAIN a.todo /\ rest \in Seq(Move)
  BY <1>2, <1>3, TodoIs
<1>5. m.id \in Cats /\ m.place \in Place /\ m.place # None
  <2>1. m.id \in a.about /\ m.place \in Place /\ a.about \subseteq Cats
    <3>1. m.id \in a.about /\ m.place \in Place /\ a.about = {a.ids[1], a.ids[2]}
      BY <1>2, <1>4 DEF Exchanged
    <3>2. a.ids[1] \in Cats /\ a.ids[2] \in Cats
      BY <1>1, SwapIs
    <3> QED
      BY <3>1, <3>2
  <2> QED
    BY <2>1, SidebarRecords
<1>6. acts' = [acts EXCEPT ![k] = b]
  BY <1>1 DEF SidebarTypeOK
<1>7. b.todo = rest /\ b.stage = stage /\ b.op = "swap" /\ b \in Act
  <2>1. stage \in {"read", "write"}
    BY <1>1
  <2> HIDE DEF stage, rest
  <2> QED
    BY <1>1, <1>2, <1>4, <2>1 DEF Act, rest
<1>8. stage # "list"
  BY <1>1
<1> HIDE DEF b, rest, stage
<1>9. acts'[k] = b /\ b # None
  BY <1>6, <1>7, SidebarRecords DEF SidebarTypeOK
<1>10. Existing(categories') \subseteq Existing(categories)
  BY <1>1, <1>5, ListsAre DEF Existing
<1>11. \A x \in Existing(categories') :
        PlaceIn(categories', x) = IF x = m.id /\ m.place # None THEN m.place ELSE PlaceIn(categories, x)
  <2> SUFFICES ASSUME NEW x \in Existing(categories')
               PROVE PlaceIn(categories', x) = IF x = m.id /\ m.place # None THEN m.place ELSE PlaceIn(categories, x)
    OBVIOUS
  <2>1. x \in Cats /\ categories[x] # None /\ x \notin Chans
    BY <1>10, PlacesAre, SidebarBounds
  <2>2. CASE x = m.id
    BY <1>1, <1>5, <2>1, <2>2, ListsAre DEF PlaceIn
  <2>3. CASE x # m.id
    BY <1>1, <2>1, <2>3, ListsAre DEF PlaceIn
  <2> QED
    BY <2>2, <2>3
<1>12. ASSUME Deals(a, categories) PROVE Deals(b, categories')
  <2>1. Apart(a.todo, categories)
    BY <1>12 DEF Deals
  <2>2. Apart(rest, categories')
    BY <1>2, <1>3, <1>10, <1>11, <2>1, WrittenApart DEF rest
  <2> QED
    BY <1>7, <1>8, <2>2 DEF Deals, Ordering
<1> QED
  BY <1>1, <1>9, <1>12, CategoriesPlaced, PlacingIs

LEMMA SwapEnds ==
  ASSUME SidebarTypeOK, AllShaped, PlacesInv, NEW k \in Acts, Stepping(k), SwapReadsAgain(k) \/ SwapTells(k)
  PROVE  PlacesInv'
<1> DEFINE a == acts[k]
<1>1. a # None /\ a.op = "swap" /\ a.stage \in {"read", "tell"} /\ UNCHANGED <<channels, categories>>
  BY DEF SwapReadsAgain, SwapTells, ActAt
<1>2. a \in Act /\ a.todo = <<>>
  <2>1. a \in Act /\ Exchanged(a)
    BY <1>1, SwapIs
  <2> QED
    BY <1>1, <2>1 DEF Exchanged
<1>3. CASE SwapReadsAgain(k)
  <2> DEFINE p == categories[a.ids[1]]
             b == [a EXCEPT !.stage = "tell", !.place = p]
  <2>1. acts' = [acts EXCEPT ![k] = b]
    BY <1>3 DEF SwapReadsAgain, SidebarTypeOK
  <2>2. b.todo = a.todo /\ b.stage = "tell" /\ b.op = "swap"
    BY <1>1, <1>2 DEF Act
  <2> HIDE DEF b
  <2>3. acts'[k] = b
    BY <2>1 DEF SidebarTypeOK
  <2>4. Deals(a, categories) => Apart(<<>>, categories) /\ Deals(b, categories)
    BY <1>2, <2>2 DEF Deals, Ordering
  <2> QED
    BY <1>1, <2>3, <2>4, CategoriesPlaced, PlacingIs
<1>4. CASE SwapTells(k)
  <2>1. acts'[k] = None
    BY <1>4 DEF SwapTells, ActOver, SidebarTypeOK
  <2>2. Deals(a, categories) => Apart(<<>>, categories)
    BY <1>2 DEF Deals
  <2> QED
    BY <1>1, <2>1, <2>2, CategoriesPlaced, PlacingIs
<1> QED
  BY <1>3, <1>4

LEMMA ThrownPlaces ==
  ASSUME SidebarTypeOK, AllShaped, PlacesInv, NEW k \in Acts, Stepping(k), ActThrows(k) PROVE PlacesInv'
<1>1. acts[k] # None /\ UNCHANGED <<channels, categories>>
  BY DEF ActThrows
<1>2. Placing(acts[k].op) \subseteq trail'.raced
  BY DEF ActThrows, SidebarTypeOK, Trail
<1>3. PlacesAt("channels", channels', acts', trail'.raced)
  BY <1>1, <1>2, PlacesMove, SameCalm DEF PlacesInv
<1>4. PlacesAt("categories", categories', acts', trail'.raced)
  BY <1>1, <1>2, PlacesMove, SameCalm DEF PlacesInv
<1> QED
  BY <1>3, <1>4 DEF PlacesInv

LEMMA StepPlaces ==
  ASSUME SidebarTypeOK, AllShaped, PlacesInv, NEW k \in Acts, ActStep(k) PROVE PlacesInv'
<1>1. Stepping(k)
  BY StepIs
<1> QED
  BY <1>1, InsertPlaces, PlainPlaces, ListPlaces, WritePlaces, TellPlaces, SwapReadsPlaces, SwapPlaces, SwapEnds,
     ThrownPlaces DEF ActStep

LEMMA BegunDeals ==
  ASSUME SidebarTypeOK, NEW a, Begun(a)
  PROVE  /\ "channels" \in Placing(a.op) /\ Apart(<<>>, channels) => Deals(a, channels)
         /\ "categories" \in Placing(a.op) /\ Apart(<<>>, categories) => Deals(a, categories)
<1>1. a \in Act /\ Shaped(a) /\ a.todo = <<>> /\ a.op \in Kinds
  BY DEF Begun, Act
<1>2. ASSUME "channels" \in Placing(a.op), Apart(<<>>, channels) PROVE Deals(a, channels)
  <2>1. a.op \in {"create", "reorder"}
    BY <1>2 DEF Placing
  <2>2. a.op = "create" => \A x \in Existing(channels) : PlaceIn(channels, x) < a.place
    BY PlacesAre DEF Begun
  <2>3. a.op = "reorder" => a.stage = "list"
    BY DEF Begun, Ordering
  <2> QED
    BY <1>1, <1>2, <2>1, <2>2, <2>3 DEF Deals, Ordering
<1>3. ASSUME "categories" \in Placing(a.op), Apart(<<>>, categories) PROVE Deals(a, categories)
  <2>1. a.op \in {"addcat", "sortcats", "swap"}
    BY <1>3 DEF Placing
  <2>2. a.op = "addcat" => \A x \in Existing(categories) : PlaceIn(categories, x) < a.place
    BY PlacesAre DEF Begun
  <2>3. a.op \in {"sortcats", "swap"} => a.stage = "list"
    BY DEF Begun, Ordering
  <2>4. ASSUME a.op = "swap" PROVE \A x \in Existing(categories) \ {a.ids[1]} : PlaceIn(categories, x) # a.place
    <3>1. a.place = categories[a.ids[1]] /\ a.place \in Place /\ a.ids \in Seq(Cats) /\ Len(a.ids) = 2
      BY <1>1, <2>3, <2>4 DEF Begun, Shaped, Exchanged
    <3>2. a.ids[1] \in Cats
      BY <3>1
    <3>3. a.ids[1] \in Existing(categories) /\ PlaceIn(categories, a.ids[1]) = a.place
      BY <3>1, <3>2, PlacesAre, SidebarRecords
    <3> QED
      BY <1>3, <3>1, <3>3, PlacesAre, NobodyAims
  <2> QED
    BY <1>1, <1>3, <2>1, <2>2, <2>3, <2>4 DEF Deals, Ordering
<1> QED
  BY <1>2, <1>3

LEMMA BeginPlaces ==
  ASSUME SidebarTypeOK, PlacesInv, NEW k \in Acts, acts[k] = None, Beginning(k) PROVE PlacesInv'
<1>1. PICK a, more : Begun(a) /\ Starts(k, a, more)
  BY DEF Beginning
<1>2. /\ UNCHANGED <<channels, categories>> /\ acts' = [acts EXCEPT ![k] = a]
      /\ trail'.raced = trail.raced \cup UNION {Placing(acts[j].op) \cap Placing(a.op) : j \in Busy}
  BY <1>1 DEF Beginning, Starts, SidebarTypeOK, Trail
<1>3. acts'[k] = a /\ a # None /\ \A j \in Acts \ {k} : acts'[j] = acts[j]
  BY <1>1, <1>2, SidebarRecords DEF SidebarTypeOK, Begun
<1>4. ASSUME NEW tab, NEW rws, PlacesAt(tab, rws, acts, trail.raced),
             tab \in Placing(a.op) /\ Apart(<<>>, rws) => Deals(a, rws)
      PROVE  PlacesAt(tab, rws, acts', trail'.raced)
  <2>1. CASE tab \in trail'.raced
    BY <2>1 DEF PlacesAt
  <2>2. CASE tab \notin trail'.raced /\ tab \notin Placing(a.op)
    <3>1. Givers(tab, acts') = Givers(tab, acts) /\ \A j \in Givers(tab, acts) : acts'[j] = acts[j]
      BY <1>3, <2>2 DEF Givers
    <3> QED
      BY <1>2, <1>4, <2>2, <3>1 DEF PlacesAt
  <2>3. CASE tab \notin trail'.raced /\ tab \in Placing(a.op)
    <3>1. Givers(tab, acts) = {}
      BY <1>2, <2>3 DEF Givers, Busy
    <3>2. Givers(tab, acts') = {k}
      BY <1>3, <2>3, <3>1 DEF Givers
    <3>3. Deals(a, rws)
      BY <1>2, <1>4, <2>3, <3>1 DEF PlacesAt
    <3> QED
      BY <1>3, <3>2, <3>3 DEF PlacesAt
  <2> QED
    BY <2>1, <2>2, <2>3
<1> QED
  BY <1>1, <1>2, <1>4, BegunDeals DEF PlacesInv

LEMMA PlacesKeep ==
  ASSUME SideInv, PlacesInv, [ServerNext]_serverVars PROVE PlacesInv'
<1>0. SidebarTypeOK /\ AllShaped
  BY DEF SideInv
<1>1. CASE UNCHANGED <<channels, categories, acts, trail.raced>>
  <2>1. trail'.raced = trail.raced /\ UNCHANGED <<channels, categories, acts>>
    BY <1>1
  <2> QED
    BY <2>1 DEF PlacesInv
<1>2. CASE UNCHANGED serverVars
  BY <1>1, <1>2 DEF serverVars
<1>3. ASSUME NEW k \in Acts, ActStarts(k) PROVE PlacesInv'
  BY <1>0, <1>3, ActBegins, BeginPlaces DEF ActStarts
<1>4. ASSUME NEW k \in Acts, ActStep(k) PROVE PlacesInv'
  BY <1>0, <1>4, StepPlaces
<1>5. ASSUME NEW l \in Loads, SidebarStep(l) \/ ShowLists(l) PROVE PlacesInv'
  <2>1. UNCHANGED <<channels, categories, acts>>
    BY <1>5 DEF SidebarStep, ShowLists, OpenServer, Refresh, ReadChannels, ReadCategories, LoadThrows, ListsReplaced
  <2>2. trail'.raced = trail.raced
    BY <1>0, <1>5 DEF SidebarStep, ShowLists, OpenServer, Refresh, ReadChannels, ReadCategories, LoadThrows,
                      ListsReplaced, Visited, SidebarTypeOK, Trail
  <2> QED
    BY <1>1, <2>1, <2>2
<1> QED
  BY <1>2, <1>3, <1>4, <1>5 DEF ServerNext

LEMMA PlacesStart == ServerInit => PlacesInv
<1> SUFFICES ASSUME ServerInit PROVE PlacesInv
  OBVIOUS
<1>1. PICK c \in Chans : channels = [Nowhere EXCEPT ![c] = [place |-> 0, cat |-> None, deleted |-> FALSE]]
  BY DEF ServerInit
<1>2. Existing(channels) \subseteq {c} /\ Existing(categories) = {}
  BY <1>1 DEF ServerInit, Nowhere, NoHeading, Existing
<1>3. Apart(<<>>, channels) /\ Apart(<<>>, categories)
  BY <1>2 DEF Apart
<1>4. \A tab : Givers(tab, acts) = {}
  BY DEF ServerInit, Givers
<1> QED
  BY <1>3, <1>4 DEF PlacesInv, PlacesAt

LEMMA PlacesSay == ASSUME SideInv, PlacesInv PROVE PlacesApart
<1>0. SidebarTypeOK
  BY DEF SideInv
<1>1. ASSUME NEW tab, tab \notin Dealing PROVE tab \notin trail.raced /\ Givers(tab, acts) = {}
  <2>1. tab \notin trail.raced /\ tab \notin UNION {Placing(acts[k].op) : k \in Busy}
    BY <1>1 DEF Dealing
  <2>2. \A k \in Acts : acts[k] # None => k \in Busy
    BY DEF Busy
  <2>3. ASSUME NEW k \in Acts, acts[k] # None, tab \in Placing(acts[k].op) PROVE FALSE
    BY <2>1, <2>2, <2>3
  <2> QED
    BY <2>1, <2>3 DEF Givers
<1>2. "channels" \notin Dealing => Apart(<<>>, channels)
  BY <1>1 DEF PlacesInv, PlacesAt
<1>3. "categories" \notin Dealing => Apart(<<>>, categories)
  BY <1>1 DEF PlacesInv, PlacesAt
<1>4. Apart(<<>>, channels) => \A c, d \in Existing(channels) : c # d => channels[c].place # channels[d].place
  BY <1>0, PlacesAre, NobodyAims
<1>5. Apart(<<>>, categories) => \A g, h \in Existing(categories) : g # h => categories[g] # categories[h]
  BY <1>0, PlacesAre, NobodyAims
<1> QED
  BY <1>2, <1>3, <1>4, <1>5 DEF PlacesApart

(* However requests for positions and other requests, drags and refusals   *)
(* interleave: two channels, or two categories, share a position only      *)
(* where positions were given out by two requests at once, or by one that  *)
(* failed.                                                                 *)
THEOREM PositionsApart == PageSpec => []PlacesApart
<1> DEFINE Inv == SoundInv /\ PlacesInv
<1>1. PageInit => Inv
  BY SoundStarts, PlacesStart DEF PageInit
<1>2. Inv /\ [PageNext]_pageVars => Inv'
  <2> SUFFICES ASSUME SoundInv, PlacesInv, [PageNext]_pageVars PROVE SoundInv' /\ PlacesInv'
    OBVIOUS
  <2>1. [ServerNext]_serverVars
    BY DEF PageNext, pageVars
  <2> QED
    BY <2>1, SoundSteps, PlacesKeep DEF SoundInv
<1>3. Inv => PlacesApart
  BY PlacesSay DEF SoundInv
<1> HIDE DEF Inv
<1> QED
  BY <1>1, <1>2, <1>3, PTL DEF PageSpec

-----------------------------------------------------------------------------
(* What the app shows.  Of a thing nobody is at work on it shows what the  *)
(* server has; else what the request at work has left to tell.             *)
RowOf(chs, cts, x) ==
  IF x \in Chans THEN IF chs[x] # None /\ ~chs[x].deleted THEN chs[x] ELSE None ELSE cts[x]
Truth(x) == RowOf(channels, categories, x)
Touched(a, x) ==
  \/ a.op = "update" /\ a.stage = "read" /\ x = a.x
  \/ a.op \in Ordering /\ Named(a.todo, x)
  \/ a.op = "swap" /\ a.stage # "list"
Dragged(a, x) == a.op \in Ordering /\ a.stage = "list" /\ a.mine /\ x \in ToSet(a.ids)
(* The category that is shown is there, or the request is about it and it  *)
(* was there.                                                              *)
Homed(a, cts, torn, x, v) ==
  x \in Chans /\ v # None =>
    v.cat = None \/ v.cat \in torn \/ x \in torn \/ (v.cat \in a.about \cap Cats /\ cts[v.cat] # None)
Target(a, chs, cts, x) ==
  IF x \in Chans THEN [chs[x] EXCEPT !.place = Dealt(chs, a.ids)[IndexIn(a.ids, x)], !.cat = a.cat]
  ELSE Dealt(cts, a.ids)[IndexIn(a.ids, x)]
Fits(a, chs, cts, torn, x, v) ==
  \/ v = RowOf(chs, cts, x)
  \/ Touched(a, x) /\ (v = None <=> RowOf(chs, cts, x) = None) /\ Homed(a, cts, torn, x, v)
  \/ a.op = "restore" /\ a.stage = "read" /\ x = a.x /\ v = None
  \/ Dragged(a, x) /\ RowOf(chs, cts, x) # None /\ v = Target(a, chs, cts, x)
Right(x, v) ==
  /\ \A k \in Busy : x \in acts[k].about => Fits(acts[k], channels, categories, trail.torn, x, v)
  /\ (\A k \in Busy : x \notin acts[k].about) => v = Truth(x)
ShownOf(x) == IF x \in Chans THEN sidebar.shown[x] ELSE sidebar.headings[x]
AllRight == \A x \in Things \ trail.suspect : Right(x, ShownOf(x))

(* Pages under way.                                                        *)
Has(l, x) == loads[l] # None /\ (IF x \in Chans THEN loads[l].chans ELSE loads[l].cats) # None
PageAt(l, x) == IF x \in Chans THEN loads[l].chans[x] ELSE loads[l].cats[x]
(* The request has written x and not told of it yet.                       *)
Owes(a, x) ==
  \/ a.op \in {"update", "restore"} /\ a.stage = "read" /\ x = a.x
  \/ a.op \in Ordering /\ a.stage = "read" /\ x = Head(a.todo).id
  \/ a.op = "swap" /\ a.stage # "list" /\ x \in ToSet(a.ids)
Current(x, v) == v = Truth(x) \/ \E k \in Busy : Owes(acts[k], x)
PagesRight ==
  \A l \in Loads, x \in Things : Has(l, x) /\ x \notin loads[l].stale =>
    Current(x, PageAt(l, x)) /\ (x \notin trail.suspect => Right(x, PageAt(l, x)))

Clashes ==
  \A j, k \in Busy : j # k /\ acts[j].about \cap acts[k].about # {} =>
    acts[j].about \cup acts[k].about \subseteq trail.suspect \cap trail.torn

(* What a request relies on.                                               *)
Vacant(a) == a.op \in {"create", "addcat"} => a.x \in trail.suspect \/ (IF a.x \in Chans THEN channels[a.x] ELSE categories[a.x]) = None
Buried(a) == a.op = "harddelete" => a.x \in trail.suspect \/ Truth(a.x) = None
Raised(a) == a.op = "restore" /\ a.stage = "read" => a.x \in trail.suspect \/ channels[a.x] = None \/ ~channels[a.x].deleted
Reread(a) == a.op = "swap" /\ a.stage = "tell" => a.ids[1] \in trail.suspect \/ a.place = categories[a.ids[1]]
Copied(a) == a.op = "dropcat" => \A i \in DOMAIN a.todo : a.todo[i].id \in trail.suspect \/ a.todo[i].row = channels[a.todo[i].id]
Leaves(a) == a.op \in {"update", "reorder"} =>
  \A c \in a.about \cap Chans : c \in trail.suspect \/ channels[c] = None \/ channels[c].cat \in a.about \cup {None}
Arrives(a) == a.op \in {"create", "update", "reorder"} /\ a.cat # None =>
  /\ a.cat \in a.about
  /\ categories[a.cat] # None \/ a.cat \in trail.torn \/ a.about \cap Chans \subseteq trail.torn
Empties(a) == a.op = "dropcat" /\ a.stage = "drop" =>
  \A c \in Existing(channels) : channels[c].cat = a.x => c \in trail.torn \/ a.x \in trail.torn \/ Named(a.todo, c)
Knows(a) == Vacant(a) /\ Buried(a) /\ Raised(a) /\ Reread(a) /\ Copied(a) /\ Leaves(a) /\ Arrives(a) /\ Empties(a)
AllKnow == \A k \in Busy : Knows(acts[k])
HomesStand ==
  \A c \in Existing(channels) : LET g == channels[c].cat
    IN g = None \/ categories[g] # None \/ c \in trail.torn \/ g \in trail.torn
Sided == Clashes /\ AllKnow /\ HomesStand /\ PagesRight

-----------------------------------------------------------------------------
(* A request moves on, and with it what it has left to tell.               *)
Carried(k, x, w) ==
  IF acts'[k] = None THEN w = RowOf(channels', categories', x)
  ELSE Fits(acts'[k], channels', categories', trail'.torn, x, w)
(* A drag of ours that the server refuses.                                 *)
Spurned(k) ==
  /\ acts[k].op \in Ordering /\ acts[k].stage = "list" /\ acts[k].mine /\ ~Known(acts[k].ids)
  /\ acts'[k] = None /\ (sidebar.open => sidebar'.due)
Tells(T) ==
  /\ \A l \in Loads : loads[l] # None /\ (loads[l].chans # None \/ loads[l].cats # None) => T \subseteq loads'[l].stale
  /\ \A x \in Things \ T : ShownOf(x)' = ShownOf(x)
Carries(k, T) ==
  \A x \in acts[k].about \ trail'.suspect :
    /\ x \notin T => \A v : /\ Fits(acts[k], channels, categories, trail.torn, x, v)
                            /\ v = Truth(x) \/ Owes(acts[k], x) \/ ~Spurned(k)
                            => Carried(k, x, v)
    /\ \A v, w : /\ x \in T /\ sidebar.open /\ v = ShownOf(x) /\ w = ShownOf(x)'
                 /\ Fits(acts[k], channels, categories, trail.torn, x, v)
                 => Carried(k, x, w)
Owing(k, T) ==
  \A x \in Things \ T :
    \/ acts'[k] # None /\ Owes(acts'[k], x)
    \/ ~Owes(acts[k], x) /\ Truth(x)' = Truth(x)
Faring(k) == \E T \in SUBSET acts[k].about : Tells(T) /\ Carries(k, T) /\ Owing(k, T)
HomesFrom(k) ==
  \A c \in Existing(channels') : LET g == channels'[c].cat IN
    \/ g = None \/ (channels[c] # None /\ channels[c].cat = g) \/ g \in acts[k].about
HomesOn(k) ==
  \A c \in Existing(channels') : LET g == channels'[c].cat IN
    g = None \/ categories'[g] # None \/ c \in trail'.torn \/ g \in trail'.torn
ClashesOn(k) ==
  acts'[k] # None => \A j \in Busy : j # k /\ acts[j].about \cap acts'[k].about # {} =>
    acts[j].about \cup acts'[k].about \subseteq trail'.suspect \cap trail'.torn

KnowsOn(k) == \A a : a = acts'[k] /\ a # None => Knows(a)'

LEMMA TruthCalm ==
  ASSUME SidebarTypeOK, NEW S, Writes(S), NEW x \in Things, x \notin S PROVE Truth(x)' = Truth(x)
BY DEF Writes, Truth, RowOf, Things

(* A request is not disturbed where nothing it is about changes.           *)
LEMMA FitsCalm ==
  ASSUME SidebarTypeOK, NEW a \in Act, Shaped(a), NEW S, Writes(S), S \cap a.about = {}, NEW x \in a.about, NEW v,
         TrailGrows(trail, trail'), Fits(a, channels, categories, trail.torn, x, v)
  PROVE  Fits(a, channels', categories', trail'.torn, x, v)
<1>1. a.about \subseteq Things /\ x \in Things
  BY DEF Act
<1>2. \A y \in a.about : (y \in Chans => channels'[y] = channels[y]) /\ (y \in Cats => categories'[y] = categories[y])
  BY <1>1 DEF Writes, Things
<1>3. RowOf(channels', categories', x) = RowOf(channels, categories, x)
  BY <1>1, <1>2 DEF RowOf, Things
<1>4. ASSUME Homed(a, categories, trail.torn, x, v)
      PROVE Homed(a, categories', trail'.torn, x, v)
  BY <1>2, <1>4 DEF Homed, TrailGrows
<1>5. ASSUME Dragged(a, x), RowOf(channels, categories, x) # None
      PROVE Target(a, channels', categories', x) = Target(a, channels, categories, x)
  <2>1. ToSet(a.ids) \subseteq a.about /\ (a.op = "reorder" => a.ids \in Seq(Chans)) /\ (a.op = "sortcats" => a.ids \in Seq(Cats))
    BY <1>5 DEF Shaped, Drawn, Dragged, Ordering
  <2>2. CASE a.op = "reorder"
    <3>1. \A i \in DOMAIN a.ids : a.ids[i] \in Chans /\ a.ids[i] \in a.about
      BY <2>1, <2>2 DEF ToSet
    <3>2. Dealt(channels', a.ids) = Dealt(channels, a.ids)
      BY <1>2, <3>1, DealtAlike DEF PlaceIn
    <3>3. x \in Chans
      BY <1>5, <2>1, <2>2 DEF Dragged, ToSet
    <3> QED
      BY <1>2, <3>2, <3>3 DEF Target
  <2>3. CASE a.op = "sortcats"
    <3>1. \A i \in DOMAIN a.ids : a.ids[i] \in Cats /\ a.ids[i] \in a.about /\ a.ids[i] \notin Chans
      BY <2>1, <2>3, SidebarBounds DEF ToSet
    <3>2. Dealt(categories', a.ids) = Dealt(categories, a.ids)
      BY <1>2, <3>1, DealtAlike DEF PlaceIn
    <3>3. x \in Cats /\ x \notin Chans
      BY <1>5, <2>1, <2>3, SidebarBounds DEF Dragged, ToSet
    <3> QED
      BY <1>2, <3>2, <3>3 DEF Target
  <2> QED
    BY <1>5, <2>2, <2>3 DEF Dragged, Ordering
<1> QED
  BY <1>3, <1>4, <1>5 DEF Fits

(* Of a thing in no doubt one request at most is at work on it.            *)
LEMMA Alone ==
  ASSUME Clashes, NEW x, x \notin trail.suspect, NEW j \in Busy, NEW k \in Busy, x \in acts[j].about, x \in acts[k].about
  PROVE  j = k
BY DEF Clashes

LEMMA OthersStay ==
  ASSUME SidebarTypeOK, NEW k \in Acts, Onward(k)
  PROVE  /\ \A j \in Acts \ {k} : acts'[j] = acts[j]
         /\ \A j \in Acts \ {k} : j \in Busy' <=> j \in Busy
         /\ k \in Busy' <=> acts'[k] # None
BY DEF Onward, Busy, SidebarTypeOK

LEMMA OnwardIs ==
  ASSUME SidebarTypeOK, NEW k \in Acts, Onward(k), acts'[k] # None
  PROVE  /\ acts'[k] \in Act /\ Shaped(acts'[k]) /\ acts[k].about \subseteq acts'[k].about
         /\ acts'[k].op = acts[k].op /\ acts'[k].x = acts[k].x /\ acts'[k].cat = acts[k].cat
         /\ acts'[k].ids = acts[k].ids /\ acts'[k].mine = acts[k].mine
BY DEF Onward, SidebarTypeOK

LEMMA ClashesKeep ==
  ASSUME SideInv, Clashes, NEW k \in Acts, acts[k] # None, Onward(k), TrailGrows(trail, trail'), ClashesOn(k) PROVE Clashes'
<1>0. SidebarTypeOK
  BY DEF SideInv
<1> SUFFICES ASSUME NEW i \in Busy', NEW j \in Busy', i # j, acts'[i].about \cap acts'[j].about # {}
             PROVE  acts'[i].about \cup acts'[j].about \subseteq trail'.suspect \cap trail'.torn
  BY DEF Clashes
<1>1. i \in Acts /\ j \in Acts
  BY DEF Busy
<1>2. trail.suspect \subseteq trail'.suspect /\ trail.torn \subseteq trail'.torn
  BY DEF TrailGrows
<1>3. CASE i # k /\ j # k
  BY <1>0, <1>1, <1>2, <1>3, OthersStay DEF Clashes
<1>4. CASE i = k
  BY <1>0, <1>1, <1>4, OthersStay DEF ClashesOn
<1>5. CASE j = k
  <2>1. acts[i].about \cap acts'[k].about # {}
    BY <1>0, <1>1, <1>5, OthersStay
  <2> QED
    BY <1>0, <1>1, <1>5, <2>1, OthersStay DEF ClashesOn
<1> QED
  BY <1>3, <1>4, <1>5

(* What is right stays so, and turns with the request at work on it.       *)
LEMMA RightSteps ==
  ASSUME SideInv, Clashes, Clashes', NEW k \in Acts, acts[k] # None, Stepping(k),
         NEW x \in Things, x \notin trail'.suspect, NEW v, NEW w, Right(x, v),
         IF x \in acts[k].about THEN Carried(k, x, w) ELSE w = v
  PROVE  Right(x, w)'
<1>0. SidebarTypeOK /\ AllShaped /\ k \in Busy /\ x \notin trail.suspect
  BY DEF SideInv, Busy, Stepping, TrailGrows
<1>1. Onward(k) /\ Writes(acts[k].about) /\ TrailGrows(trail, trail')
  BY DEF Stepping
<1>2. x \notin acts[k].about => Truth(x)' = Truth(x)
  BY <1>0, <1>1, TruthCalm
<1>3. ASSUME NEW i \in Busy', x \in acts'[i].about
      PROVE Fits(acts'[i], channels', categories', trail'.torn, x, w)
  <2>1. i \in Acts
    BY DEF Busy
  <2>2. CASE i # k
    <3>1. acts'[i] = acts[i] /\ i \in Busy /\ acts[i] # None
      BY <1>0, <1>1, <2>1, <2>2, OthersStay DEF Busy
    <3>2. x \notin acts[k].about
      BY <1>0, <1>3, <2>2, <3>1, Alone
    <3>3. w = v /\ Fits(acts[i], channels, categories, trail.torn, x, v)
      BY <1>3, <3>1, <3>2 DEF Right
    <3>4. acts[k].about \cap acts[i].about = {}
      BY <1>0, <1>3, <2>2, <3>1 DEF Clashes
    <3>5. acts[i] \in Act /\ Shaped(acts[i]) /\ x \in acts[i].about
      BY <1>0, <1>3, <2>1, <3>1, ActIs
    <3> QED
      BY <1>0, <1>1, <3>1, <3>3, <3>4, <3>5, FitsCalm
  <2>3. CASE i = k
    <3>1. acts'[k] # None
      BY <2>3 DEF Busy
    <3>2. CASE x \in acts[k].about
      BY <2>3, <3>1, <3>2 DEF Carried
    <3>3. CASE x \notin acts[k].about
      <4>1. ASSUME NEW j \in Busy, x \in acts[j].about PROVE FALSE
        <5>1. j # k /\ j \in Acts
          BY <3>3, <4>1 DEF Busy
        <5>2. acts'[j] = acts[j] /\ j \in Busy'
          BY <1>0, <1>1, <5>1, OthersStay
        <5> QED
          BY <1>3, <2>3, <4>1, <5>1, <5>2 DEF Clashes
      <4>2. w = v /\ v = Truth(x)
        BY <3>3, <4>1 DEF Right
      <4> QED
        BY <1>2, <3>3, <4>2 DEF Fits, Truth
    <3> QED
      BY <3>2, <3>3
  <2> QED
    BY <2>2, <2>3
<1>4. ASSUME \A i \in Busy' : x \notin acts'[i].about PROVE w = Truth(x)'
  <2>1. CASE x \in acts[k].about
    <3>1. acts'[k] = None
      BY <1>0, <1>1, <1>4, <2>1, OnwardIs, OthersStay
    <3> QED
      BY <2>1, <3>1 DEF Carried, Truth
  <2>2. CASE x \notin acts[k].about
    <3>1. \A j \in Busy : x \notin acts[j].about
      BY <1>0, <1>1, <1>4, <2>2, OthersStay DEF Busy
    <3> QED
      BY <1>2, <2>2, <3>1 DEF Right
  <2> QED
    BY <2>1, <2>2
<1> QED
  BY <1>3, <1>4 DEF Right

LEMMA OwesAbout == ASSUME NEW a \in Act, Shaped(a), NEW x, Owes(a, x) PROVE x \in a.about
<1>1. CASE a.op \in {"update", "restore"}
  BY <1>1 DEF Owes, Shaped, Ordering
<1>2. CASE a.op \in Ordering
  <2>1. a.stage = "read" /\ x = Head(a.todo).id /\ a.todo \in Seq(Move)
    BY <1>2 DEF Owes, Act, Ordering
  <2>2. a.todo # <<>> /\ ToSet(a.ids) \subseteq a.about /\ \A i \in DOMAIN a.todo : a.todo[i].id \in ToSet(a.ids)
    BY <1>2, <2>1 DEF Shaped, Drawn, Ordering
  <2>3. 1 \in DOMAIN a.todo /\ Head(a.todo) = a.todo[1]
    BY <2>1, <2>2
  <2> QED
    BY <2>1, <2>2, <2>3
<1>3. CASE a.op = "swap"
  <2>1. x \in ToSet(a.ids)
    BY <1>3 DEF Owes, Ordering
  <2>2. a.ids \in Seq(Cats) /\ Len(a.ids) = 2 /\ a.about = {a.ids[1], a.ids[2]}
    BY <1>3 DEF Shaped, Exchanged
  <2> QED
    BY <2>1, <2>2 DEF ToSet
<1> QED
  BY <1>1, <1>2, <1>3 DEF Owes

LEMMA PagesKeep ==
  ASSUME SideInv, Clashes, PagesRight, Clashes', NEW k \in Acts, acts[k] # None, Stepping(k), Faring(k) PROVE PagesRight'
<1>0. SidebarTypeOK /\ AllShaped /\ k \in Busy /\ trail.suspect \subseteq trail'.suspect
  BY DEF SideInv, Busy, Stepping, TrailGrows
<1>1. PICK T \in SUBSET acts[k].about : Tells(T) /\ Carries(k, T) /\ Owing(k, T)
  BY DEF Faring
<1> SUFFICES ASSUME NEW l \in Loads, NEW x \in Things, Has(l, x)', x \notin loads'[l].stale
             PROVE  Current(x, PageAt(l, x))' /\ (x \notin trail'.suspect => Right(x, PageAt(l, x))')
  BY DEF PagesRight
<1>2. /\ loads[l] # None /\ loads'[l].chans = loads[l].chans /\ loads'[l].cats = loads[l].cats
      /\ loads[l].stale \subseteq loads'[l].stale
  BY DEF Stepping, LoadsKept, Has
<1>3. PICK v : v = PageAt(l, x) /\ v = PageAt(l, x)'
  BY <1>2 DEF PageAt
<1>4. Has(l, x) /\ x \notin loads[l].stale /\ x \notin T
  BY <1>1, <1>2 DEF Has, Tells
<1>5. Current(x, v) /\ (x \notin trail.suspect => Right(x, v))
  BY <1>3, <1>4 DEF PagesRight
<1>6. Current(x, v)'
  <2>1. CASE acts'[k] # None /\ Owes(acts'[k], x)
    BY <2>1 DEF Current, Busy
  <2>2. CASE ~Owes(acts[k], x) /\ Truth(x)' = Truth(x)
    <3>1. CASE v = Truth(x)
      BY <2>2, <3>1 DEF Current
    <3>2. ASSUME NEW j \in Busy, Owes(acts[j], x) PROVE Current(x, v)'
      <4>1. j # k /\ j \in Acts
        BY <2>2, <3>2 DEF Busy
      <4>2. acts'[j] = acts[j] /\ j \in Busy'
        BY <1>0, <4>1, OthersStay DEF Stepping
      <4> QED
        BY <3>2, <4>2 DEF Current
    <3> QED
      BY <1>5, <3>1, <3>2 DEF Current
  <2> QED
    BY <1>1, <1>4, <2>1, <2>2 DEF Owing
<1>7. ASSUME x \notin trail'.suspect PROVE Right(x, v)'
  <2>1. Right(x, v) /\ x \notin trail.suspect
    BY <1>0, <1>5, <1>7
  <2>2. ASSUME x \in acts[k].about PROVE Carried(k, x, v)
    <3>1. Fits(acts[k], channels, categories, trail.torn, x, v)
      BY <1>0, <2>1, <2>2 DEF Right
    <3>2. v = Truth(x) \/ Owes(acts[k], x)
      <4>1. ASSUME NEW j \in Busy, Owes(acts[j], x) PROVE j = k
        <5>1. j \in Acts /\ acts[j] \in Act /\ Shaped(acts[j])
          BY <1>0, ActIs DEF Busy
        <5>2. x \in acts[j].about
          BY <4>1, <5>1, OwesAbout
        <5> QED
          BY <1>0, <2>1, <2>2, <5>2, Alone
      <4> QED
        BY <1>5, <4>1 DEF Current
    <3> QED
      BY <1>1, <1>4, <1>7, <2>2, <3>1, <3>2 DEF Carries
  <2>3. IF x \in acts[k].about THEN Carried(k, x, v) ELSE v = v
    BY <2>2
  <2> QED
    BY <1>7, <2>1, <2>3, RightSteps
<1> QED
  BY <1>3, <1>6, <1>7

LEMMA ShownKeeps ==
  ASSUME SideInv, Clashes, Clashes', NEW k \in Acts, acts[k] # None, Stepping(k), Faring(k), ~Spurned(k),
         sidebar.open, AllRight
  PROVE  AllRight'
<1>0. k \in Busy /\ trail.suspect \subseteq trail'.suspect
  BY DEF SideInv, Busy, Stepping, TrailGrows
<1>1. PICK T \in SUBSET acts[k].about : Tells(T) /\ Carries(k, T) /\ Owing(k, T)
  BY DEF Faring
<1> SUFFICES ASSUME NEW x \in Things, x \notin trail'.suspect PROVE Right(x, ShownOf(x))'
  BY DEF AllRight
<1>2. PICK v, w : v = ShownOf(x) /\ w = ShownOf(x)'
  OBVIOUS
<1>3. Right(x, v)
  BY <1>0, <1>2 DEF AllRight
<1>4. ASSUME x \in acts[k].about PROVE Carried(k, x, w)
  <2>1. Fits(acts[k], channels, categories, trail.torn, x, v)
    BY <1>0, <1>3, <1>4 DEF Right
  <2>2. CASE x \in T
    BY <1>1, <1>2, <1>4, <2>1, <2>2 DEF Carries
  <2>3. CASE x \notin T
    <3>1. w = v
      BY <1>1, <1>2, <2>3 DEF Tells
    <3> QED
      BY <1>1, <1>4, <2>1, <2>3, <3>1 DEF Carries
  <2> QED
    BY <2>2, <2>3
<1>5. x \notin acts[k].about => w = v
  BY <1>1, <1>2 DEF Tells
<1>6. Right(x, w)'
  BY <1>3, <1>4, <1>5, RightSteps
<1> QED
  BY <1>2, <1>6

(* What one request relies on is not touched by another.                   *)
LEMMA KnowsCalm ==
  ASSUME SidebarTypeOK, NEW a \in Act, Shaped(a), NEW S \in SUBSET Things, Writes(S), TrailGrows(trail, trail'),
         S \cap a.about = {} \/ a.about \subseteq trail'.suspect \cap trail'.torn,
         \A c \in Existing(channels') : LET g == channels'[c].cat IN
           g = None \/ (channels[c] # None /\ channels[c].cat = g) \/ g \in S,
         Knows(a)
  PROVE  Knows(a)'
<1>1. a.about \subseteq Things /\ trail.suspect \subseteq trail'.suspect /\ trail.torn \subseteq trail'.torn
  BY DEF Act, TrailGrows
<1>2. a.op \in {"create", "addcat", "update", "delete", "restore", "harddelete", "dropcat"} => a.x \in a.about
  BY DEF Shaped
<1>3. a.op \in {"create", "restore", "harddelete"} => a.x \in Chans
  BY DEF Shaped
<1>4. a.op \in {"addcat", "dropcat"} => a.x \in Cats /\ a.x \notin Chans
  BY SidebarBounds DEF Shaped
<1>5. a.op = "swap" => a.ids[1] \in a.about \cap Cats
  BY DEF Shaped, Exchanged
<1>6. a.op = "dropcat" => \A i \in DOMAIN a.todo : a.todo[i].id \in a.about \cap Chans
  BY DEF Shaped, Freeing
<1>7. CASE a.about \subseteq trail'.suspect \cap trail'.torn
  <2>1. Vacant(a)' /\ Buried(a)' /\ Raised(a)'
    BY <1>2, <1>7 DEF Vacant, Buried, Raised
  <2>2. Reread(a)' /\ Copied(a)' /\ Leaves(a)'
    BY <1>5, <1>6, <1>7 DEF Reread, Copied, Leaves
  <2>3. Arrives(a)' /\ Empties(a)'
    BY <1>2, <1>7 DEF Arrives, Empties, Knows
  <2> QED
    BY <2>1, <2>2, <2>3 DEF Knows
<1>8. CASE S \cap a.about = {}
  <2>0. \A y \in a.about : (y \in Chans => channels'[y] = channels[y]) /\ (y \in Cats => categories'[y] = categories[y])
    BY <1>1, <1>8 DEF Writes
  <2>1. Vacant(a)'
    BY <1>1, <1>2, <1>3, <1>4, <2>0 DEF Vacant, Knows
  <2>2. Buried(a)'
    BY <1>1, <1>2, <1>3, <2>0 DEF Buried, Knows, Truth, RowOf
  <2>3. Raised(a)' /\ Reread(a)'
    BY <1>1, <1>2, <1>3, <1>5, <2>0 DEF Raised, Reread, Knows
  <2>4. Copied(a)'
    BY <1>1, <1>6, <2>0 DEF Copied, Knows
  <2>5. Leaves(a)'
    BY <1>1, <2>0 DEF Leaves, Knows
  <2>6. Arrives(a)'
    <3>1. SUFFICES ASSUME a.op \in {"create", "update", "reorder"}, a.cat # None
                   PROVE  a.cat \in a.about /\ (categories'[a.cat] # None \/ a.cat \in trail'.torn \/ a.about \cap Chans \subseteq trail'.torn)
      BY DEF Arrives
    <3>2. a.cat \in Cats
      BY <3>1 DEF Act
    <3> QED
      BY <1>1, <2>0, <3>1, <3>2 DEF Arrives, Knows
  <2>7. Empties(a)'
    <3>1. SUFFICES ASSUME a.op = "dropcat", a.stage = "drop", NEW c \in Existing(channels'), channels'[c].cat = a.x
                   PROVE  c \in trail'.torn \/ a.x \in trail'.torn \/ Named(a.todo, c)
      BY DEF Empties
    <3>2. a.x # None /\ a.x \notin S /\ a.x \in a.about
      BY <1>2, <1>4, <1>8, <3>1, SidebarBounds
    <3>3. channels[c] # None /\ channels[c].cat = a.x
      BY <3>1, <3>2
    <3>4. c \in Existing(channels)
      BY <3>1, <3>3 DEF Existing, Writes, SidebarTypeOK, Listed
    <3> QED
      BY <1>1, <3>1, <3>3, <3>4 DEF Empties, Knows
  <2> QED
    BY <2>1, <2>2, <2>3, <2>4, <2>5, <2>6, <2>7 DEF Knows
<1> QED
  BY <1>7, <1>8

LEMMA AllKnowKeep ==
  ASSUME SideInv, Clashes, AllKnow, NEW k \in Acts, acts[k] # None, Stepping(k), HomesFrom(k),
         KnowsOn(k)
  PROVE  AllKnow'
<1>0. SidebarTypeOK /\ AllShaped /\ k \in Busy /\ acts[k].about \subseteq Things
  BY ActIs DEF SideInv, Busy
<1>1. Onward(k) /\ Writes(acts[k].about) /\ TrailGrows(trail, trail')
  BY DEF Stepping
<1> SUFFICES ASSUME NEW j \in Busy' PROVE Knows(acts[j])'
  BY DEF AllKnow
<1>2. j \in Acts
  BY DEF Busy
<1>3. CASE j = k
  <2>1. PICK a : a = acts'[j] /\ a # None
    BY DEF Busy
  <2>2. Knows(a)'
    BY <1>3, <2>1 DEF KnowsOn
  <2> QED
    BY <2>1, <2>2 DEF Knows, Vacant, Buried, Raised, Reread, Copied, Leaves, Arrives, Empties
<1>4. CASE j # k
  <2>1. acts'[j] = acts[j] /\ j \in Busy /\ acts[j] # None
    BY <1>0, <1>1, <1>2, <1>4, OthersStay DEF Busy
  <2>2. PICK a : a = acts[j] /\ a = acts'[j]
    BY <2>1
  <2>3. a \in Act /\ Shaped(a) /\ Knows(a)
    BY <1>0, <1>2, <2>1, <2>2, ActIs DEF AllKnow
  <2>4. acts[k].about \cap a.about = {} \/ a.about \subseteq trail'.suspect \cap trail'.torn
    BY <1>0, <1>1, <1>4, <2>1, <2>2 DEF Clashes, TrailGrows
  <2>5. \A c \in Existing(channels') : LET g == channels'[c].cat IN
           g = None \/ (channels[c] # None /\ channels[c].cat = g) \/ g \in acts[k].about
    BY DEF HomesFrom
  <2>6. Knows(a)'
    BY <1>0, <1>1, <2>3, <2>4, <2>5, KnowsCalm
  <2> QED
    BY <2>2, <2>6 DEF Knows, Vacant, Buried, Raised, Reread, Copied, Leaves, Arrives, Empties
<1> QED
  BY <1>3, <1>4

Fared(k) == Faring(k) /\ HomesFrom(k) /\ HomesOn(k) /\ ClashesOn(k) /\ KnowsOn(k)

LEMMA FaredKeeps ==
  ASSUME SideInv, Sided, NEW k \in Acts, acts[k] # None, Stepping(k), Fared(k)
  PROVE  Sided' /\ (sidebar.open /\ AllRight /\ ~Spurned(k) => AllRight')
<1>1. Clashes'
  BY ClashesKeep DEF Sided, Fared, Stepping
<1>2. AllKnow'
  BY AllKnowKeep DEF Sided, Fared
<1>3. HomesStand'
  BY DEF Fared, HomesOn, HomesStand
<1>4. PagesRight'
  BY <1>1, PagesKeep DEF Sided, Fared
<1>5. sidebar.open /\ AllRight /\ ~Spurned(k) => AllRight'
  BY <1>1, ShownKeeps DEF Sided, Fared
<1> QED
  BY <1>1, <1>2, <1>3, <1>4, <1>5 DEF Sided

-----------------------------------------------------------------------------
(* Each step of a request tells what it changes, or owes it.               *)
LEMMA GoneFares == ASSUME NEW k \in Acts, acts'[k] = None PROVE ClashesOn(k) /\ KnowsOn(k)
BY DEF ClashesOn, KnowsOn

LEMMA QuietTells == ASSUME UNCHANGED <<sidebar, loads>> PROVE Tells({})
BY DEF Tells, ShownOf

LEMMA EmitTells ==
  ASSUME SidebarTypeOK, NEW T \in SUBSET Things, NEW after \in Sidebar,
         \A c \in Chans \ T : after.shown[c] = sidebar.shown[c],
         \A g \in Cats \ T : after.headings[g] = sidebar.headings[g],
         NEW t \in Trail, t.suspect = trail.suspect, EmitServer(after, T, t)
  PROVE  /\ Tells(T)
         /\ \A x \in T : x \in trail'.suspect \/ ~sidebar.open \/ sidebar' = after
<1>1. ASSUME NEW l \in Loads, loads[l] # None /\ (loads[l].chans # None \/ loads[l].cats # None)
      PROVE T \subseteq loads'[l].stale
  BY <1>1, OutdatedTypes DEF EmitServer
<1>2. sidebar' = sidebar \/ sidebar' = after
  BY DEF EmitServer
<1>3. ASSUME NEW x \in Things \ T PROVE ShownOf(x)' = ShownOf(x)
  BY <1>2, <1>3 DEF ShownOf, Things
<1>4. ASSUME NEW x \in T PROVE x \in trail'.suspect \/ ~sidebar.open \/ sidebar' = after
  <2>1. CASE ServerHeard
    BY <2>1 DEF EmitServer
  <2>2. CASE ~ServerHeard
    <3>1. trail' = [t EXCEPT !.suspect = t.suspect \cup T]
      BY <2>2 DEF EmitServer
    <3> QED
      BY <1>4, <3>1 DEF Trail
  <2> QED
    BY <2>1, <2>2
<1> QED
  BY <1>1, <1>3, <1>4 DEF Tells

LEMMA RowTells ==
  ASSUME SidebarTypeOK, NEW c \in Chans, NEW rws \in Listed, \A d \in Chans : d # c => rws[d] = sidebar.shown[d],
         EmitServer(WithChannels(rws), {c}, trail)
  PROVE  /\ Tells({c})
         /\ c \in trail'.suspect \/ ~sidebar.open \/ ShownOf(c)' = rws[c]
<1>1. PICK after \in Sidebar : after = WithChannels(rws) /\ after.shown = rws /\ after.headings = sidebar.headings
  BY WithRows
<1>2. /\ {c} \in SUBSET Things /\ \A d \in Chans \ {c} : after.shown[d] = sidebar.shown[d]
      /\ \A g \in Cats \ {c} : after.headings[g] = sidebar.headings[g]
      /\ trail \in Trail /\ EmitServer(after, {c}, trail)
  BY <1>1 DEF Things, SidebarTypeOK
<1>3. Tells({c}) /\ (c \in trail'.suspect \/ ~sidebar.open \/ sidebar' = after)
  BY <1>2, EmitTells
<1> QED
  BY <1>1, <1>3 DEF ShownOf

LEMMA HeadTells ==
  ASSUME SidebarTypeOK, NEW T \in SUBSET Cats, NEW heads \in Headed, \A g \in Cats \ T : heads[g] = sidebar.headings[g],
         NEW t \in Trail, t.suspect = trail.suspect, EmitServer(WithHeadings(heads), T, t)
  PROVE  /\ Tells(T)
         /\ \A g \in T : g \in trail'.suspect \/ ~sidebar.open \/ ShownOf(g)' = heads[g]
<1>1. PICK after \in Sidebar : after = WithHeadings(heads) /\ after.headings = heads /\ after.shown = sidebar.shown
  BY WithHeads
<1>2. /\ T \in SUBSET Things /\ \A d \in Chans \ T : after.shown[d] = sidebar.shown[d]
      /\ \A g \in Cats \ T : after.headings[g] = sidebar.headings[g]
      /\ EmitServer(after, T, t)
  BY <1>1 DEF Things
<1>3. Tells(T) /\ \A x \in T : x \in trail'.suspect \/ ~sidebar.open \/ sidebar' = after
  BY <1>2, EmitTells
<1>4. \A g \in T : g \notin Chans
  BY SidebarBounds
<1> QED
  BY <1>1, <1>3, <1>4 DEF ShownOf

LEMMA HomesSame ==
  ASSUME SidebarTypeOK, HomesStand, TrailGrows(trail, trail'), NEW k \in Acts, UNCHANGED channels,
         \A g \in Cats : categories[g] # None => categories'[g] # None
  PROVE  HomesFrom(k) /\ HomesOn(k)
<1>1. ASSUME NEW c \in Existing(channels') PROVE channels[c] # None /\ c \in Existing(channels) /\ channels[c].cat \in Cats \cup {None}
  BY <1>1 DEF Existing, SidebarTypeOK, Listed, ChannelRow
<1>2. HomesOn(k)
  BY <1>1 DEF HomesOn, HomesStand, TrailGrows
<1> QED
  BY <1>1, <1>2 DEF HomesFrom

LEMMA HomesRow ==
  ASSUME SidebarTypeOK, HomesStand, TrailGrows(trail, trail'), NEW k \in Acts, UNCHANGED categories,
         NEW c \in Chans, NEW row \in ChannelRow \cup {None}, channels' = [channels EXCEPT ![c] = row],
         row # None => \/ row.cat = None
                       \/ channels[c] # None /\ row.cat = channels[c].cat
                       \/ row.cat \in acts[k].about /\ (categories[row.cat] # None \/ row.cat \in trail.torn \/ c \in trail.torn)
  PROVE  HomesFrom(k) /\ HomesOn(k)
<1>1. channels \in [Chans -> ChannelRow \cup {None}]
  BY DEF SidebarTypeOK, Listed
<1>2. \A d \in Existing(channels') : IF d = c THEN channels'[d] = row /\ row # None
                                     ELSE channels'[d] = channels[d] /\ channels[d] # None /\ d \in Existing(channels)
  BY <1>1 DEF Existing
<1>3. channels[c] # None => c \in Existing(channels)
  BY <1>1 DEF Existing
<1>4. HomesFrom(k)
  BY <1>2 DEF HomesFrom
<1>5. HomesOn(k)
  BY <1>2, <1>3 DEF HomesOn, HomesStand, TrailGrows
<1> QED
  BY <1>4, <1>5

(* Of some requests nothing but the rows can be shown.                     *)
Settles(a) ==
  \/ a.op \in {"create", "addcat", "delete", "harddelete", "dropcat"}
  \/ a.op \in {"update", "restore"} /\ a.stage = "write"
  \/ a.op = "swap" /\ a.stage = "list"

LEMMA FitsPlain ==
  ASSUME NEW a, NEW x, Settles(a)
  PROVE  /\ \A v : Fits(a, channels, categories, trail.torn, x, v) => v = Truth(x)
         /\ ~Owes(a, x)
BY DEF Settles, Fits, Owes, Touched, Dragged, Ordering, Truth

LEMMA CarriedTrue == ASSUME NEW k, NEW x, NEW v, v = Truth(x)' PROVE Carried(k, x, v)
BY DEF Carried, Fits, Truth

LEMMA PlainFares ==
  ASSUME SideInv, NEW k \in Acts, acts[k] # None, Settles(acts[k]), NEW T \in SUBSET acts[k].about, Tells(T),
         \A x \in Things \ T : Truth(x)' = Truth(x),
         \A x \in T : x \in trail'.suspect \/ ~sidebar.open \/ (ShownOf(x) = Truth(x) => ShownOf(x)' = Truth(x)')
  PROVE  Faring(k)
<1>1. acts[k].about \subseteq Things
  BY ActIs DEF SideInv
<1>2. Carries(k, T)
  <2> SUFFICES ASSUME NEW x \in acts[k].about \ trail'.suspect, NEW v, NEW w,
                      Fits(acts[k], channels, categories, trail.torn, x, v)
               PROVE  /\ x \notin T => Carried(k, x, v)
                      /\ x \in T /\ sidebar.open /\ v = ShownOf(x) /\ w = ShownOf(x)' => Carried(k, x, w)
    BY DEF Carries
  <2>1. v = Truth(x)
    BY FitsPlain
  <2>2. x \notin T => v = Truth(x)'
    BY <1>1, <2>1
  <2>3. x \in T /\ sidebar.open /\ v = ShownOf(x) /\ w = ShownOf(x)' => w = Truth(x)'
    BY <2>1
  <2> QED
    BY <2>2, <2>3, CarriedTrue
<1>3. Owing(k, T)
  BY FitsPlain DEF Owing
<1> QED
  BY <1>2, <1>3 DEF Faring

LEMMA RowOfLive == ASSUME NEW chs, NEW cts, NEW x \in Chans
                   PROVE  RowOf(chs, cts, x) = IF chs[x] # None /\ ~chs[x].deleted THEN chs[x] ELSE None
BY DEF RowOf

LEMMA RowOfHead == ASSUME NEW chs, NEW cts, NEW x \in Cats PROVE RowOf(chs, cts, x) = cts[x] /\ x \notin Chans
BY SidebarBounds DEF RowOf

(* What is shown of rows once x has been told of.                          *)
LEMMA RowsShown ==
  ASSUME SidebarTypeOK, NEW c \in Chans, NEW row \in ChannelRow \cup {None}, NEW rws,
         rws = Adding(sidebar.shown, c, row) \/ rws = Patching(sidebar.shown, c, row) \/ rws = Removing(sidebar.shown, c)
  PROVE  /\ rws \in Listed /\ \A d \in Chans : d # c => rws[d] = sidebar.shown[d]
         /\ rws = Adding(sidebar.shown, c, row) => rws[c] = IF sidebar.shown[c] = None THEN row ELSE sidebar.shown[c]
         /\ rws = Patching(sidebar.shown, c, row) => rws[c] = IF sidebar.shown[c] = None \/ row = None THEN sidebar.shown[c] ELSE row
         /\ rws = Removing(sidebar.shown, c) => rws[c] = None
<1>1. sidebar.shown \in [Chans -> ChannelRow \cup {None}]
  BY ListsAre DEF Listed
<1>2. rws \in Listed /\ \A d \in Chans : d # c => rws[d] = sidebar.shown[d]
  BY RowsLocal
<1>3. rws = Adding(sidebar.shown, c, row) => rws[c] = IF sidebar.shown[c] = None THEN row ELSE sidebar.shown[c]
  BY <1>1 DEF Adding
<1>4. rws = Patching(sidebar.shown, c, row) => rws[c] = IF sidebar.shown[c] = None \/ row = None THEN sidebar.shown[c] ELSE row
  BY <1>1 DEF Patching
<1>5. rws = Removing(sidebar.shown, c) => rws[c] = None
  BY <1>1 DEF Removing
<1> QED
  BY <1>2, <1>3, <1>4, <1>5

LEMMA HeadsShown ==
  ASSUME SidebarTypeOK, NEW old \in Headed, NEW g \in Cats, NEW place \in Place \cup {None}, NEW heads,
         heads = Adding(old, g, place) \/ heads = Patching(old, g, place) \/ heads = Removing(old, g)
  PROVE  /\ heads \in Headed /\ \A h \in Cats : h # g => heads[h] = old[h]
         /\ heads = Adding(old, g, place) => heads[g] = IF old[g] = None THEN place ELSE old[g]
         /\ heads = Patching(old, g, place) => heads[g] = IF old[g] = None \/ place = None THEN old[g] ELSE place
         /\ heads = Removing(old, g) => heads[g] = None
<1>1. old \in [Cats -> Place \cup {None}]
  BY DEF Headed
<1>2. heads \in Headed /\ \A h \in Cats : h # g => heads[h] = old[h]
  <2>1. CASE heads = Adding(old, g, place)
    BY <2>1, HeadsLocal
  <2>2. CASE heads = Patching(old, g, place)
    BY <2>2, HeadsLocal
  <2>3. CASE heads = Removing(old, g)
    BY <2>3, HeadsLocal
  <2> QED
    BY <2>1, <2>2, <2>3
<1>3. heads = Adding(old, g, place) => heads[g] = IF old[g] = None THEN place ELSE old[g]
  BY <1>1 DEF Adding
<1>4. heads = Patching(old, g, place) => heads[g] = IF old[g] = None \/ place = None THEN old[g] ELSE place
  BY <1>1 DEF Patching
<1>5. heads = Removing(old, g) => heads[g] = None
  BY <1>1 DEF Removing
<1> QED
  BY <1>2, <1>3, <1>4, <1>5

LEMMA InsertChannelFares ==
  ASSUME SideInv, Sided, NEW k \in Acts, InsertChannel(k), Stepping(k) PROVE Fared(k)
<1>a. PICK a, c : a = acts[k] /\ c = a.x
  OBVIOUS
<1> DEFINE new == [place |-> a.place, cat |-> a.cat, deleted |-> FALSE]
<1>0. SidebarTypeOK /\ AllShaped /\ HomesStand /\ TrailGrows(trail, trail')
  BY DEF SideInv, Sided, Stepping
<1>1. /\ a # None /\ a.op = "create" /\ channels' = [channels EXCEPT ![c] = new]
      /\ EmitServer(WithChannels(Adding(sidebar.shown, c, new)), {c}, trail) /\ ActOver(k) /\ UNCHANGED categories
  BY <1>a DEF InsertChannel, ActAt
<1>2. a \in Act /\ Shaped(a) /\ a.about \subseteq Things /\ Knows(a) /\ acts'[k] = None
  BY <1>0, <1>1, <1>a, ActIs DEF Sided, AllKnow, Busy, ActOver, SidebarTypeOK
<1>3. c \in Chans /\ c \in a.about /\ a.place \in Place /\ a.cat \in Cats \cup {None}
  BY <1>1, <1>2, <1>a DEF Shaped, Act
<1>4. PICK row \in ChannelRow : row = new /\ row.cat = a.cat /\ ~row.deleted /\ row # None
  <2>1. new \in ChannelRow
    BY <1>3 DEF ChannelRow
  <2> QED
    BY <2>1, SidebarRecords
<1> HIDE DEF new
<1>5. PICK rws : rws = Adding(sidebar.shown, c, new) /\ rws \in Listed /\ (\A d \in Chans : d # c => rws[d] = sidebar.shown[d]) /\ (sidebar.shown[c] = None => rws[c] = row)
  BY <1>0, <1>3, <1>4, RowsShown
<1>6. Tells({c}) /\ (c \in trail'.suspect \/ ~sidebar.open \/ ShownOf(c)' = rws[c])
  BY <1>0, <1>1, <1>3, <1>5, RowTells
<1>7. \A x \in Things : x # c => Truth(x)' = Truth(x)
  BY <1>0, <1>1, <1>3 DEF Truth, RowOf, Things, SidebarTypeOK, Listed
<1>8. Truth(c)' = row
  BY <1>0, <1>1, <1>3, <1>4 DEF Truth, RowOf, SidebarTypeOK, Listed
<1>9. c \in trail'.suspect \/ Truth(c) = None
  BY <1>0, <1>1, <1>2, <1>3, <1>a DEF Knows, Vacant, Truth, RowOf, TrailGrows
<1>10. Settles(acts[k]) /\ {c} \subseteq acts[k].about /\ ShownOf(c) = sidebar.shown[c]
  BY <1>1, <1>3, <1>a DEF Settles, ShownOf
<1>12. Faring(k)
  BY <1>0, <1>1, <1>3, <1>a, <1>5, <1>6, <1>7, <1>8, <1>9, <1>10, PlainFares
<1>13. HomesFrom(k) /\ HomesOn(k)
  <2>1. row.cat = None \/ (row.cat \in a.about /\ (categories[row.cat] # None \/ row.cat \in trail.torn \/ c \in trail.torn))
    BY <1>1, <1>2, <1>3, <1>4 DEF Knows, Arrives
  <2> QED
    BY <1>0, <1>1, <1>3, <1>4, <2>1, <1>a, HomesRow
<1> QED
  BY <1>2, <1>12, <1>13, GoneFares DEF Fared

LEMMA InsertCategoryFares ==
  ASSUME SideInv, Sided, NEW k \in Acts, InsertCategory(k), Stepping(k) PROVE Fared(k)
<1>a. PICK a, g : a = acts[k] /\ g = a.x
  OBVIOUS
<1>0. SidebarTypeOK /\ AllShaped /\ HomesStand /\ TrailGrows(trail, trail')
  BY DEF SideInv, Sided, Stepping
<1>1. /\ a # None /\ a.op = "addcat" /\ categories' = [categories EXCEPT ![g] = a.place]
      /\ EmitServer(WithHeadings(Adding(sidebar.headings, g, a.place)), {g}, trail) /\ ActOver(k) /\ UNCHANGED channels
  BY <1>a DEF InsertCategory, ActAt
<1>2. a \in Act /\ Shaped(a) /\ a.about \subseteq Things /\ Knows(a) /\ acts'[k] = None
  BY <1>0, <1>1, <1>a, ActIs DEF Sided, AllKnow, Busy, ActOver, SidebarTypeOK
<1>3. g \in Cats /\ g \notin Chans /\ g \in a.about /\ a.place \in Place /\ a.place # None
  BY <1>1, <1>2, <1>a, SidebarBounds, SidebarRecords DEF Shaped
<1>5. PICK heads : heads = Adding(sidebar.headings, g, a.place) /\ heads \in Headed /\ (\A d \in Cats : d # g => heads[d] = sidebar.headings[d]) /\ (sidebar.headings[g] = None => heads[g] = a.place)
  <2>1. sidebar.headings \in Headed
    BY <1>0, ListsAre
  <2> QED
    BY <1>0, <1>3, <2>1, HeadsShown
<1>6. Tells({g}) /\ (g \in trail'.suspect \/ ~sidebar.open \/ ShownOf(g)' = heads[g])
  <2>1. trail \in Trail /\ {g} \in SUBSET Cats /\ \A d \in Cats \ {g} : heads[d] = sidebar.headings[d]
    BY <1>0, <1>3, <1>5 DEF SidebarTypeOK
  <2> QED
    BY <1>0, <1>1, <1>5, <2>1, HeadTells
<1>7. \A x \in Things : x # g => Truth(x)' = Truth(x)
  BY <1>0, <1>1, <1>3 DEF Truth, RowOf, Things, SidebarTypeOK, Headed
<1>8. Truth(g)' = a.place
  BY <1>0, <1>1, <1>3 DEF Truth, RowOf, SidebarTypeOK, Headed
<1>9. g \in trail'.suspect \/ Truth(g) = None
  BY <1>0, <1>1, <1>2, <1>3, <1>a DEF Knows, Vacant, Truth, RowOf, TrailGrows
<1>10. Settles(acts[k]) /\ {g} \subseteq acts[k].about /\ ShownOf(g) = sidebar.headings[g]
  BY <1>1, <1>3, <1>a DEF Settles, ShownOf
<1>12. Faring(k)
  BY <1>0, <1>1, <1>3, <1>a, <1>5, <1>6, <1>7, <1>8, <1>9, <1>10, PlainFares
<1>13. HomesFrom(k) /\ HomesOn(k)
  <2>1. \A h \in Cats : categories[h] # None => categories'[h] # None
    BY <1>0, <1>1, <1>3 DEF SidebarTypeOK, Headed
  <2> QED
    BY <1>0, <1>1, <2>1, HomesSame
<1> QED
  BY <1>2, <1>12, <1>13, GoneFares DEF Fared

LEMMA ClashesSame ==
  ASSUME SideInv, Clashes, NEW k \in Acts, acts[k] # None, TrailGrows(trail, trail'),
         acts'[k] # None => acts'[k].about = acts[k].about
  PROVE  ClashesOn(k)
BY DEF Clashes, ClashesOn, TrailGrows, Busy

LEMMA PurgeChannelFares ==
  ASSUME SideInv, Sided, NEW k \in Acts, PurgeChannel(k), Stepping(k) PROVE Fared(k)
<1>a. PICK a : a = acts[k]
  OBVIOUS
<1>0. SidebarTypeOK /\ AllShaped /\ HomesStand /\ Clashes /\ TrailGrows(trail, trail')
  BY DEF SideInv, Sided, Stepping
<1>1. a # None /\ a.op = "harddelete" /\ ActTo(k, "write") /\ UNCHANGED <<channels, categories, sidebar, loads, trail>>
  BY <1>a DEF PurgeChannel, ActAt
<1>2. a \in Act /\ Shaped(a) /\ a.about \subseteq Things /\ Knows(a)
  BY <1>0, <1>1, <1>a, ActIs DEF Sided, AllKnow, Busy
<1>3. PICK b \in Act : acts'[k] = b /\ b # None /\ b.op = a.op /\ b.x = a.x /\ b.about = a.about
  <2>1. \E b \in Act : acts' = [acts EXCEPT ![k] = b] /\ b.op = a.op /\ b.x = a.x /\ b.about = a.about
    BY <1>0, <1>1, <1>a, StageOnly
  <2> QED
    BY <1>0, <2>1, SidebarRecords DEF SidebarTypeOK
<1>4. Settles(acts[k]) /\ {} \in SUBSET acts[k].about
  BY <1>1, <1>a DEF Settles
<1>5. \A x \in Things : Truth(x)' = Truth(x)
  BY <1>1 DEF Truth
<1>6. Faring(k)
  BY <1>1, <1>4, <1>5, <1>a, PlainFares, QuietTells
<1>7. HomesFrom(k) /\ HomesOn(k)
  BY <1>0, <1>1, HomesSame
<1>8. ClashesOn(k)
  BY <1>0, <1>1, <1>3, <1>a, ClashesSame
<1>9. KnowsOn(k)
  BY <1>1, <1>2, <1>3 DEF KnowsOn, Knows, Vacant, Buried, Raised, Reread, Copied, Leaves, Arrives, Empties, Truth
<1> QED
  BY <1>6, <1>7, <1>8, <1>9 DEF Fared

LEMMA DropChannelFares ==
  ASSUME SideInv, Sided, NEW k \in Acts, DropChannel(k), Stepping(k) PROVE Fared(k)
<1>a. PICK a, c : a = acts[k] /\ c = a.x
  OBVIOUS
<1>0. SidebarTypeOK /\ AllShaped /\ HomesStand /\ TrailGrows(trail, trail')
  BY DEF SideInv, Sided, Stepping
<1>1. /\ a # None /\ a.op = "harddelete" /\ UNCHANGED <<categories, sidebar>>
      /\ channels' = [channels EXCEPT ![c] = None] /\ ActOver(k)
      /\ loads' = IF Live(c) THEN Outdated({c}) ELSE loads
  BY <1>a DEF DropChannel, ActAt, Removing
<1>2. a \in Act /\ Shaped(a) /\ a.about \subseteq Things /\ Knows(a) /\ acts'[k] = None
  BY <1>0, <1>1, <1>a, ActIs DEF Sided, AllKnow, Busy, ActOver, SidebarTypeOK
<1>3. c \in Chans /\ c \in a.about
  BY <1>1, <1>2, <1>a DEF Shaped
<1>4. \A x \in Things : x # c => Truth(x)' = Truth(x)
  BY <1>0, <1>1, <1>3 DEF Truth, RowOf, Things, SidebarTypeOK, Listed
<1>5. Truth(c)' = None
  BY <1>0, <1>1, <1>3 DEF Truth, RowOf, SidebarTypeOK, Listed
<1>6. Settles(acts[k]) /\ {c} \in SUBSET acts[k].about /\ {} \in SUBSET acts[k].about
  BY <1>1, <1>3, <1>a DEF Settles
<1>7. ASSUME Live(c) PROVE Faring(k)
  <2>1. Tells({c})
    <3>1. {c} \in SUBSET Things
      BY <1>3 DEF Things
    <3> QED
      BY <1>0, <1>1, <1>7, <3>1, OutdatedTypes DEF Tells, ShownOf
  <2>2. Truth(c) # None
    BY <1>3, <1>7 DEF Truth, RowOf, Live
  <2>3. c \in trail'.suspect
    BY <1>0, <1>1, <1>2, <1>a, <2>2 DEF Knows, Buried, TrailGrows
  <2> QED
    BY <1>1, <1>a, <1>4, <1>6, <2>1, <2>3, PlainFares
<1>8. ASSUME ~Live(c) PROVE Faring(k)
  <2>1. Truth(c) = None
    BY <1>3, <1>8 DEF Truth, RowOf, Live
  <2>2. Tells({})
    BY <1>1, <1>8, QuietTells
  <2> QED
    BY <1>1, <1>a, <1>4, <1>5, <1>6, <2>1, <2>2, PlainFares
<1>9. HomesFrom(k) /\ HomesOn(k)
  BY <1>0, <1>1, <1>3, HomesRow
<1> QED
  BY <1>2, <1>7, <1>8, <1>9, GoneFares DEF Fared

LEMMA DropCategoryFares ==
  ASSUME SideInv, Sided, NEW k \in Acts, DropCategory(k), Stepping(k) PROVE Fared(k)
<1>a. PICK a, g : a = acts[k] /\ g = a.x
  OBVIOUS
<1>0. SidebarTypeOK /\ AllShaped /\ HomesStand /\ TrailGrows(trail, trail')
  BY DEF SideInv, Sided, Stepping
<1>1. /\ a # None /\ a.op = "dropcat" /\ a.stage = "drop" /\ a.todo = <<>> /\ categories' = [categories EXCEPT ![g] = None]
      /\ EmitServer(WithHeadings(Removing(sidebar.headings, g)), {g}, [trail EXCEPT !.gone = trail.gone \cup {g}])
      /\ ActOver(k) /\ UNCHANGED channels
  BY <1>a DEF DropCategory, ActAt, Removing
<1>2. a \in Act /\ Shaped(a) /\ a.about \subseteq Things /\ Knows(a) /\ acts'[k] = None
  BY <1>0, <1>1, <1>a, ActIs DEF Sided, AllKnow, Busy, ActOver, SidebarTypeOK
<1>3. g \in Cats /\ g \notin Chans /\ g \in a.about
  BY <1>1, <1>2, <1>a, SidebarBounds DEF Shaped
<1>5. PICK heads : heads = Removing(sidebar.headings, g) /\ heads \in Headed /\ (\A d \in Cats : d # g => heads[d] = sidebar.headings[d]) /\ heads[g] = None
  <2>1. sidebar.headings \in Headed
    BY <1>0, ListsAre
  <2>2. PICK heads : heads = Removing(sidebar.headings, g)
    OBVIOUS
  <2>3. \E place : place \in Place \cup {None}
    OBVIOUS
  <2> QED
    BY <1>0, <1>3, <2>1, <2>2, <2>3, HeadsShown
<1>6. PICK t : t = [trail EXCEPT !.gone = trail.gone \cup {g}] /\ t \in Trail /\ t.suspect = trail.suspect
  <2>1. trail \in Trail /\ {g} \in SUBSET Things
    BY <1>0, <1>3 DEF SidebarTypeOK, Things
  <2>2. [trail EXCEPT !.gone = trail.gone \cup {g}] \in Trail
    BY <2>1 DEF Trail
  <2>3. [trail EXCEPT !.gone = trail.gone \cup {g}].suspect = trail.suspect
    BY <2>1 DEF Trail
  <2> QED
    BY <2>2, <2>3
<1>7. Tells({g}) /\ (g \in trail'.suspect \/ ~sidebar.open \/ ShownOf(g)' = None)
  <2>1. {g} \in SUBSET Cats /\ \A d \in Cats \ {g} : heads[d] = sidebar.headings[d]
    BY <1>3, <1>5
  <2> QED
    BY <1>0, <1>1, <1>5, <1>6, <2>1, HeadTells
<1>8. \A x \in Things : x # g => Truth(x)' = Truth(x)
  BY <1>0, <1>1, <1>3 DEF Truth, RowOf, Things, SidebarTypeOK, Headed
<1>9. Truth(g)' = None
  BY <1>0, <1>1, <1>3 DEF Truth, RowOf, SidebarTypeOK, Headed
<1>10. Settles(acts[k]) /\ {g} \in SUBSET acts[k].about
  BY <1>1, <1>3, <1>a DEF Settles
<1>12. Faring(k)
  BY <1>1, <1>a, <1>7, <1>8, <1>9, <1>10, PlainFares
<1>13. HomesFrom(k) /\ HomesOn(k)
  <2>0. HomesFrom(k)
    BY <1>0, <1>1 DEF HomesFrom, Existing
  <2>1. ASSUME NEW c \in Existing(channels'), channels'[c].cat # None, channels'[c].cat \notin trail'.torn, c \notin trail'.torn
        PROVE  categories'[channels'[c].cat] # None
    <3>1. c \in Existing(channels) /\ channels'[c] = channels[c] /\ c \notin trail.torn /\ channels[c].cat \notin trail.torn
      BY <1>0, <1>1, <2>1 DEF TrailGrows
    <3>2. channels[c].cat \in Cats
      BY <1>0, <2>1, <3>1, ListsAre
    <3>3. channels[c].cat # g
      BY <1>1, <1>2, <3>1, <1>a DEF Knows, Empties, Named
    <3> QED
      BY <1>0, <1>1, <2>1, <3>1, <3>2, <3>3 DEF HomesStand, SidebarTypeOK, Headed
  <2> QED
    BY <2>0, <2>1 DEF HomesOn
<1> QED
  BY <1>2, <1>12, <1>13, GoneFares DEF Fared

LEMMA SwapReadsOtherFares ==
  ASSUME SideInv, Sided, NEW k \in Acts, SwapReadsOther(k), Stepping(k) PROVE Fared(k)
<1>a. PICK a, todo : a = acts[k] /\ todo =
        LET to(id, place) == [id |-> id, place |-> place, moved |-> FALSE, cat |-> None, row |-> None]
        IN <<to(a.ids[1], categories[a.ids[2]]), to(a.ids[2], a.place)>>
  OBVIOUS
<1>0. SidebarTypeOK /\ AllShaped /\ HomesStand /\ Clashes /\ TrailGrows(trail, trail')
  BY DEF SideInv, Sided, Stepping
<1>1. /\ a # None /\ a.op = "swap" /\ a.stage = "list" /\ UNCHANGED <<channels, categories, sidebar, loads, trail>>
      /\ IF categories[a.ids[2]] = None THEN ActOver(k) ELSE Planned(k, todo)
  BY <1>a DEF SwapReadsOther, ActAt
<1>2. a \in Act /\ Shaped(a) /\ a.about \subseteq Things /\ Knows(a)
  BY <1>0, <1>1, <1>a, ActIs DEF Sided, AllKnow, Busy
<1>3. acts'[k] # None => acts'[k].about = a.about /\ acts'[k].op = "swap" /\ acts'[k].stage = "write"
  <2>1. acts'[k] = None \/ acts'[k] = [a EXCEPT !.todo = todo, !.stage = "write"]
    BY <1>0, <1>1, <1>a DEF ActOver, Planned, SidebarTypeOK
  <2>2. [a EXCEPT !.todo = todo, !.stage = "write"].about = a.about /\ [a EXCEPT !.todo = todo, !.stage = "write"].op = a.op
        /\ [a EXCEPT !.todo = todo, !.stage = "write"].stage = "write"
    BY <1>2 DEF Act
  <2> QED
    BY <1>1, <2>1, <2>2
<1>4. Settles(acts[k]) /\ {} \in SUBSET acts[k].about
  BY <1>1, <1>a DEF Settles
<1>5. \A x \in Things : Truth(x)' = Truth(x)
  BY <1>1 DEF Truth
<1>6. Faring(k)
  BY <1>1, <1>4, <1>5, <1>a, PlainFares, QuietTells
<1>7. HomesFrom(k) /\ HomesOn(k)
  BY <1>0, <1>1, HomesSame
<1>8. ClashesOn(k)
  BY <1>0, <1>1, <1>3, <1>a, ClashesSame
<1>9. KnowsOn(k)
  BY <1>3 DEF KnowsOn, Knows, Vacant, Buried, Raised, Reread, Copied, Leaves, Arrives, Empties
<1> QED
  BY <1>6, <1>7, <1>8, <1>9 DEF Fared

LEMMA ListChildrenFares ==
  ASSUME SideInv, Sided, NEW k \in Acts, ListChildren(k), Stepping(k) PROVE Fared(k)
<1>0. SidebarTypeOK /\ AllShaped /\ HomesStand /\ Clashes /\ TrailGrows(trail, trail')
  BY DEF SideInv, Sided, Stepping
<1>a. PICK a, list, todo : a = acts[k] /\ list = Children(a.x)
        /\ todo = [i \in DOMAIN list |-> [id |-> list[i], place |-> None, moved |-> TRUE, cat |-> None, row |-> channels[list[i]]]]
  OBVIOUS
<1>1. /\ a \in Act /\ a # None /\ a.op = "dropcat" /\ a.stage = "list" /\ list \in Seq(Chans) /\ ToSet(list) = Within(channels, a.x)
      /\ Within(channels, a.x) \subseteq Chans /\ UNCHANGED <<channels, categories, sidebar, loads>>
      /\ \E b \in Act : /\ acts' = [acts EXCEPT ![k] = b] /\ b.todo = todo /\ b.stage = "drop"
                        /\ b.about = a.about \cup ToSet(list) /\ b.op = a.op /\ b.x = a.x
  <2> DEFINE d == acts[k]
             ls == Children(d.x)
             ms == [i \in DOMAIN ls |-> [id |-> ls[i], place |-> None, moved |-> TRUE, cat |-> None, row |-> channels[ls[i]]]]
  <2>1. /\ d \in Act /\ d.op = "dropcat" /\ d.stage = "list" /\ ls \in Seq(Chans) /\ ToSet(ls) = Within(channels, d.x)
        /\ Within(channels, d.x) \subseteq Chans /\ UNCHANGED <<channels, categories, sidebar, loads>>
    BY <1>0, ListChildrenIs
  <2>2. \E b \in Act : /\ acts' = [acts EXCEPT ![k] = b] /\ b.todo = ms /\ b.stage = "drop"
                        /\ b.about = d.about \cup ToSet(ls) /\ b.op = d.op /\ b.x = d.x
    BY <1>0, ListChildrenIs
  <2>3. d = a /\ ls = list /\ ms = todo
    BY <1>a
  <2> HIDE DEF d, ls, ms
  <2> QED
    BY <2>1, <2>2, <2>3, SidebarRecords
<1>2. PICK b \in Act : /\ acts'[k] = b /\ b.todo = todo /\ b.stage = "drop" /\ b # None
                       /\ b.about = a.about \cup ToSet(list) /\ b.op = a.op /\ b.x = a.x
  BY <1>0, <1>1, SidebarRecords DEF SidebarTypeOK
<1>3. Settles(acts[k]) /\ {} \in SUBSET acts[k].about
  BY <1>1, <1>a DEF Settles
<1>4. \A x \in Things : Truth(x)' = Truth(x)
  BY <1>1 DEF Truth
<1>5. Faring(k)
  BY <1>1, <1>3, <1>4, <1>a, PlainFares, QuietTells
<1>6. HomesFrom(k) /\ HomesOn(k)
  BY <1>0, <1>1, HomesSame
<1>7. ClashesOn(k)
  <2>1. PICK clash : /\ clash = Clashing(k, b.about) /\ trail'.suspect = trail.suspect \cup clash
                     /\ trail'.torn = trail.torn \cup clash
    <3>1. /\ trail'.suspect = trail.suspect \cup Clashing(k, a.about \cup ToSet(list))
          /\ trail'.torn = trail.torn \cup Clashing(k, a.about \cup ToSet(list))
      BY <1>0, <1>a, ListChildrenIs
    <3> QED
      BY <1>2, <3>1
  <2>2. b.about \in SUBSET Things
    BY DEF Act
  <2>3. \A j \in Busy : j # k /\ acts[j].about \cap b.about # {} => acts[j].about \cup b.about \subseteq clash
    BY <1>0, <2>1, <2>2, ClashingIs
  <2> QED
    BY <1>2, <2>1, <2>3 DEF ClashesOn
<1>8. Copied(b)'
  BY <1>1, <1>2, <1>a DEF Copied
<1>9. Empties(b)'
  <2> SUFFICES ASSUME NEW c \in Existing(channels'), channels'[c].cat = b.x PROVE Named(b.todo, c)
    BY DEF Empties
  <2>1. c \in ToSet(list)
    BY <1>1, <1>2 DEF Within
  <2>2. PICK i \in DOMAIN list : list[i] = c
    BY <2>1 DEF ToSet
  <2> QED
    BY <1>2, <1>a, <2>2 DEF Named
<1>10. Knows(b)'
  BY <1>1, <1>2, <1>8, <1>9 DEF Knows, Vacant, Buried, Raised, Reread, Leaves, Arrives
<1>11. KnowsOn(k)
  BY <1>2, <1>10 DEF KnowsOn, Knows, Vacant, Buried, Raised, Reread, Copied, Leaves, Arrives, Empties
<1> QED
  BY <1>5, <1>6, <1>7, <1>11 DEF Fared

LEMMA FreeChildFares ==
  ASSUME SideInv, Sided, NEW k \in Acts, FreeChild(k), Stepping(k) PROVE Fared(k)
<1>a. PICK a, m, c : a = acts[k] /\ m = Head(a.todo) /\ c = m.id
  OBVIOUS
<1>0. SidebarTypeOK /\ AllShaped /\ HomesStand /\ Clashes /\ TrailGrows(trail, trail')
  BY DEF SideInv, Sided, Stepping
<1>1. /\ a # None /\ a.op = "dropcat" /\ a.stage = "drop" /\ a.todo # <<>> /\ UNCHANGED categories
      /\ channels' = IF channels[c] = None THEN channels ELSE [channels EXCEPT ![c] = MovedRow(channels[c], m)]
      /\ EmitServer(WithChannels(Patching(sidebar.shown, c, MovedRow(m.row, m))), {c}, trail)
      /\ acts'[k] = [a EXCEPT !.todo = Tail(a.todo)]
  BY <1>0, <1>a DEF FreeChild, ActAt, SidebarTypeOK, Listed
<1>2. a \in Act /\ Shaped(a) /\ a.about \subseteq Things /\ Knows(a)
  BY <1>0, <1>1, <1>a, ActIs DEF Sided, AllKnow, Busy
<1>3. a.todo \in Seq(Move) /\ Freeing(a)
  BY <1>1, <1>2 DEF Act, Shaped
<1>4. /\ m \in Move /\ c \in Chans /\ c \in a.about /\ m.row \in ChannelRow /\ m.moved /\ m.cat = None /\ m.place = None
      /\ 1 \in DOMAIN a.todo /\ a.todo[1] = m /\ DOMAIN a.todo = 1..Len(a.todo) /\ Len(a.todo) \in Nat
      /\ DOMAIN Tail(a.todo) = 1..(Len(a.todo) - 1)
      /\ \A i \in DOMAIN Tail(a.todo) : i + 1 \in DOMAIN a.todo /\ Tail(a.todo)[i] = a.todo[i + 1]
  <2>1. /\ 1 \in DOMAIN a.todo /\ a.todo[1] = m /\ DOMAIN a.todo = 1..Len(a.todo) /\ Len(a.todo) \in Nat
        /\ DOMAIN Tail(a.todo) = 1..(Len(a.todo) - 1) /\ m \in Move
        /\ \A i \in DOMAIN Tail(a.todo) : i + 1 \in DOMAIN a.todo /\ Tail(a.todo)[i] = a.todo[i + 1]
    BY <1>1, <1>3, <1>a, TodoIs
  <2> QED
    BY <1>3, <1>a, <2>1 DEF Freeing
<1>5. PICK b : acts'[k] = b /\ b # None /\ b.todo = Tail(a.todo) /\ b.op = "dropcat" /\ b.stage = "drop" /\ b.x = a.x /\ b.about = a.about
  <2>1. [a EXCEPT !.todo = Tail(a.todo)] \in Act
    BY <1>1, <1>2, <1>3, TodoIs DEF Act
  <2> QED
    BY <1>1, <1>2, <2>1, SidebarRecords DEF Act
<1>6. PICK row \in ChannelRow \cup {None} : /\ channels' = [channels EXCEPT ![c] = row] /\ (row = None <=> channels[c] = None)
        /\ (channels[c] # None => row = MovedRow(channels[c], m) /\ row.cat = None /\ row.deleted = channels[c].deleted)
  <2>0. channels[c] \in ChannelRow \cup {None} /\ channels \in [Chans -> ChannelRow \cup {None}]
    BY <1>0, <1>4 DEF SidebarTypeOK, Listed
  <2>1. CASE channels[c] = None
    <3>1. channels' = [channels EXCEPT ![c] = None]
      BY <1>1, <2>0, <2>1
    <3> QED
      BY <2>1, <3>1
  <2>2. CASE channels[c] # None
    <3>1. PICK row : row = MovedRow(channels[c], m)
      OBVIOUS
    <3>2. row \in ChannelRow /\ row.cat = None /\ row.deleted = channels[c].deleted
      BY <1>4, <2>0, <2>2, <3>1, MovedRowIs
    <3> QED
      BY <1>1, <2>2, <3>1, <3>2, SidebarRecords
  <2> QED
    BY <2>1, <2>2
<1>7. PICK told \in ChannelRow : told = MovedRow(m.row, m) /\ told # None
  BY <1>4, MovedRowIs, SidebarRecords
<1>8. PICK rws : rws = Patching(sidebar.shown, c, told) /\ rws \in Listed /\ (\A d \in Chans : d # c => rws[d] = sidebar.shown[d])
                 /\ rws[c] = IF sidebar.shown[c] = None \/ told = None THEN sidebar.shown[c] ELSE told
  BY <1>0, <1>4, RowsShown
<1>9. Tells({c}) /\ (c \in trail'.suspect \/ ~sidebar.open \/ ShownOf(c)' = rws[c])
  BY <1>0, <1>1, <1>4, <1>7, <1>8, RowTells
<1>10. \A x \in Things : x # c => Truth(x)' = Truth(x)
  BY <1>0, <1>1, <1>4, <1>6 DEF Truth, RowOf, Things, SidebarTypeOK, Listed
<1>11. c \in trail'.suspect \/ m.row = channels[c]
  BY <1>0, <1>1, <1>2, <1>4, <1>a DEF Knows, Copied, TrailGrows
<1>12. c \in trail'.suspect \/ ~sidebar.open \/ (ShownOf(c) = Truth(c) => ShownOf(c)' = Truth(c)')
  <2> SUFFICES ASSUME c \notin trail'.suspect, sidebar.open, ShownOf(c) = Truth(c) PROVE ShownOf(c)' = Truth(c)'
    OBVIOUS
  <2>1. channels[c] # None /\ row = told /\ ShownOf(c) = sidebar.shown[c]
    BY <1>4, <1>6, <1>7, <1>11, SidebarRecords DEF ShownOf
  <2>2. channels'[c] = row /\ row # None
    BY <1>0, <1>4, <1>6, <2>1 DEF SidebarTypeOK, Listed
  <2>3. Truth(c) = IF channels[c].deleted THEN None ELSE channels[c]
    BY <1>4, <2>1 DEF Truth, RowOf
  <2>4. Truth(c)' = IF row.deleted THEN None ELSE row
    BY <1>4, <2>2 DEF Truth, RowOf
  <2> QED
    BY <1>6, <1>7, <1>8, <1>9, <2>1, <2>3, <2>4
<1>13. Settles(acts[k]) /\ {c} \in SUBSET acts[k].about
  BY <1>1, <1>4, <1>a DEF Settles
<1>14. Faring(k)
  BY <1>1, <1>a, <1>9, <1>10, <1>12, <1>13, PlainFares
<1>15. HomesFrom(k) /\ HomesOn(k)
  BY <1>0, <1>1, <1>4, <1>6, HomesRow
<1>16. ClashesOn(k)
  BY <1>0, <1>1, <1>5, <1>a, ClashesSame
<1>17. Copied(b)'
  <2> SUFFICES ASSUME NEW i \in DOMAIN b.todo
               PROVE b.todo[i].id \in trail'.suspect \/ b.todo[i].row = channels'[b.todo[i].id]
    BY DEF Copied
  <2>1. i \in Nat /\ i # 0 /\ i + 1 \in DOMAIN a.todo /\ b.todo[i] = a.todo[i + 1]
    BY <1>4, <1>5
  <2>2. a.todo[i + 1].id # c /\ a.todo[i + 1].id \in Chans
    <3>1. i + 1 # 1 /\ a.todo[1].id = c /\ 1 \in DOMAIN a.todo
      BY <1>4, <1>a, <2>1
    <3>2. \A p, q \in DOMAIN a.todo : a.todo[p].id = a.todo[q].id => p = q
      BY <1>3 DEF Freeing
    <3>3. a.todo[i + 1].id # c
      BY <2>1, <3>1, <3>2
    <3> QED
      BY <1>3, <2>1, <3>3 DEF Freeing
  <2>3. channels'[a.todo[i + 1].id] = channels[a.todo[i + 1].id]
    BY <1>0, <1>6, <2>2 DEF SidebarTypeOK, Listed
  <2>4. a.todo[i + 1].id \in trail.suspect \/ a.todo[i + 1].row = channels[a.todo[i + 1].id]
    BY <1>1, <1>2, <2>1 DEF Knows, Copied
  <2> QED
    BY <1>0, <2>1, <2>3, <2>4 DEF TrailGrows
<1>18. Empties(b)'
  <2> SUFFICES ASSUME NEW d \in Existing(channels'), channels'[d].cat = b.x
               PROVE d \in trail'.torn \/ b.x \in trail'.torn \/ Named(b.todo, d)
    BY DEF Empties
  <2>1. channels \in [Chans -> ChannelRow \cup {None}] /\ b.x \in Cats /\ b.x # None
    BY <1>0, <1>1, <1>2, <1>5, SidebarBounds DEF SidebarTypeOK, Listed, Shaped
  <2>2. d # c /\ channels'[d] = channels[d] /\ d \in Existing(channels)
    BY <1>4, <1>6, <2>1 DEF Existing
  <2>3. d \in trail.torn \/ b.x \in trail.torn \/ Named(a.todo, d)
    BY <1>1, <1>2, <1>5, <2>2 DEF Knows, Empties
  <2>4. ASSUME NEW i \in DOMAIN a.todo, a.todo[i].id = d PROVE Named(b.todo, d)
    <3>1. i # 1 /\ i \in 1..Len(a.todo)
      BY <1>4, <1>a, <2>2, <2>4
    <3>2. i - 1 \in DOMAIN b.todo /\ b.todo[i - 1] = a.todo[i]
      BY <1>4, <1>5, <3>1
    <3> QED
      BY <2>4, <3>2 DEF Named
  <2> QED
    BY <1>0, <2>3, <2>4 DEF Named, TrailGrows
<1>19. Knows(b)'
  BY <1>5, <1>17, <1>18 DEF Knows, Vacant, Buried, Raised, Reread, Leaves, Arrives
<1>20. KnowsOn(k)
  BY <1>5, <1>19 DEF KnowsOn, Knows, Vacant, Buried, Raised, Reread, Copied, Leaves, Arrives, Empties
<1> QED
  BY <1>14, <1>15, <1>16, <1>20 DEF Fared

LEMMA ReadChannelAgainFares ==
  ASSUME SideInv, Sided, NEW k \in Acts, ReadChannelAgain(k), Stepping(k) PROVE Fared(k)
<1>a. PICK a, c, rws : a = acts[k] /\ c = a.x /\ rws = ToldAgain(a)
  OBVIOUS
<1>0. SidebarTypeOK /\ AllShaped /\ HomesStand /\ TrailGrows(trail, trail')
  BY DEF SideInv, Sided, Stepping
<1>1. /\ a # None /\ a.op \in {"update", "restore"} /\ a.stage = "read" /\ UNCHANGED <<channels, categories>>
      /\ EmitServer(WithChannels(rws), {c}, trail) /\ ActOver(k)
  BY <1>a DEF ReadChannelAgain, ActAt
<1>2. a \in Act /\ Shaped(a) /\ a.about \subseteq Things /\ Knows(a) /\ acts'[k] = None
  BY <1>0, <1>1, <1>a, ActIs DEF Sided, AllKnow, Busy, ActOver, SidebarTypeOK
<1>3. c \in Chans /\ c \in a.about
  BY <1>1, <1>2, <1>a DEF Shaped
<1>4. PICK row \in ChannelRow \cup {None} : row = channels[c]
  BY <1>0, <1>3 DEF SidebarTypeOK, Listed
<1>5. rws = IF a.op = "restore" /\ row # None THEN Adding(sidebar.shown, c, row) ELSE Patching(sidebar.shown, c, row)
  BY <1>4, <1>a DEF ToldAgain
<1>6. /\ rws \in Listed /\ (\A d \in Chans : d # c => rws[d] = sidebar.shown[d])
      /\ rws[c] = IF a.op = "restore" /\ row # None
                  THEN IF sidebar.shown[c] = None THEN row ELSE sidebar.shown[c]
                  ELSE IF sidebar.shown[c] = None \/ row = None THEN sidebar.shown[c] ELSE row
  BY <1>0, <1>3, <1>5, RowsShown
<1>7. Tells({c}) /\ (c \in trail'.suspect \/ ~sidebar.open \/ ShownOf(c)' = rws[c])
  BY <1>0, <1>1, <1>3, <1>6, RowTells
<1>8. \A x : Truth(x)' = Truth(x)
  BY <1>1 DEF Truth
<1>9. Truth(c) = IF row # None /\ ~row.deleted THEN row ELSE None
  BY <1>3, <1>4 DEF Truth, RowOf
<1>10. a.op = "restore" => c \in trail'.suspect \/ row = None \/ ~row.deleted
  BY <1>0, <1>1, <1>2, <1>3, <1>4, <1>a DEF Knows, Raised, TrailGrows
<1>11. \A x \in a.about : x # c => ~Owes(a, x) /\ ~Touched(a, x)
  BY <1>1, <1>a DEF Owes, Touched, Ordering
<1>12. Carries(k, {c})
  <2>1. ASSUME NEW x \in a.about, x # c, NEW v, Fits(a, channels, categories, trail.torn, x, v) PROVE Carried(k, x, v)
    <3>1. v = Truth(x)
      BY <1>1, <1>11, <1>a, <2>1 DEF Fits, Truth, Dragged, Ordering
    <3> QED
      BY <1>8, <3>1, CarriedTrue
  <2>2. ASSUME c \notin trail'.suspect, sidebar.open, NEW v, v = ShownOf(c), Fits(a, channels, categories, trail.torn, c, v)
        PROVE  ShownOf(c)' = Truth(c)
    <3>1. v = sidebar.shown[c]
      BY <1>3, <2>2 DEF ShownOf
    <3>2. CASE a.op = "update"
      <4>1. v = None <=> Truth(c) = None
        BY <2>2, <3>2 DEF Fits, Truth, Dragged, Ordering
      <4> QED
        BY <1>6, <1>7, <1>9, <2>2, <3>1, <3>2, <4>1
    <3>3. CASE a.op = "restore"
      <4>1. v = None \/ v = Truth(c)
        BY <2>2, <3>3 DEF Fits, Touched, Truth, Dragged, Ordering
      <4> QED
        BY <1>6, <1>7, <1>9, <1>10, <2>2, <3>1, <3>3, <4>1
    <3> QED
      BY <1>1, <3>2, <3>3
  <2>3. ASSUME NEW w, w = ShownOf(c)', c \notin trail'.suspect, sidebar.open, NEW v, v = ShownOf(c),
               Fits(a, channels, categories, trail.torn, c, v)
        PROVE  Carried(k, c, w)
    BY <1>8, <2>2, <2>3, CarriedTrue
  <2> QED
    BY <1>a, <2>1, <2>3 DEF Carries
<1>13. Owing(k, {c})
  <2>1. \A x \in Things : x # c => ~Owes(a, x)
    BY <1>1, <1>a DEF Owes, Ordering
  <2> QED
    BY <1>8, <1>a, <2>1 DEF Owing
<1>14. Faring(k)
  BY <1>3, <1>7, <1>12, <1>13, <1>a DEF Faring
<1>15. HomesFrom(k) /\ HomesOn(k)
  BY <1>0, <1>1, HomesSame
<1> QED
  BY <1>2, <1>14, <1>15, GoneFares DEF Fared

LEMMA WriteChannelFares ==
  ASSUME SideInv, Sided, NEW k \in Acts, WriteChannel(k), Stepping(k) PROVE Fared(k)
<1>a. PICK a, c : a = acts[k] /\ c = a.x
  OBVIOUS
<1>0. SidebarTypeOK /\ AllShaped /\ HomesStand /\ Clashes /\ TrailGrows(trail, trail') /\ channels \in [Chans -> ChannelRow \cup {None}]
  BY DEF SideInv, Sided, Stepping, SidebarTypeOK, Listed
<1>1. /\ a # None /\ a.op \in {"update", "delete", "restore"} /\ a.stage = "write" /\ UNCHANGED categories
      /\ channels' = IF channels[c] = None THEN channels ELSE [channels EXCEPT ![c] = Marked(channels[c], a)]
      /\ IF a.op = "delete" THEN ActOver(k) /\ EmitServer(WithChannels(Removing(sidebar.shown, c)), {c}, trail)
         ELSE ActTo(k, "read") /\ UNCHANGED <<sidebar, loads, trail>>
  BY <1>0, <1>a DEF WriteChannel, ActAt
<1>2. a \in Act /\ Shaped(a) /\ a.about \subseteq Things /\ Knows(a)
  BY <1>0, <1>1, <1>a, ActIs DEF Sided, AllKnow, Busy
<1>3. c \in Chans /\ c \in a.about /\ Settles(acts[k]) /\ {c} \in SUBSET acts[k].about /\ {} \in SUBSET acts[k].about
  BY <1>1, <1>2, <1>a DEF Shaped, Settles
<1>4. PICK row \in ChannelRow \cup {None} : /\ channels' = [channels EXCEPT ![c] = row] /\ (row = None <=> channels[c] = None)
        /\ (channels[c] # None /\ a.op = "update" => row.cat = a.cat /\ row.deleted = channels[c].deleted)
        /\ (channels[c] # None /\ a.op # "update" => row = [channels[c] EXCEPT !.deleted = (a.op = "delete")]
                                                     /\ row.cat = channels[c].cat /\ row.deleted = (a.op = "delete"))
  <2>0. channels[c] \in ChannelRow \cup {None}
    BY <1>0, <1>3
  <2>1. CASE channels[c] = None
    <3>1. channels' = [channels EXCEPT ![c] = None]
      BY <1>0, <1>1, <1>3, <2>1
    <3> QED
      BY <2>1, <3>1
  <2>2. CASE channels[c] # None
    <3>1. PICK row : row = Marked(channels[c], a)
      OBVIOUS
    <3>2. row \in ChannelRow /\ (a.op = "update" => row.cat = a.cat /\ row.deleted = channels[c].deleted)
          /\ (a.op # "update" => row.cat = channels[c].cat /\ row.deleted = (a.op = "delete"))
      BY <1>2, <2>0, <2>2, <3>1, MarkedIs
    <3>3. a.op # "update" => row = [channels[c] EXCEPT !.deleted = (a.op = "delete")]
      BY <3>1 DEF Marked
    <3> QED
      BY <1>1, <2>2, <3>1, <3>2, <3>3, SidebarRecords
  <2> QED
    BY <2>1, <2>2
<1>5. channels'[c] = row /\ (\A d \in Chans : d # c => channels'[d] = channels[d])
  BY <1>0, <1>3, <1>4
<1>6. \A x \in Things : x # c => Truth(x)' = Truth(x)
  BY <1>1, <1>5 DEF Truth, RowOf, Things
<1>7. /\ Truth(c) = IF channels[c] # None /\ ~channels[c].deleted THEN channels[c] ELSE None
      /\ Truth(c)' = IF row # None /\ ~row.deleted THEN row ELSE None
  BY <1>3, <1>5 DEF Truth, RowOf
<1>8. HomesFrom(k) /\ HomesOn(k)
  <2>1. CASE a.op = "update"
    <3>1. a.cat # None => a.cat \in a.about /\ (categories[a.cat] # None \/ a.cat \in trail.torn \/ c \in trail.torn)
      BY <1>1, <1>2, <1>3, <2>1 DEF Knows, Arrives
    <3>2. channels' = [channels EXCEPT ![c] = row] /\ UNCHANGED categories /\ (row # None => row.cat = a.cat)
      BY <1>1, <1>4, <2>1
    <3>3. row # None => \/ row.cat = None
                        \/ row.cat \in acts[k].about /\ (categories[row.cat] # None \/ row.cat \in trail.torn \/ c \in trail.torn)
      BY <1>a, <3>1, <3>2
    <3> QED
      BY <1>0, <1>3, <3>2, <3>3, HomesRow
  <2>2. CASE a.op # "update"
    BY <1>0, <1>1, <1>3, <1>4, <2>2, HomesRow
  <2> QED
    BY <2>1, <2>2
<1>9. ASSUME a.op = "delete" PROVE Fared(k)
  <2>1. acts'[k] = None
    BY <1>0, <1>1, <1>9 DEF ActOver, SidebarTypeOK
  <2>2. PICK rws : rws = Removing(sidebar.shown, c) /\ rws \in Listed /\ (\A d \in Chans : d # c => rws[d] = sidebar.shown[d])
                   /\ rws[c] = None
    BY <1>0, <1>3, <1>4, RowsShown
  <2>3. Tells({c}) /\ (c \in trail'.suspect \/ ~sidebar.open \/ ShownOf(c)' = rws[c])
    BY <1>0, <1>1, <1>3, <1>9, <2>2, RowTells
  <2>4. Truth(c)' = None
    BY <1>4, <1>7, <1>9
  <2>5. Faring(k)
    BY <1>1, <1>3, <1>6, <1>a, <2>2, <2>3, <2>4, PlainFares
  <2> QED
    BY <1>8, <2>1, <2>5, GoneFares DEF Fared
<1>10. ASSUME a.op # "delete" PROVE Fared(k)
  <2>1. PICK b : /\ acts'[k] = b /\ b # None /\ b.stage = "read" /\ b.op = a.op /\ b.x = a.x /\ b.cat = a.cat
                 /\ b.about = a.about /\ b.todo = a.todo
    <3>1. \E b \in Act : /\ acts' = [acts EXCEPT ![k] = b] /\ b.stage = "read" /\ b.op = a.op /\ b.x = a.x /\ b.cat = a.cat
                         /\ b.about = a.about /\ b.todo = a.todo
      BY <1>0, <1>1, <1>10, <1>a, StageOnly
    <3> QED
      BY <1>0, <3>1, SidebarRecords DEF SidebarTypeOK
  <2>2. UNCHANGED <<sidebar, loads, trail>>
    BY <1>1, <1>10
  <2>3. Owes(b, c)
    BY <1>1, <1>10, <1>a, <2>1 DEF Owes
  <2>4. Owing(k, {})
    BY <1>3, <1>6, <2>1, <2>3, FitsPlain DEF Owing
  <2>5. ASSUME c \notin trail'.suspect, a.op = "update" PROVE Fits(b, channels', categories', trail'.torn, c, Truth(c))
    <3>1. Touched(b, c)
      BY <1>a, <2>1, <2>5 DEF Touched
    <3>2. Truth(c) = None <=> Truth(c)' = None
      BY <1>0, <1>3, <1>4, <1>7, <2>5, SidebarRecords
    <3>3. Homed(b, categories', trail'.torn, c, Truth(c))
      <4> SUFFICES ASSUME Truth(c) # None, channels[c].cat # None, channels[c].cat \notin trail.torn, c \notin trail.torn
                   PROVE  channels[c].cat \in a.about \cap Cats /\ categories[channels[c].cat] # None
        BY <1>1, <1>7, <2>1, <2>2 DEF Homed
      <4>1. channels[c] # None /\ c \in Existing(channels)
        BY <1>0, <1>3, <1>7 DEF Existing
      <4>2. channels[c].cat \in Cats
        BY <1>0, <4>1, ListsAre
      <4>3. channels[c].cat \in a.about
        BY <1>2, <1>3, <2>2, <2>5, <4>1 DEF Knows, Leaves
      <4> QED
        BY <1>0, <4>1, <4>2, <4>3 DEF HomesStand
    <3> QED
      BY <3>1, <3>2, <3>3 DEF Fits, Truth
  <2>6. ASSUME a.op = "restore" PROVE Fits(b, channels', categories', trail'.torn, c, Truth(c))
    <3>1. CASE Truth(c) = None
      BY <1>a, <2>1, <2>6, <3>1 DEF Fits
    <3>2. CASE Truth(c) # None
      <4>1. channels[c] \in ChannelRow /\ ~channels[c].deleted /\ channels[c].deleted \in BOOLEAN
        BY <1>0, <1>3, <1>7, <3>2 DEF ChannelRow
      <4>2. row = [channels[c] EXCEPT !.deleted = FALSE] /\ row # None
        BY <1>4, <2>6, <4>1, SidebarRecords
      <4>3. row = channels[c]
        BY <4>1, <4>2 DEF ChannelRow
      <4> QED
        BY <1>7, <3>2, <4>1, <4>2, <4>3 DEF Fits, Truth
    <3> QED
      BY <3>1, <3>2
  <2>7. Carries(k, {})
    <3> SUFFICES ASSUME NEW x \in a.about, x \notin trail'.suspect, NEW v, Fits(a, channels, categories, trail.torn, x, v)
                 PROVE  Carried(k, x, v)
      BY <1>a DEF Carries
    <3>1. v = Truth(x)
      BY <1>3, <1>a, FitsPlain
    <3>2. CASE x = c
      BY <1>1, <1>10, <2>1, <2>5, <2>6, <3>1, <3>2 DEF Carried
    <3>3. CASE x # c
      BY <1>2, <1>6, <3>1, <3>3, CarriedTrue
    <3> QED
      BY <3>2, <3>3
  <2>8. Faring(k)
    BY <1>3, <2>2, <2>4, <2>7, QuietTells DEF Faring
  <2>9. ClashesOn(k)
    BY <1>0, <1>1, <1>a, <2>1, ClashesSame
  <2>10. Raised(b)'
    <3>1. a.op = "restore" => row = None \/ ~row.deleted
      BY <1>4
    <3> QED
      BY <1>5, <1>a, <2>1, <3>1 DEF Raised
  <2>11. Leaves(b)'
    <3>1. b.op \notin {"create", "reorder"} /\ (b.op = "update" => a.op = "update")
      BY <1>1, <2>1
    <3> SUFFICES ASSUME a.op = "update", NEW d \in b.about \cap Chans, d \notin trail'.suspect, channels'[d] # None
                 PROVE  channels'[d].cat \in b.about \cup {None}
      BY <3>1 DEF Leaves
    <3>2. CASE d = c
      <4>1. channels'[d].cat = a.cat
        BY <1>4, <1>5, <3>2
      <4> QED
        BY <1>2, <2>1, <4>1 DEF Knows, Arrives
    <3>3. CASE d # c
      BY <1>2, <1>5, <2>1, <2>2, <3>3 DEF Knows, Leaves
    <3> QED
      BY <3>2, <3>3
  <2>12. Arrives(b)'
    BY <1>1, <1>2, <2>1, <2>2 DEF Knows, Arrives
  <2>13. Knows(b)'
    BY <1>1, <2>1, <2>10, <2>11, <2>12 DEF Knows, Vacant, Buried, Reread, Copied, Empties
  <2>14. KnowsOn(k)
    BY <2>1, <2>13 DEF KnowsOn, Knows, Vacant, Buried, Raised, Reread, Copied, Leaves, Arrives, Empties
  <2> QED
    BY <1>8, <2>8, <2>9, <2>14 DEF Fared
<1> QED
  BY <1>9, <1>10

LEMMA SwappingFares ==
  ASSUME SideInv, Sided, NEW k \in Acts, acts[k] # None, Stepping(k), acts[k].op = "swap", acts[k].stage # "list",
         UNCHANGED <<channels, sidebar, loads, trail>>, NEW b, acts'[k] = b, b # None, b.op = "swap", b.stage # "list",
         b.ids = acts[k].ids, b.about = acts[k].about,
         \A g \in Cats : categories'[g] = None <=> categories[g] = None, Reread(b)'
  PROVE  Fared(k)
<1>a. PICK a, g, h : a = acts[k] /\ g = a.ids[1] /\ h = a.ids[2]
  OBVIOUS
<1>0. SidebarTypeOK /\ AllShaped /\ HomesStand /\ Clashes /\ TrailGrows(trail, trail') /\ Writes(acts[k].about)
  BY DEF SideInv, Sided, Stepping
<1>1. a \in Act /\ Shaped(a) /\ a.ids \in Seq(Cats) /\ Len(a.ids) = 2 /\ a.about = {g, h} /\ g \in Cats /\ h \in Cats
  <2>1. acts[k] \in Act /\ Shaped(acts[k]) /\ Exchanged(acts[k])
    BY <1>0, SwapIs
  <2> QED
    BY <1>a, <2>1 DEF Exchanged
<1>2. \A x \in a.about : x \in ToSet(a.ids) /\ x \in Cats /\ x \notin Chans
  BY <1>a, <1>1, SidebarBounds DEF ToSet
<1>3. Carries(k, {})
  <2> SUFFICES ASSUME NEW x \in a.about, NEW v, Fits(a, channels, categories, trail.torn, x, v) PROVE Carried(k, x, v)
    BY <1>a DEF Carries
  <2>1. v = None <=> Truth(x) = None
    BY <1>a DEF Fits, Dragged, Ordering, Truth
  <2>2. Truth(x) = None <=> Truth(x)' = None
    BY <1>2 DEF Truth, RowOf
  <2>3. Touched(b, x) /\ Homed(b, categories', trail'.torn, x, v)
    BY <1>2 DEF Touched, Homed
  <2> QED
    BY <2>1, <2>2, <2>3 DEF Carried, Fits, Truth
<1>4. Owing(k, {})
  <2>1. ASSUME NEW x \in Things, x \notin a.about PROVE ~Owes(a, x) /\ Truth(x)' = Truth(x)
    BY <1>0, <1>1, <1>a, <2>1, OwesAbout, TruthCalm
  <2>2. ASSUME NEW x \in a.about PROVE Owes(b, x)
    BY <1>2, <1>a DEF Owes
  <2> QED
    BY <1>a, <2>1, <2>2 DEF Owing
<1>5. Faring(k)
  BY <1>3, <1>4, QuietTells DEF Faring
<1>6. HomesFrom(k) /\ HomesOn(k)
  BY <1>0, HomesSame
<1>7. ClashesOn(k)
  BY <1>0, ClashesSame
<1>8. KnowsOn(k)
  BY DEF KnowsOn, Knows, Vacant, Buried, Raised, Reread, Copied, Leaves, Arrives, Empties
<1> QED
  BY <1>5, <1>6, <1>7, <1>8 DEF Fared

LEMMA SwapWritesFares ==
  ASSUME SideInv, Sided, NEW k \in Acts, SwapWrites(k), Stepping(k) PROVE Fared(k)
<1>a. PICK a, m, todo, stage : a = acts[k] /\ m = Head(a.todo) /\ todo = Tail(a.todo) /\ stage = IF Len(a.todo) = 1 THEN "read" ELSE "write"
  OBVIOUS
<1>0. SidebarTypeOK /\ AllShaped
  BY DEF SideInv
<1>1. /\ a # None /\ a.op = "swap" /\ a.stage = "write" /\ UNCHANGED <<channels, sidebar, loads, trail>>
      /\ categories' = IF categories[m.id] = None THEN categories ELSE [categories EXCEPT ![m.id] = m.place]
      /\ acts' = [acts EXCEPT ![k].todo = todo, ![k].stage = IF Len(a.todo) = 1 THEN "read" ELSE @]
  BY <1>a DEF SwapWrites, ActAt
<1>2. acts[k] \in Act /\ Exchanged(acts[k]) /\ acts[k].todo \in Seq(Move)
  BY <1>0, <1>1, <1>a, SwapIs
<1>3. m.place \in Place
  <2>1. a.todo # <<>>
    BY <1>1, <1>2, <1>a DEF Exchanged
  <2> QED
    BY <1>2, <1>a, <2>1, TodoIs DEF Exchanged
<1>4. \A g \in Cats : categories'[g] = None <=> categories[g] = None
  BY <1>0, <1>1, <1>3, SidebarRecords DEF SidebarTypeOK, Headed
<1>5. PICK b : b = [a EXCEPT !.todo = todo, !.stage = stage]
  OBVIOUS
<1>6. acts'[k] = b
  BY <1>0, <1>1, <1>5, <1>a DEF SidebarTypeOK
<1>7. b \in Act /\ b.op = "swap" /\ b.stage = stage /\ b.ids = a.ids /\ b.about = a.about
  <2>1. todo \in Seq(Move)
    <3>1. a.todo # <<>>
      BY <1>1, <1>2, <1>a DEF Exchanged
    <3> QED
      BY <1>2, <1>a, <3>1, TodoIs
  <2>2. stage \in {"read", "write"}
    BY <1>a
  <2> QED
    BY <1>1, <1>2, <1>5, <1>a, <2>1, <2>2 DEF Act
<1>8. b # None /\ b.stage # "list" /\ b.stage # "tell"
  BY <1>7, <1>a, SidebarRecords
<1>9. Reread(b)'
  BY <1>8 DEF Reread
<1> QED
  BY <1>1, <1>4, <1>6, <1>7, <1>8, <1>9, <1>a, SwappingFares

LEMMA SwapReadsAgainFares ==
  ASSUME SideInv, Sided, NEW k \in Acts, SwapReadsAgain(k), Stepping(k) PROVE Fared(k)
<1>a. PICK a, p : a = acts[k] /\ p = categories[a.ids[1]]
  OBVIOUS
<1>0. SidebarTypeOK /\ AllShaped
  BY DEF SideInv
<1>1. /\ a # None /\ a.op = "swap" /\ a.stage = "read" /\ UNCHANGED <<channels, categories, sidebar, loads, trail>>
      /\ acts' = [acts EXCEPT ![k].stage = "tell", ![k].place = p]
  BY <1>a DEF SwapReadsAgain, ActAt
<1>2. acts[k] \in Act /\ acts[k].ids[1] \in Cats
  BY <1>0, <1>1, <1>a, SwapIs
<1>3. PICK b : b = [a EXCEPT !.stage = "tell", !.place = p]
  OBVIOUS
<1>4. acts'[k] = b
  BY <1>0, <1>1, <1>3, <1>a DEF SidebarTypeOK
<1>5. p \in Place \cup {None}
  BY <1>0, <1>2, <1>a DEF SidebarTypeOK, Headed
<1>6. b \in Act /\ b.op = "swap" /\ b.stage = "tell" /\ b.ids = a.ids /\ b.about = a.about /\ b.place = p
  BY <1>1, <1>2, <1>3, <1>5, <1>a DEF Act
<1>7. b # None /\ Reread(b)'
  BY <1>1, <1>6, <1>a, SidebarRecords DEF Reread
<1> QED
  BY <1>1, <1>4, <1>6, <1>7, <1>a, SwappingFares

LEMMA SwapTellsFares ==
  ASSUME SideInv, Sided, NEW k \in Acts, SwapTells(k), Stepping(k) PROVE Fared(k)
<1>a. PICK a, g, h, once, heads : /\ a = acts[k] /\ g = a.ids[1] /\ h = a.ids[2]
        /\ once = Patching(sidebar.headings, g, a.place) /\ heads = Patching(once, h, categories[h])
  OBVIOUS
<1>0. SidebarTypeOK /\ AllShaped /\ HomesStand /\ TrailGrows(trail, trail')
  BY DEF SideInv, Sided, Stepping
<1>1. /\ a # None /\ a.op = "swap" /\ a.stage = "tell" /\ UNCHANGED <<channels, categories>>
      /\ EmitServer(WithHeadings(heads), {g, h}, trail) /\ ActOver(k)
  BY <1>a DEF SwapTells, ActAt
<1>2. a \in Act /\ Shaped(a) /\ Knows(a) /\ acts'[k] = None
  BY <1>0, <1>1, <1>a, ActIs DEF Sided, AllKnow, Busy, ActOver, SidebarTypeOK
<1>3. g \in Cats /\ h \in Cats /\ g # h /\ a.about = {g, h} /\ a.place \in Place \cup {None} /\ g \notin Chans /\ h \notin Chans
  BY <1>0, <1>1, <1>a, SwapIs, SidebarBounds
<1>4. sidebar.headings \in Headed /\ categories[h] \in Place \cup {None} /\ trail \in Trail
  BY <1>0, <1>3, ListsAre DEF SidebarTypeOK, Headed
<1>5. /\ once \in Headed /\ \A d \in Cats : d # g => once[d] = sidebar.headings[d]
      /\ once[g] = IF sidebar.headings[g] = None \/ a.place = None THEN sidebar.headings[g] ELSE a.place
  BY <1>0, <1>3, <1>4, <1>a, HeadsShown
<1>6. /\ heads \in Headed /\ \A d \in Cats : d # h => heads[d] = once[d]
      /\ heads[h] = IF once[h] = None \/ categories[h] = None THEN once[h] ELSE categories[h]
  BY <1>0, <1>3, <1>4, <1>5, <1>a, HeadsShown
<1>7. Tells({g, h}) /\ \A x \in {g, h} : x \in trail'.suspect \/ ~sidebar.open \/ ShownOf(x)' = heads[x]
  <2>1. {g, h} \in SUBSET Cats /\ \A d \in Cats \ {g, h} : heads[d] = sidebar.headings[d]
    BY <1>3, <1>5, <1>6
  <2> QED
    BY <1>0, <1>1, <1>4, <1>6, <2>1, HeadTells
<1>8. \A x : Truth(x)' = Truth(x)
  BY <1>1 DEF Truth
<1>9. g \in trail'.suspect \/ a.place = categories[g]
  BY <1>0, <1>1, <1>2, <1>a DEF Knows, Reread, TrailGrows
<1>10. Carries(k, {g, h})
  <2> SUFFICES ASSUME NEW x \in {g, h}, x \notin trail'.suspect, sidebar.open, NEW v, NEW w, v = ShownOf(x), w = ShownOf(x)',
                      Fits(a, channels, categories, trail.torn, x, v)
               PROVE  Carried(k, x, w)
    BY <1>3, <1>a DEF Carries
  <2>1. v = None <=> categories[x] = None
    BY <1>1, <1>3 DEF Fits, Dragged, Ordering, RowOf
  <2>2. v = sidebar.headings[x] /\ w = heads[x]
    BY <1>3, <1>7 DEF ShownOf
  <2>3. heads[x] = categories[x]
    <3>1. CASE x = g
      BY <1>3, <1>5, <1>6, <1>9, <2>1, <2>2, <3>1
    <3>2. CASE x = h
      BY <1>3, <1>5, <1>6, <2>1, <2>2, <3>2
    <3> QED
      BY <3>1, <3>2
  <2>4. Truth(x)' = categories[x]
    BY <1>3, <1>8 DEF Truth, RowOf
  <2> QED
    BY <2>2, <2>3, <2>4, CarriedTrue
<1>11. Owing(k, {g, h})
  BY <1>2, <1>3, <1>8, <1>a, OwesAbout DEF Owing
<1>12. Faring(k)
  BY <1>3, <1>7, <1>10, <1>11, <1>a DEF Faring
<1>13. HomesFrom(k) /\ HomesOn(k)
  BY <1>0, <1>1, HomesSame
<1> QED
  BY <1>2, <1>12, <1>13, GoneFares DEF Fared

LEMMA ActThrowsFares ==
  ASSUME SideInv, Sided, NEW k \in Acts, ActThrows(k), Stepping(k) PROVE Fared(k)
<1>a. PICK a : a = acts[k]
  OBVIOUS
<1>0. SidebarTypeOK /\ AllShaped /\ HomesStand /\ TrailGrows(trail, trail')
  BY DEF SideInv, Sided, Stepping
<1>1. /\ a # None /\ UNCHANGED <<channels, categories>> /\ Refused(k) /\ loads' = Outdated(a.about)
      /\ trail' = [trail EXCEPT !.throws = trail.throws + 1, !.suspect = trail.suspect \cup a.about,
                     !.torn = trail.torn \cup a.about, !.raced = trail.raced \cup Placing(a.op)]
  BY <1>a DEF ActThrows
<1>2. a \in Act /\ Shaped(a) /\ a.about \in SUBSET Things /\ acts'[k] = None
  BY <1>0, <1>1, <1>a, ActIs DEF Refused, ActOver, SidebarTypeOK
<1>3. a.about \subseteq trail'.suspect
  BY <1>0, <1>1 DEF SidebarTypeOK, Trail
<1>4. \A x : Truth(x)' = Truth(x)
  BY <1>1 DEF Truth
<1>5. Tells(a.about)
  <2>1. \A x : ShownOf(x)' = ShownOf(x)
    BY <1>0, <1>1, <1>a, RefusedShows DEF ShownOf
  <2> QED
    BY <1>0, <1>1, <1>2, <2>1, OutdatedTypes DEF Tells
<1>6. Carries(k, a.about)
  BY <1>3, <1>a DEF Carries
<1>7. Owing(k, a.about)
  BY <1>2, <1>4, <1>a, OwesAbout DEF Owing
<1>8. Faring(k)
  BY <1>5, <1>6, <1>7, <1>a DEF Faring
<1>9. HomesFrom(k) /\ HomesOn(k)
  BY <1>0, <1>1, HomesSame
<1> QED
  BY <1>2, <1>8, <1>9, GoneFares DEF Fared

LEMMA HomedTruth ==
  ASSUME SideInv, HomesStand, NEW a, Leaves(a), a.op \in {"update", "reorder"}, NEW x \in Chans, x \in a.about, x \notin trail.suspect
  PROVE  Homed(a, categories, trail.torn, x, Truth(x))
<1>1. SidebarTypeOK
  BY DEF SideInv
<1> SUFFICES ASSUME Truth(x) # None, Truth(x).cat # None, Truth(x).cat \notin trail.torn, x \notin trail.torn
             PROVE  Truth(x).cat \in a.about \cap Cats /\ categories[Truth(x).cat] # None
  BY DEF Homed
<1>2. Truth(x) = channels[x] /\ channels[x] # None /\ x \in Existing(channels)
  BY <1>1, PlacesAre DEF Truth, RowOf
<1>3. channels[x].cat \in Cats
  BY <1>1, <1>2, ListsAre
<1>4. channels[x].cat \in a.about
  BY <1>2 DEF Leaves
<1> QED
  BY <1>2, <1>3, <1>4 DEF HomesStand

(* A drag of ours shows what the list comes to.                            *)
LEMMA TargetIs ==
  ASSUME SideInv, NEW k \in Acts, acts[k] # None, acts[k].op \in Ordering, Known(acts[k].ids), NEW x \in ToSet(acts[k].ids)
  PROVE  LET a == acts[k]
             todo == IF a.op = "reorder" THEN ChannelMoves(a.ids, a.cat) ELSE CategoryMoves(a.ids)
             t == Target(a, channels, categories, x)
         IN /\ t # None /\ (x \in Chans => a.op = "reorder" /\ t.cat = a.cat)
            /\ ~Named(todo, x) => t = Truth(x)
<1>a. PICK a, ids, cat, i, t : /\ a = acts[k] /\ ids = a.ids /\ cat = a.cat /\ i = IndexIn(ids, x)
                               /\ t = Target(acts[k], channels, categories, x)
  OBVIOUS
<1>0. SidebarTypeOK /\ AllShaped
  BY DEF SideInv
<1>1. a \in Act /\ Shaped(a) /\ cat \in Cats \cup {None}
  BY <1>0, <1>a, ActIs DEF Act
<1>2. i \in DOMAIN ids /\ ids[i] = x
  BY <1>a, IndexIs
<1>3. CASE a.op = "reorder"
  <2>1. ids \in Seq(Chans) /\ \A j \in DOMAIN ids : PlaceIn(channels, ids[j]) \in Place
    <3>1. \A j \in DOMAIN ids : PlaceIn(channels, ids[j]) \in Place
      BY <1>0, <1>3, <1>a, ListedMoves
    <3> QED
      BY <1>1, <1>3, <1>a, <3>1 DEF Shaped, Drawn
  <2>2. x \in Chans /\ Live(x)
    BY <1>2, <1>a, <2>1 DEF Known
  <2>3. PICK row \in ChannelRow : row = channels[x] /\ Truth(x) = row
    BY <1>0, <2>2 DEF Live, Truth, RowOf, SidebarTypeOK, Listed
  <2>4. PICK p \in Place : p = Dealt(channels, ids)[i]
    BY <1>2, <2>1, DealtTypes
  <2>5. t = [row EXCEPT !.place = p, !.cat = cat]
    BY <1>a, <2>2, <2>3, <2>4 DEF Target
  <2>6. t \in ChannelRow /\ t.cat = cat
    BY <1>1, <2>5 DEF ChannelRow
  <2>7. PICK leaving : leaving = {c \in ToSet(ids) : channels[c].cat # cat}
    OBVIOUS
  <2>8. ASSUME ~Named(ChannelMoves(ids, cat), x) PROVE t = row
    <3>1. PICK todo : todo = Moving(channels, ids, leaving, cat) /\ todo = ChannelMoves(ids, cat)
      BY <2>7 DEF ChannelMoves
    <3>2. \A j \in Changed(channels, ids, leaving) : \E n \in DOMAIN todo : todo[n] = MoveOf(channels, ids, leaving, cat, j)
      <4>1. ids \in Seq(Chans)
        BY <2>1
      <4> DEFINE ms == Moving(channels, ids, leaving, cat)
      <4>2. \A j \in Changed(channels, ids, leaving) : \E n \in DOMAIN ms : ms[n] = MoveOf(channels, ids, leaving, cat, j)
        BY <4>1, MovingIs
      <4>3. ms = todo
        BY <3>1
      <4> HIDE DEF ms
      <4> QED
        BY <4>2, <4>3
    <3>3. ASSUME i \in Changed(channels, ids, leaving) PROVE FALSE
      <4>1. PICK n \in DOMAIN todo : todo[n] = MoveOf(channels, ids, leaving, cat, i)
        BY <3>2, <3>3
      <4>2. todo[n].id = x
        BY <1>2, <4>1 DEF MoveOf
      <4> QED
        BY <2>8, <3>1, <4>2 DEF Named
    <3>4. p = row.place /\ row.cat = cat
      <4>1. x \notin leaving /\ Staying(channels, ids, i)
        BY <1>2, <3>3 DEF Changed
      <4>2. p = row.place
        BY <1>2, <2>2, <2>3, <2>4, <4>1 DEF Staying, PlaceIn
      <4> QED
        BY <1>a, <2>3, <2>7, <4>1, <4>2
    <3> QED
      BY <2>5, <3>4 DEF ChannelRow
  <2> QED
    BY <1>3, <1>a, <2>3, <2>6, <2>8, SidebarRecords
<1>4. CASE a.op = "sortcats"
  <2>1. ids \in Seq(Cats) /\ \A j \in DOMAIN ids : PlaceIn(categories, ids[j]) \in Place
    <3>1. \A j \in DOMAIN ids : PlaceIn(categories, ids[j]) \in Place
      BY <1>0, <1>4, <1>a, ListedMoves
    <3> QED
      BY <1>1, <1>4, <1>a, <3>1 DEF Shaped, Drawn
  <2>2. x \in Cats /\ x \notin Chans
    BY <1>2, <2>1, SidebarBounds
  <2>3. t = Dealt(categories, ids)[i] /\ t \in Place
    <3>1. Dealt(categories, ids)[i] \in Place
      BY <1>2, <2>1, DealtTypes
    <3> QED
      BY <1>a, <2>2, <3>1 DEF Target
  <2>4. ASSUME ~Named(CategoryMoves(ids), x) PROVE t = Truth(x)
    <3>1. PICK todo : todo = Moving(categories, ids, {}, None) /\ todo = CategoryMoves(ids)
      BY DEF CategoryMoves
    <3>2. \A j \in Changed(categories, ids, {}) : \E n \in DOMAIN todo : todo[n] = MoveOf(categories, ids, {}, None, j)
      BY <2>1, <3>1, MovingIs
    <3>3. i \notin Changed(categories, ids, {})
      BY <1>2, <2>4, <3>1, <3>2 DEF Named, MoveOf
    <3>4. Staying(categories, ids, i)
      BY <1>2, <3>3 DEF Changed
    <3> QED
      BY <1>2, <2>2, <2>3, <3>4 DEF Staying, PlaceIn, Truth, RowOf
  <2> QED
    BY <1>4, <1>a, <2>2, <2>3, <2>4, SidebarRecords
<1> QED
  BY <1>3, <1>4, <1>a DEF Ordering

LEMMA ListForMovesFares ==
  ASSUME SideInv, Sided, NEW k \in Acts, ListForMoves(k), Stepping(k) PROVE Fared(k)
<1>a. PICK a, todo : a = acts[k] /\ todo = IF a.op = "reorder" THEN ChannelMoves(a.ids, a.cat) ELSE CategoryMoves(a.ids)
  OBVIOUS
<1>0. SidebarTypeOK /\ AllShaped /\ HomesStand /\ Clashes /\ TrailGrows(trail, trail')
  BY DEF SideInv, Sided, Stepping
<1>1. /\ a # None /\ a.op \in Ordering /\ a.stage = "list" /\ UNCHANGED <<channels, categories, loads, trail>>
      /\ IF ~Known(a.ids) THEN Refused(k) ELSE Planned(k, todo) /\ UNCHANGED sidebar
  BY <1>a DEF ListForMoves, ActAt, Ordering, Known
<1>2. a \in Act /\ Shaped(a) /\ a.about \subseteq Things /\ Knows(a) /\ a.todo = <<>>
  <2>1. a \in Act /\ Shaped(a) /\ a.about \subseteq Things /\ Knows(a)
    BY <1>0, <1>1, <1>a, ActIs DEF Sided, AllKnow, Busy
  <2> QED
    BY <1>1, <2>1 DEF Shaped, Drawn, Ordering
<1>3. \A x : Truth(x)' = Truth(x) /\ ~Owes(a, x)
  BY <1>1 DEF Truth, Owes, Ordering
<1>4. \A x, v : Fits(a, channels, categories, trail.torn, x, v) =>
        \/ v = Truth(x)
        \/ a.mine /\ x \in ToSet(a.ids) /\ Truth(x) # None /\ v = Target(a, channels, categories, x)
  <2>1. \A x : ~Touched(a, x)
    BY <1>1, <1>2 DEF Touched, Named, Ordering
  <2> QED
    BY <1>1, <2>1 DEF Fits, Dragged, Truth, Ordering
<1>5. HomesFrom(k) /\ HomesOn(k)
  BY <1>0, <1>1, HomesSame
<1>6. Owing(k, {})
  BY <1>3, <1>a DEF Owing
<1>7. ASSUME ~Known(a.ids) PROVE Fared(k)
  <2>1. Refused(k) /\ acts'[k] = None
    BY <1>0, <1>1, <1>7 DEF Refused, ActOver, SidebarTypeOK
  <2>2. Tells({})
    <3>1. sidebar'.shown = sidebar.shown /\ sidebar'.headings = sidebar.headings
      BY <1>0, <1>1, <1>a, <2>1, RefusedShows
    <3> QED
      BY <1>1, <3>1 DEF Tells, ShownOf
  <2>3. a.mine => Spurned(k)
    <3>1. a.mine /\ sidebar.open => sidebar'.due
      BY <1>0, <1>a, <2>1 DEF Refused, SidebarTypeOK, Sidebar
    <3> QED
      BY <1>1, <1>7, <1>a, <2>1, <3>1 DEF Spurned
  <2>4. Carries(k, {})
    <3> SUFFICES ASSUME NEW x \in a.about, NEW v, Fits(a, channels, categories, trail.torn, x, v),
                        v = Truth(x) \/ Owes(a, x) \/ ~Spurned(k)
                 PROVE  Carried(k, x, v)
      BY <1>a DEF Carries
    <3>1. v = Truth(x)
      BY <1>3, <1>4, <2>3
    <3> QED
      BY <1>3, <3>1, CarriedTrue
  <2> QED
    BY <1>5, <1>6, <2>1, <2>2, <2>4, GoneFares DEF Fared, Faring
<1>8. ASSUME Known(a.ids) PROVE Fared(k)
  <2>1. todo \in Seq(Move) /\ Planned(k, todo) /\ UNCHANGED sidebar
    <3>1. todo \in Seq(Move)
      BY <1>0, <1>1, <1>8, <1>a, ListedMoves
    <3> QED
      BY <1>1, <1>8, <3>1
  <2>2. todo = <<>> => acts'[k] = None
    BY <1>0, <1>1, <1>a, <2>1, PlannedForm DEF ActOver, SidebarTypeOK
  <2>3. todo # <<>> => \E b : acts'[k] = b /\ b # None /\ b.todo = todo /\ b.op = a.op /\ b.cat = a.cat /\ b.about = a.about /\ b.stage = "write"
    <3> SUFFICES ASSUME todo # <<>> PROVE \E b : acts'[k] = b /\ b # None /\ b.todo = todo /\ b.op = a.op /\ b.cat = a.cat
                                                 /\ b.about = a.about /\ b.stage = "write"
      OBVIOUS
    <3>1. \E b \in Act : acts' = [acts EXCEPT ![k] = b] /\ b.todo = todo /\ b.op = a.op /\ b.cat = a.cat /\ b.about = a.about /\ b.stage = "write"
      BY <1>0, <1>1, <1>a, <2>1, PlannedForm
    <3> QED
      BY <1>0, <3>1, SidebarRecords DEF SidebarTypeOK
  <2>4. ASSUME NEW x \in a.about, NEW v, Fits(a, channels, categories, trail.torn, x, v) PROVE Carried(k, x, v)
    <3>1. CASE v = Truth(x)
      BY <1>3, <3>1, CarriedTrue
    <3>2. CASE x \in ToSet(a.ids) /\ Truth(x) # None /\ v = Target(a, channels, categories, x)
      <4>1. v # None /\ (x \in Chans => a.op = "reorder" /\ v.cat = a.cat) /\ (~Named(todo, x) => v = Truth(x))
        BY <1>1, <1>8, <1>a, <3>2, TargetIs
      <4>2. CASE Named(todo, x)
        <5>1. todo # <<>>
          BY <4>2 DEF Named
        <5>2. PICK b : acts'[k] = b /\ b # None /\ b.todo = todo /\ b.op = a.op /\ b.cat = a.cat /\ b.about = a.about
          BY <2>3, <5>1
        <5>3. Touched(b, x)
          BY <1>1, <4>2, <5>2 DEF Touched
        <5>4. Homed(b, categories', trail'.torn, x, v)
          <6> SUFFICES ASSUME x \in Chans, a.cat # None, a.cat \notin trail.torn, x \notin trail.torn
                       PROVE  a.cat \in a.about \cap Cats /\ categories[a.cat] # None
            BY <1>1, <4>1, <5>2 DEF Homed
          <6>1. a.cat \in Cats
            BY <1>2 DEF Act
          <6> QED
            BY <1>2, <4>1, <6>1 DEF Knows, Arrives
        <5>5. v = None <=> Truth(x)' = None
          BY <1>3, <3>2, <4>1
        <5> QED
          BY <5>2, <5>3, <5>4, <5>5 DEF Carried, Fits, Truth
      <4>3. CASE ~Named(todo, x)
        BY <1>3, <4>1, <4>3, CarriedTrue
      <4> QED
        BY <4>2, <4>3
    <3> QED
      BY <1>4, <2>4, <3>1, <3>2
  <2>5. Carries(k, {})
    BY <1>a, <2>4 DEF Carries
  <2>6. Faring(k)
    BY <1>1, <1>6, <2>1, <2>5, QuietTells DEF Faring
  <2>7. ClashesOn(k)
    BY <1>0, <1>1, <1>a, <2>2, <2>3, ClashesSame
  <2>8. ASSUME NEW b, b.op = a.op, b.cat = a.cat, b.about = a.about, b.stage = "write" PROVE Knows(b)'
    <3>1. Leaves(b)' /\ Arrives(b)'
      BY <1>1, <1>2, <2>8 DEF Knows, Leaves, Arrives
    <3> QED
      BY <1>1, <2>8, <3>1 DEF Knows, Vacant, Buried, Raised, Reread, Copied, Empties, Ordering
  <2>9. KnowsOn(k)
    <3>1. CASE todo = <<>>
      BY <2>2, <3>1 DEF KnowsOn
    <3>2. CASE todo # <<>>
      <4>1. PICK b : acts'[k] = b /\ b.op = a.op /\ b.cat = a.cat /\ b.about = a.about /\ b.stage = "write"
        BY <2>3, <3>2
      <4>2. Knows(b)'
        BY <2>8, <4>1
      <4> QED
        BY <4>1, <4>2 DEF KnowsOn, Knows, Vacant, Buried, Raised, Reread, Copied, Leaves, Arrives, Empties
    <3> QED
      BY <3>1, <3>2
  <2> QED
    BY <1>5, <2>6, <2>7, <2>9 DEF Fared
<1> QED
  BY <1>7, <1>8

LEMMA WriteMoveFares ==
  ASSUME SideInv, Sided, NEW k \in Acts, WriteMove(k), Stepping(k) PROVE Fared(k)
<1>a. PICK a, m, y : a = acts[k] /\ m = Head(a.todo) /\ y = m.id
  OBVIOUS
<1>0. SidebarTypeOK /\ AllShaped /\ HomesStand /\ Clashes /\ TrailGrows(trail, trail')
  BY DEF SideInv, Sided, Stepping
<1>1. /\ a # None /\ a.op \in Ordering /\ a.stage = "write" /\ ActTo(k, "read") /\ UNCHANGED <<sidebar, loads, trail>>
      /\ channels' = IF y \notin Chans \/ channels[y] = None THEN channels
                       ELSE [channels EXCEPT ![y] = MovedRow(channels[y], m)]
      /\ categories' = IF y \notin Cats \/ categories[y] = None THEN categories
                         ELSE [categories EXCEPT ![y] = m.place]
  BY <1>0, <1>a DEF WriteMove, ActAt, Ordering, SidebarTypeOK, Listed
<1>2. a \in Act /\ Shaped(a) /\ a.about \subseteq Things /\ Knows(a) /\ a.todo \in Seq(Move) /\ a.todo # <<>>
  <2>1. a \in Act /\ Shaped(a) /\ a.about \subseteq Things /\ Knows(a)
    BY <1>0, <1>1, <1>a, ActIs DEF Sided, AllKnow, Busy
  <2> QED
    BY <1>1, <2>1 DEF Shaped, Drawn, Ordering, Act
<1>3. m \in Move /\ y \in a.about /\ m = a.todo[1] /\ 1 \in DOMAIN a.todo
  <2>1. m \in Move /\ y \in a.about
    BY <1>0, <1>1, <1>a, OrderingIs
  <2> QED
    BY <1>2, <1>a, <2>1, TodoIs
<1>4. (a.op = "reorder" => y \in Chans /\ y \notin Cats /\ m.cat = a.cat) /\ (a.op = "sortcats" => y \in Cats /\ y \notin Chans /\ m.place \in Place)
  <2>1. (a.op = "reorder" => y \in Chans) /\ (a.op = "sortcats" => y \in Cats /\ m.place \in Place)
    BY <1>0, <1>1, <1>a, OrderingIs
  <2>2. a.op = "reorder" => m.cat = a.cat
    BY <1>2, <1>3 DEF Shaped
  <2> QED
    BY <2>1, <2>2, SidebarBounds
<1>5. PICK b : /\ acts'[k] = b /\ b # None /\ b.stage = "read" /\ b.todo = a.todo /\ b.op = a.op /\ b.cat = a.cat /\ b.about = a.about
  <2>1. \E b \in Act : /\ acts' = [acts EXCEPT ![k] = b] /\ b.stage = "read" /\ b.todo = a.todo /\ b.op = a.op /\ b.cat = a.cat
                       /\ b.about = a.about
    BY <1>0, <1>1, <1>a, StageOnly
  <2> QED
    BY <1>0, <2>1, SidebarRecords DEF SidebarTypeOK
<1>6. \A x \in Things : x # y => Truth(x)' = Truth(x)
  BY <1>0, <1>1, <1>4 DEF Truth, RowOf, Things, SidebarTypeOK, Listed, Headed
<1>7. \A g \in Cats : categories'[g] = None <=> categories[g] = None
  BY <1>0, <1>1, <1>4, SidebarRecords DEF SidebarTypeOK, Headed, Ordering
<1>8. a.op = "reorder" => \E row \in ChannelRow \cup {None} :
        /\ channels' = [channels EXCEPT ![y] = row] /\ UNCHANGED categories /\ (row = None <=> channels[y] = None)
        /\ (channels[y] # None => row.deleted = channels[y].deleted /\ (row.cat = a.cat \/ row.cat = channels[y].cat))
  <2> SUFFICES ASSUME a.op = "reorder"
               PROVE \E row \in ChannelRow \cup {None} :
        /\ channels' = [channels EXCEPT ![y] = row] /\ UNCHANGED categories /\ (row = None <=> channels[y] = None)
        /\ (channels[y] # None => row.deleted = channels[y].deleted /\ (row.cat = a.cat \/ row.cat = channels[y].cat))
    OBVIOUS
  <2>1. channels[y] \in ChannelRow \cup {None} /\ channels \in [Chans -> ChannelRow \cup {None}] /\ UNCHANGED categories
    BY <1>0, <1>1, <1>4 DEF SidebarTypeOK, Listed
  <2>2. CASE channels[y] = None
    <3>1. channels' = [channels EXCEPT ![y] = None]
      BY <1>1, <2>1, <2>2
    <3> QED
      BY <2>1, <2>2, <3>1
  <2>3. CASE channels[y] # None
    <3>1. PICK row : row = MovedRow(channels[y], m)
      OBVIOUS
    <3>2. row \in ChannelRow /\ row.deleted = channels[y].deleted /\ (row.cat = m.cat \/ row.cat = channels[y].cat)
      BY <1>3, <2>1, <2>3, <3>1, MovedRowIs
    <3>3. channels' = [channels EXCEPT ![y] = row]
      BY <1>1, <1>4, <2>3, <3>1
    <3> QED
      BY <1>4, <2>1, <2>3, <3>2, <3>3, SidebarRecords
  <2> QED
    BY <2>2, <2>3
<1>9. Truth(y) = None <=> Truth(y)' = None
  <2>1. CASE a.op = "reorder"
    <3>1. PICK row \in ChannelRow \cup {None} :
        /\ channels' = [channels EXCEPT ![y] = row] /\ (row = None <=> channels[y] = None)
        /\ (channels[y] # None => row.deleted = channels[y].deleted)
      BY <1>8, <2>1
    <3>2. channels'[y] = row
      BY <1>0, <1>4, <2>1, <3>1 DEF SidebarTypeOK, Listed
    <3>3. Truth(y) = (IF channels[y] # None /\ ~channels[y].deleted THEN channels[y] ELSE None)
          /\ Truth(y)' = (IF row # None /\ ~row.deleted THEN row ELSE None)
      BY <1>4, <2>1, <3>2 DEF Truth, RowOf
    <3> QED
      BY <3>1, <3>3
  <2>2. CASE a.op = "sortcats"
    BY <1>4, <1>7, <2>2 DEF Truth, RowOf
  <2> QED
    BY <1>1, <2>1, <2>2 DEF Ordering
<1>10. Owing(k, {})
  <2>1. Owes(b, y)
    BY <1>1, <1>5, <1>a DEF Owes
  <2>2. \A x : ~Owes(a, x)
    BY <1>1 DEF Owes, Ordering
  <2> QED
    BY <1>5, <1>6, <1>a, <2>1, <2>2 DEF Owing
<1>11. ASSUME NEW x \in a.about, x \notin trail'.suspect, NEW v, Fits(a, channels, categories, trail.torn, x, v)
       PROVE  Carried(k, x, v)
  <2>1. v = Truth(x) \/ (Touched(a, x) /\ (v = None <=> Truth(x) = None) /\ Homed(a, categories, trail.torn, x, v))
    BY <1>1, <1>11 DEF Fits, Dragged, Truth, Ordering
  <2>2. CASE v = Truth(x) /\ x # y
    BY <1>2, <1>6, <2>2, CarriedTrue
  <2>3. CASE v = Truth(x) /\ x = y
    <3>1. Touched(b, x)
      BY <1>1, <1>3, <1>5, <1>a, <2>3 DEF Touched, Named
    <3>2. Homed(a, categories, trail.torn, x, v)
      <4>1. CASE a.op = "reorder"
        BY <1>0, <1>1, <1>2, <1>4, <1>11, <2>3, <4>1, HomedTruth DEF Knows
      <4>2. CASE a.op = "sortcats"
        BY <1>4, <2>3, <4>2 DEF Homed
      <4> QED
        BY <1>1, <4>1, <4>2 DEF Ordering
    <3>3. Homed(b, categories', trail'.torn, x, v)
      BY <1>1, <1>5, <1>7, <3>2 DEF Homed
    <3> QED
      BY <1>5, <1>9, <2>3, <3>1, <3>3 DEF Carried, Fits, Truth
  <2>4. CASE Touched(a, x) /\ (v = None <=> Truth(x) = None) /\ Homed(a, categories, trail.torn, x, v)
    <3>1. Touched(b, x)
      BY <1>1, <1>5, <2>4 DEF Touched, Ordering
    <3>2. Homed(b, categories', trail'.torn, x, v)
      BY <1>1, <1>5, <1>7, <2>4 DEF Homed
    <3>3. Truth(x) = None <=> Truth(x)' = None
      BY <1>2, <1>6, <1>9
    <3> QED
      BY <1>5, <2>4, <3>1, <3>2, <3>3 DEF Carried, Fits, Truth
  <2> QED
    BY <2>1, <2>2, <2>3, <2>4
<1>12. Carries(k, {})
  BY <1>11, <1>a DEF Carries
<1>13. Faring(k)
  BY <1>1, <1>10, <1>12, QuietTells DEF Faring
<1>14. HomesFrom(k) /\ HomesOn(k)
  <2>1. CASE a.op = "reorder"
    <3>1. PICK row \in ChannelRow \cup {None} :
        /\ channels' = [channels EXCEPT ![y] = row] /\ UNCHANGED categories /\ (row = None <=> channels[y] = None)
        /\ (channels[y] # None => row.cat = a.cat \/ row.cat = channels[y].cat)
      BY <1>8, <2>1
    <3>2. a.cat # None => a.cat \in acts[k].about /\ (categories[a.cat] # None \/ a.cat \in trail.torn \/ y \in trail.torn)
      BY <1>2, <1>3, <1>4, <1>a, <2>1 DEF Knows, Arrives
    <3>3. row # None => \/ row.cat = None
                        \/ channels[y] # None /\ row.cat = channels[y].cat
                        \/ row.cat \in acts[k].about /\ (categories[row.cat] # None \/ row.cat \in trail.torn \/ y \in trail.torn)
      BY <3>1, <3>2
    <3> QED
      BY <1>0, <1>4, <2>1, <3>1, <3>3, HomesRow
  <2>2. CASE a.op = "sortcats"
    BY <1>0, <1>1, <1>4, <1>7, <2>2, HomesSame
  <2> QED
    BY <1>1, <2>1, <2>2 DEF Ordering
<1>15. ClashesOn(k)
  BY <1>0, <1>1, <1>5, <1>a, ClashesSame
<1>16. Leaves(b)' /\ Arrives(b)'
  <2>1. CASE a.op = "sortcats"
    BY <1>5, <2>1 DEF Leaves, Arrives
  <2>2. CASE a.op = "reorder"
    <3>1. PICK row \in ChannelRow \cup {None} :
        /\ channels' = [channels EXCEPT ![y] = row] /\ UNCHANGED categories /\ (row = None <=> channels[y] = None)
        /\ (channels[y] # None => row.cat = a.cat \/ row.cat = channels[y].cat)
      BY <1>8, <2>2
    <3>2. channels'[y] = row /\ \A c \in Chans : c # y => channels'[c] = channels[c]
      BY <1>0, <1>4, <2>2, <3>1 DEF SidebarTypeOK, Listed
    <3>3. Leaves(a) /\ Arrives(a)
      BY <1>2 DEF Knows
    <3>4. Arrives(b)'
      BY <1>1, <1>5, <3>1, <3>3 DEF Arrives
    <3>5. ASSUME NEW c \in a.about \cap Chans, c \notin trail.suspect, channels'[c] # None
          PROVE  channels'[c].cat \in a.about \cup {None}
      <4>1. CASE c # y
        BY <2>2, <3>2, <3>3, <3>5, <4>1 DEF Leaves
      <4>2. CASE c = y
        <5>1. channels[c].cat \in a.about \cup {None}
          BY <2>2, <3>1, <3>2, <3>3, <3>5, <4>2 DEF Leaves
        <5>2. a.cat \in a.about \cup {None}
          BY <2>2, <3>3 DEF Arrives
        <5> QED
          BY <3>1, <3>2, <3>5, <4>2, <5>1, <5>2
      <4> QED
        BY <4>1, <4>2
    <3> QED
      BY <1>1, <1>5, <3>4, <3>5 DEF Leaves
  <2> QED
    BY <1>1, <2>1, <2>2 DEF Ordering
<1>17. Knows(b)'
  BY <1>1, <1>5, <1>16 DEF Knows, Vacant, Buried, Raised, Reread, Copied, Empties, Ordering
<1>18. KnowsOn(k)
  BY <1>5, <1>17 DEF KnowsOn, Knows, Vacant, Buried, Raised, Reread, Copied, Leaves, Arrives, Empties
<1> QED
  BY <1>13, <1>14, <1>15, <1>18 DEF Fared

LEMMA TellMoveFares ==
  ASSUME SideInv, Sided, NEW k \in Acts, TellMove(k), Stepping(k) PROVE Fared(k)
<1>a. PICK a, y, todo : a = acts[k] /\ y = Head(a.todo).id /\ todo = Tail(a.todo)
  OBVIOUS
<1>0. SidebarTypeOK /\ AllShaped /\ HomesStand /\ Clashes /\ TrailGrows(trail, trail')
  BY DEF SideInv, Sided, Stepping
<1>1. /\ a # None /\ a.op \in Ordering /\ a.stage = "read" /\ Planned(k, todo) /\ UNCHANGED <<channels, categories>>
      /\ EmitServer(IF y \in Chans THEN WithChannels(Patching(sidebar.shown, y, channels[y]))
                    ELSE WithHeadings(Patching(sidebar.headings, y, categories[y])), {y}, trail)
  BY <1>a DEF TellMove, ActAt, Ordering
<1>2. a \in Act /\ Shaped(a) /\ a.about \subseteq Things /\ Knows(a) /\ a.todo \in Seq(Move) /\ a.todo # <<>>
  <2>1. a \in Act /\ Shaped(a) /\ a.about \subseteq Things /\ Knows(a)
    BY <1>0, <1>1, <1>a, ActIs DEF Sided, AllKnow, Busy
  <2> QED
    BY <1>1, <2>1 DEF Shaped, Drawn, Ordering, Act
<1>3. /\ todo \in Seq(Move) /\ y \in a.about /\ a.todo[1].id = y /\ DOMAIN a.todo = 1..Len(a.todo) /\ Len(a.todo) \in Nat
      /\ DOMAIN todo = 1..(Len(a.todo) - 1) /\ \A i \in DOMAIN todo : todo[i] = a.todo[i + 1]
  <2>1. y \in a.about
    BY <1>0, <1>1, <1>a, OrderingIs
  <2> QED
    BY <1>2, <1>a, <2>1, TodoIs
<1>4. todo = <<>> => acts'[k] = None
  BY <1>0, <1>1, <1>3, <1>a, PlannedForm DEF ActOver, SidebarTypeOK
<1>5. todo # <<>> => \E b : acts'[k] = b /\ b # None /\ b.todo = todo /\ b.op = a.op /\ b.cat = a.cat /\ b.about = a.about /\ b.stage = "write"
  <2> SUFFICES ASSUME todo # <<>> PROVE \E b : acts'[k] = b /\ b # None /\ b.todo = todo /\ b.op = a.op /\ b.cat = a.cat
                                               /\ b.about = a.about /\ b.stage = "write"
    OBVIOUS
  <2>1. \E b \in Act : acts' = [acts EXCEPT ![k] = b] /\ b.todo = todo /\ b.op = a.op /\ b.cat = a.cat /\ b.about = a.about /\ b.stage = "write"
    <3>1. acts[k] # None /\ Planned(k, todo) /\ todo \in Seq(Move)
      BY <1>1, <1>3, <1>a
    <3>2. \E b \in Act : /\ acts' = [acts EXCEPT ![k] = b] /\ b.todo = todo /\ b.stage = "write"
                         /\ b.op = acts[k].op /\ b.x = acts[k].x /\ b.cat = acts[k].cat /\ b.ids = acts[k].ids
                         /\ b.mine = acts[k].mine /\ b.about = acts[k].about /\ b.place = acts[k].place
      BY <1>0, <3>1, PlannedForm
    <3> QED
      BY <1>a, <3>2
  <2> QED
    BY <1>0, <2>1, SidebarRecords DEF SidebarTypeOK
<1>6. \A x : Truth(x)' = Truth(x)
  BY <1>1 DEF Truth
<1>7. \A x, v : Fits(a, channels, categories, trail.torn, x, v) =>
        v = Truth(x) \/ (Touched(a, x) /\ (v = None <=> Truth(x) = None) /\ Homed(a, categories, trail.torn, x, v))
  BY <1>1 DEF Fits, Dragged, Truth, Ordering
<1>8. Tells({y}) /\ (y \in trail'.suspect \/ ~sidebar.open \/
                     ShownOf(y)' = (IF ShownOf(y) = None \/ Truth(y) = None THEN ShownOf(y) ELSE Truth(y))
                     \/ (ShownOf(y) # None /\ Truth(y) = None))
  <2>1. CASE a.op = "reorder"
    <3>1. y \in Chans
      BY <1>0, <1>1, <1>a, <2>1, OrderingIs
    <3>2. PICK row \in ChannelRow \cup {None} : row = channels[y]
      BY <1>0, <3>1 DEF SidebarTypeOK, Listed
    <3>3. PICK rws : rws = Patching(sidebar.shown, y, row) /\ rws \in Listed /\ (\A d \in Chans : d # y => rws[d] = sidebar.shown[d])
                     /\ rws[y] = IF sidebar.shown[y] = None \/ row = None THEN sidebar.shown[y] ELSE row
      BY <1>0, <3>1, <3>2, RowsShown
    <3>4. Tells({y}) /\ (y \in trail'.suspect \/ ~sidebar.open \/ ShownOf(y)' = rws[y])
      BY <1>0, <1>1, <3>1, <3>2, <3>3, RowTells
    <3>5. ShownOf(y) = sidebar.shown[y] /\ Truth(y) = (IF row # None /\ ~row.deleted THEN row ELSE None)
      BY <3>1, <3>2 DEF ShownOf, Truth, RowOf
    <3> QED
      BY <3>3, <3>4, <3>5
  <2>2. CASE a.op = "sortcats"
    <3>1. y \in Cats /\ y \notin Chans
      BY <1>0, <1>1, <1>a, <2>2, OrderingIs, SidebarBounds
    <3>2. PICK p \in Place \cup {None} : p = categories[y]
      BY <1>0, <3>1 DEF SidebarTypeOK, Headed
    <3>3. PICK heads : heads = Patching(sidebar.headings, y, p) /\ heads \in Headed
                     /\ (\A d \in Cats : d # y => heads[d] = sidebar.headings[d])
                     /\ heads[y] = IF sidebar.headings[y] = None \/ p = None THEN sidebar.headings[y] ELSE p
      <4>1. sidebar.headings \in Headed
        BY <1>0, ListsAre
      <4> QED
        BY <1>0, <3>1, <3>2, <4>1, HeadsShown
    <3>4. Tells({y}) /\ (y \in trail'.suspect \/ ~sidebar.open \/ ShownOf(y)' = heads[y])
      <4>1. {y} \in SUBSET Cats /\ trail \in Trail /\ \A d \in Cats \ {y} : heads[d] = sidebar.headings[d]
        BY <1>0, <3>1, <3>3 DEF SidebarTypeOK
      <4>2. EmitServer(WithHeadings(heads), {y}, trail)
        BY <1>1, <3>1, <3>2, <3>3
      <4> QED
        BY <1>0, <3>3, <4>1, <4>2, HeadTells
    <3>5. ShownOf(y) = sidebar.headings[y] /\ Truth(y) = p
      BY <3>1, <3>2 DEF ShownOf, Truth, RowOf
    <3> QED
      BY <3>3, <3>4, <3>5
  <2> QED
    BY <1>1, <2>1, <2>2 DEF Ordering
<1>9. ASSUME NEW x \in a.about, x # y, NEW v, Fits(a, channels, categories, trail.torn, x, v) PROVE Carried(k, x, v)
  <2>1. CASE v = Truth(x)
    BY <1>6, <2>1, CarriedTrue
  <2>2. CASE Touched(a, x) /\ (v = None <=> Truth(x) = None) /\ Homed(a, categories, trail.torn, x, v)
    <3>1. PICK i \in DOMAIN a.todo : a.todo[i].id = x
      BY <1>1, <2>2 DEF Touched, Named, Ordering
    <3>2. i # 1 /\ i \in 1..Len(a.todo)
      BY <1>3, <1>9, <3>1
    <3>3. i - 1 \in DOMAIN todo /\ todo[i - 1] = a.todo[i]
      BY <1>3, <3>2
    <3>4. Named(todo, x) /\ todo # <<>>
      BY <3>1, <3>3 DEF Named
    <3>5. PICK b : acts'[k] = b /\ b # None /\ b.todo = todo /\ b.op = a.op /\ b.about = a.about
      BY <1>5, <3>4
    <3>6. Touched(b, x)
      BY <1>1, <3>4, <3>5 DEF Touched
    <3>7. Homed(b, categories', trail'.torn, x, v)
      BY <1>0, <1>1, <2>2, <3>5 DEF Homed, TrailGrows
    <3> QED
      BY <1>6, <2>2, <3>5, <3>6, <3>7 DEF Carried, Fits, Truth
  <2> QED
    BY <1>7, <1>9, <2>1, <2>2
<1>10. ASSUME y \notin trail'.suspect, sidebar.open, NEW v, NEW w, v = ShownOf(y), w = ShownOf(y)',
              Fits(a, channels, categories, trail.torn, y, v)
       PROVE  Carried(k, y, w)
  <2>1. v = None <=> Truth(y) = None
    BY <1>7, <1>10
  <2>2. w = Truth(y)
    BY <1>8, <1>10, <2>1
  <2> QED
    BY <1>6, <2>2, CarriedTrue
<1>11. Carries(k, {y})
  BY <1>9, <1>10, <1>a DEF Carries
<1>12. Owing(k, {y})
  <2>1. \A x : x # y => ~Owes(a, x)
    BY <1>1, <1>a DEF Owes, Ordering
  <2> QED
    BY <1>6, <1>a, <2>1 DEF Owing
<1>13. Faring(k)
  BY <1>3, <1>8, <1>11, <1>12, <1>a DEF Faring
<1>14. HomesFrom(k) /\ HomesOn(k)
  BY <1>0, <1>1, HomesSame
<1>15. ClashesOn(k)
  BY <1>0, <1>1, <1>4, <1>5, <1>a, ClashesSame
<1>16. ASSUME NEW b, b.op = a.op, b.cat = a.cat, b.about = a.about, b.stage = "write" PROVE Knows(b)'
  <2>1. Leaves(b)' /\ Arrives(b)'
    BY <1>0, <1>1, <1>2, <1>16 DEF Knows, Leaves, Arrives, TrailGrows
  <2> QED
    BY <1>1, <1>16, <2>1 DEF Knows, Vacant, Buried, Raised, Reread, Copied, Empties, Ordering
<1>17. KnowsOn(k)
  <2>1. CASE todo = <<>>
    BY <1>4, <2>1 DEF KnowsOn
  <2>2. CASE todo # <<>>
    <3>1. PICK b : acts'[k] = b /\ b.op = a.op /\ b.cat = a.cat /\ b.about = a.about /\ b.stage = "write"
      BY <1>5, <2>2
    <3>2. Knows(b)'
      BY <1>16, <3>1
    <3> QED
      BY <3>1, <3>2 DEF KnowsOn, Knows, Vacant, Buried, Raised, Reread, Copied, Leaves, Arrives, Empties
  <2> QED
    BY <2>1, <2>2
<1> QED
  BY <1>13, <1>14, <1>15, <1>17 DEF Fared

LEMMA StepFares ==
  ASSUME SideInv, Sided, NEW k \in Acts, ActStep(k) PROVE acts[k] # None /\ Stepping(k) /\ Fared(k)
<1>1. acts[k] # None /\ Stepping(k)
  BY StepIs DEF SideInv, ActStep
<1> QED
  BY <1>1, InsertChannelFares, PurgeChannelFares, WriteChannelFares, ReadChannelAgainFares, DropChannelFares,
     ListForMovesFares, WriteMoveFares, TellMoveFares, InsertCategoryFares, ListChildrenFares, FreeChildFares,
     DropCategoryFares, SwapReadsOtherFares, SwapWritesFares, SwapReadsAgainFares, SwapTellsFares, ActThrowsFares
     DEF ActStep

-----------------------------------------------------------------------------
(* A request begins, and a drag of ours shows what it comes to.            *)
LEMMA Unwritten ==
  ASSUME SidebarTypeOK, UNCHANGED <<channels, categories>>
  PROVE  /\ Writes({})
         /\ \A c \in Existing(channels') : LET g == channels'[c].cat IN
              g = None \/ (channels[c] # None /\ channels[c].cat = g) \/ g \in {}
         /\ \A x : Truth(x)' = Truth(x)
BY DEF SidebarTypeOK, Writes, Existing, Truth

LEMMA BegunKnows ==
  ASSUME SidebarTypeOK, NEW a, Begun(a), UNCHANGED <<channels, categories>>,
         a.cat # None /\ categories[a.cat] = None => a.about \cap Chans \subseteq trail'.torn
  PROVE  Knows(a)'
<1>1. a \in Act /\ Shaped(a) /\ a.todo = <<>>
  BY DEF Begun
<1>2. Vacant(a)'
  <2>1. a.op = "create" => a.x \in Chans
    BY <1>1 DEF Shaped
  <2>2. a.op = "addcat" => a.x \notin Chans
    BY <1>1, SidebarBounds DEF Shaped
  <2> QED
    BY <2>1, <2>2 DEF Vacant, Begun
<1>3. Buried(a)'
  BY <1>1 DEF Buried, Begun, Truth, RowOf, Shaped
<1>4. Raised(a)' /\ Reread(a)' /\ Empties(a)'
  BY DEF Raised, Reread, Empties, Begun
<1>5. Copied(a)'
  BY <1>1 DEF Copied
<1>6. Leaves(a)'
  BY DEF Leaves, Begun
<1>7. Arrives(a)'
  BY DEF Arrives, Begun
<1> QED
  BY <1>2, <1>3, <1>4, <1>5, <1>6, <1>7 DEF Knows

(* Begins as request k: what BeginTypes says of it.                        *)
Joins(k, a, more) ==
  /\ acts[k] = None /\ acts' = [acts EXCEPT ![k] = a] /\ TrailGrows(trail, trail')
  /\ trail'.suspect = trail.suspect \cup Clashing(k, a.about) \cup more
  /\ Clashing(k, a.about) \subseteq trail'.torn
  /\ UNCHANGED <<channels, categories, loads>>

LEMMA JoinsAre ==
  ASSUME SideInv, NEW k \in Acts, NEW a, Begun(a), NEW more, Joins(k, a, more)
  PROVE  /\ acts'[k] = a /\ k \in Busy' /\ k \notin Busy /\ a.about \subseteq Things
         /\ \A j \in Acts \ {k} : acts'[j] = acts[j] /\ (j \in Busy' <=> j \in Busy)
         /\ \A j \in Busy : acts[j].about \cap a.about # {} =>
              acts[j].about \cup a.about \subseteq trail'.suspect \cap trail'.torn
<1>1. SidebarTypeOK /\ a \in Act /\ a # None /\ a.about \subseteq Things
  BY SidebarRecords DEF SideInv, Begun, Act
<1>2. \A j \in Busy : j # k /\ acts[j].about \cap a.about # {} => acts[j].about \cup a.about \subseteq Clashing(k, a.about)
  BY <1>1, ClashingIs
<1>3. acts'[k] = a /\ k \in Busy' /\ k \notin Busy
  BY <1>1 DEF Joins, Busy, SidebarTypeOK
<1>4. \A j \in Acts \ {k} : acts'[j] = acts[j] /\ (j \in Busy' <=> j \in Busy)
  BY <1>1 DEF Joins, Busy, SidebarTypeOK
<1> QED
  BY <1>1, <1>2, <1>3, <1>4 DEF Joins

LEMMA BeginRight ==
  ASSUME SideInv, Clashes, NEW k \in Acts, NEW a, Begun(a), NEW more, Joins(k, a, more),
         NEW x \in Things, x \notin trail'.suspect, NEW v, NEW w, Right(x, v),
         w = v \/ (Dragged(a, x) /\ Truth(x) # None /\ w = Target(a, channels, categories, x))
  PROVE  Right(x, w)'
<1>0. /\ SidebarTypeOK /\ AllShaped /\ trail.suspect \subseteq trail'.suspect /\ TrailGrows(trail, trail')
      /\ UNCHANGED <<channels, categories>> /\ a \in Act /\ Shaped(a)
  BY DEF SideInv, Joins, TrailGrows, Begun
<1>1. ASSUME x \in a.about PROVE v = Truth(x)
  <2>1. \A j \in Busy : x \notin acts[j].about
    BY <1>1, JoinsAre
  <2> QED
    BY <2>1 DEF Right
<1>2. Dragged(a, x) => x \in a.about
  BY <1>0 DEF Dragged, Shaped, Drawn, Ordering
<1>3. Truth(x)' = Truth(x)
  BY <1>0, Unwritten
<1>4. ASSUME NEW i \in Busy', x \in acts'[i].about
      PROVE  Fits(acts'[i], channels', categories', trail'.torn, x, w)
  <2>1. CASE i = k
    <3>1. acts'[i] = a /\ x \in a.about /\ v = Truth(x)
      BY <1>1, <1>4, <2>1, JoinsAre
    <3> QED
      BY <1>0, <3>1 DEF Fits, Truth
  <2>2. CASE i # k
    <3>1. i \in Acts /\ acts'[i] = acts[i] /\ i \in Busy /\ acts[i] # None
      BY <2>2, JoinsAre DEF Busy
    <3>2. x \notin a.about /\ w = v
      BY <1>2, <1>4, <3>1, JoinsAre
    <3>3. acts[i] \in Act /\ Shaped(acts[i]) /\ x \in acts[i].about
      BY <1>0, <1>4, <3>1, ActIs
    <3>4. Fits(acts[i], channels, categories, trail.torn, x, w)
      BY <3>1, <3>2, <3>3 DEF Right
    <3>5. Writes({}) /\ {} \cap acts[i].about = {}
      BY <1>0, Unwritten
    <3> QED
      BY <1>0, <3>1, <3>3, <3>4, <3>5, FitsCalm
  <2> QED
    BY <2>1, <2>2
<1>5. ASSUME \A i \in Busy' : x \notin acts'[i].about PROVE w = Truth(x)'
  <2>1. x \notin a.about
    BY <1>5, JoinsAre
  <2>2. \A i \in Busy : x \notin acts[i].about
    <3>1. \A i \in Busy : i \in Acts \ {k}
      BY JoinsAre DEF Busy
    <3> QED
      BY <1>5, <3>1, JoinsAre
  <2> QED
    BY <1>2, <1>3, <2>1, <2>2 DEF Right
<1> QED
  BY <1>4, <1>5 DEF Right

LEMMA BeginSided ==
  ASSUME SideInv, Sided, NEW k \in Acts, NEW a, Begun(a), NEW more, Joins(k, a, more),
         a.cat # None /\ categories[a.cat] = None => a.about \cap Chans \subseteq trail'.torn
  PROVE  Sided'
<1>0. /\ SidebarTypeOK /\ AllShaped /\ trail.suspect \subseteq trail'.suspect /\ trail.torn \subseteq trail'.torn
      /\ UNCHANGED <<channels, categories, loads>> /\ Clashes /\ AllKnow /\ HomesStand /\ PagesRight
      /\ TrailGrows(trail, trail')
  BY DEF SideInv, Joins, TrailGrows, Sided
<1>1. Clashes'
  <2> SUFFICES ASSUME NEW i \in Busy', NEW j \in Busy', i # j, acts'[i].about \cap acts'[j].about # {}
               PROVE  acts'[i].about \cup acts'[j].about \subseteq trail'.suspect \cap trail'.torn
    BY DEF Clashes
  <2>1. i \in Acts /\ j \in Acts
    BY DEF Busy
  <2>2. CASE i # k /\ j # k
    BY <1>0, <2>1, <2>2, JoinsAre DEF Clashes
  <2>3. CASE i = k
    BY <2>1, <2>3, JoinsAre
  <2>4. CASE j = k
    <3>1. acts'[i] = acts[i] /\ i \in Busy /\ acts'[j] = a
      BY <2>1, <2>4, JoinsAre
    <3>2. acts[i].about \cap a.about # {}
      BY <3>1
    <3> QED
      BY <3>1, <3>2, JoinsAre
  <2> QED
    BY <2>2, <2>3, <2>4
<1>2. AllKnow'
  <2> SUFFICES ASSUME NEW j \in Busy', NEW b, b = acts'[j] PROVE Knows(b)'
    BY DEF AllKnow, Knows, Vacant, Buried, Raised, Reread, Copied, Leaves, Arrives, Empties
  <2>1. CASE j = k
    <3>1. b = a
      BY <2>1, JoinsAre
    <3> QED
      BY <1>0, <3>1, BegunKnows
  <2>2. CASE j # k
    <3>1. j \in Acts /\ j \in Busy /\ b = acts[j] /\ acts[j] # None
      BY <2>2, JoinsAre DEF Busy
    <3>2. b \in Act /\ Shaped(b) /\ Knows(b)
      BY <1>0, <3>1, ActIs DEF AllKnow
    <3>3. Writes({}) /\ {} \in SUBSET Things /\ {} \cap b.about = {} /\
          \A c \in Existing(channels') : LET g == channels'[c].cat IN
              g = None \/ (channels[c] # None /\ channels[c].cat = g) \/ g \in {}
      BY <1>0, Unwritten
    <3> QED
      BY <1>0, <3>2, <3>3, KnowsCalm
  <2> QED
    BY <2>1, <2>2
<1>3. HomesStand'
  BY <1>0 DEF HomesStand
<1>4. PagesRight'
  <2> SUFFICES ASSUME NEW l \in Loads, NEW x \in Things, Has(l, x)', x \notin loads'[l].stale
               PROVE  Current(x, PageAt(l, x))' /\ (x \notin trail'.suspect => Right(x, PageAt(l, x))')
    BY DEF PagesRight
  <2>1. PICK v : v = PageAt(l, x) /\ v = PageAt(l, x)' /\ Has(l, x) /\ x \notin loads[l].stale
    BY <1>0 DEF PageAt, Has
  <2>2. Current(x, v) /\ (x \notin trail.suspect => Right(x, v))
    BY <1>0, <2>1 DEF PagesRight
  <2>3. Current(x, v)'
    <3>1. CASE v = Truth(x)
      BY <1>0, <3>1, Unwritten DEF Current
    <3>2. ASSUME NEW j \in Busy, Owes(acts[j], x) PROVE Current(x, v)'
      <4>1. j \in Acts \ {k}
        BY JoinsAre DEF Busy
      <4>2. acts'[j] = acts[j] /\ j \in Busy'
        BY <4>1, JoinsAre
      <4> QED
        BY <3>2, <4>2 DEF Current
    <3> QED
      BY <2>2, <3>1, <3>2 DEF Current
  <2>4. ASSUME x \notin trail'.suspect PROVE Right(x, v)'
    BY <1>0, <2>2, <2>4, BeginRight
  <2> QED
    BY <2>1, <2>3, <2>4 DEF Current, Right
<1> QED
  BY <1>1, <1>2, <1>3, <1>4 DEF Sided

LEMMA DragShows ==
  ASSUME SideInv, Sided, AllRight, NEW k \in Acts, NEW a, Begun(a), NEW more, Dragging(a, more), Joins(k, a, more),
         NEW x \in Things, x \notin trail'.suspect
  PROVE  IF x \in ToSet(a.ids) THEN Dragged(a, x) /\ Truth(x) # None /\ ShownOf(x)' = Target(a, channels, categories, x)
         ELSE ShownOf(x)' = ShownOf(x)
<1>0. SidebarTypeOK /\ a.op \in Ordering /\ a.mine /\ trail.suspect \subseteq trail'.suspect
  BY DEF SideInv, Dragging, Joins, TrailGrows
<1>1. /\ ToSet(a.ids) \subseteq a.about /\ a.cat \in Cats \cup {None} /\ a.stage = "list"
      /\ a.op = "reorder" => sidebar'.headings = sidebar.headings /\ a.ids \in Seq(Chans)
                             /\ sidebar'.shown = Reordered(sidebar.shown, a.ids, a.cat)
      /\ a.op = "sortcats" => sidebar'.shown = sidebar.shown /\ a.ids \in Seq(Cats)
                              /\ sidebar'.headings = Resorted(sidebar.headings, a.ids)
  BY <1>0, DraggingIs
<1>2. ASSUME x \in ToSet(a.ids), NEW y \in ToSet(a.ids) PROVE ShownOf(y) = Truth(y)
  <2>1. a.about \cap trail.suspect = {}
    BY <1>1, <1>2 DEF Dragging, Joins
  <2>2. y \in Things /\ y \notin trail.suspect /\ y \in a.about
    BY <1>1, <1>2, <2>1, JoinsAre
  <2>3. \A j \in Busy : y \notin acts[j].about
    BY <1>1, <1>2, <2>2, JoinsAre
  <2> QED
    BY <2>2, <2>3 DEF AllRight, Right
<1>3. CASE a.op = "reorder"
  <2>1. /\ a.ids \in Seq(Chans) /\ sidebar.shown \in Listed /\ ToSet(a.ids) \subseteq Existing(sidebar.shown)
        /\ sidebar'.shown = Reordered(sidebar.shown, a.ids, a.cat) /\ sidebar'.headings = sidebar.headings
    BY <1>0, <1>1, <1>3, ListsAre DEF Dragging
  <2>2. \A c \in Chans : IF c \in ToSet(a.ids)
              THEN sidebar'.shown[c] = [sidebar.shown[c] EXCEPT !.place = Dealt(sidebar.shown, a.ids)[IndexIn(a.ids, c)], !.cat = a.cat]
              ELSE sidebar'.shown[c] = sidebar.shown[c]
    <3>1. PICK rws, ids, cat : rws = sidebar.shown /\ ids = a.ids /\ cat = a.cat
      OBVIOUS
    <3>2. rws \in Listed /\ ids \in Seq(Chans) /\ ToSet(ids) \subseteq Existing(rws) /\ cat \in Cats \cup {None}
      BY <1>1, <2>1, <3>1
    <3>3. \A c \in Chans : IF c \in ToSet(ids)
            THEN Reordered(rws, ids, cat)[c] = [rws[c] EXCEPT !.place = Dealt(rws, ids)[IndexIn(ids, c)], !.cat = cat]
            ELSE Reordered(rws, ids, cat)[c] = rws[c]
      <4>1. \A c \in Chans : IF c \in ToSet(ids)
              THEN /\ Reordered(rws, ids, cat)[c] = [rws[c] EXCEPT !.place = Dealt(rws, ids)[IndexIn(ids, c)], !.cat = cat]
                   /\ Reordered(rws, ids, cat)[c] \in ChannelRow
              ELSE Reordered(rws, ids, cat)[c] = rws[c]
        BY ONLY <1>0, <3>2, ReorderedIs
      <4> QED
        BY ONLY <4>1, Zenon
    <3> QED
      BY <2>1, <3>1, <3>3, Zenon
  <2>3. CASE x \in ToSet(a.ids)
    <3>1. \A y \in ToSet(a.ids) : y \in Chans /\ sidebar.shown[y] # None /\ sidebar.shown[y] = channels[y]
      <4>1. \A y \in ToSet(a.ids) : y \in Chans /\ sidebar.shown[y] # None
        BY <1>0, <2>1, ListsAre DEF Existing
      <4> QED
        BY <1>2, <2>3, <4>1 DEF ShownOf, Truth, RowOf
    <3>2. \A i \in DOMAIN a.ids : PlaceIn(sidebar.shown, a.ids[i]) = PlaceIn(channels, a.ids[i])
      BY <3>1 DEF ToSet, PlaceIn
    <3>3. Dealt(sidebar.shown, a.ids) = Dealt(channels, a.ids)
      BY <3>2, DealtAlike
    <3>4. Dragged(a, x) /\ Truth(x) # None
      BY <1>0, <1>1, <1>2, <2>3, <3>1 DEF Dragged, ShownOf
    <3> QED
      BY <2>2, <2>3, <3>1, <3>3, <3>4 DEF Target, ShownOf
  <2> QED
    BY <2>1, <2>2, <2>3 DEF ShownOf
<1>4. CASE a.op = "sortcats"
  <2>1. /\ a.ids \in Seq(Cats) /\ sidebar.headings \in Headed /\ ToSet(a.ids) \subseteq Existing(sidebar.headings)
        /\ sidebar'.headings = Resorted(sidebar.headings, a.ids) /\ sidebar'.shown = sidebar.shown
    BY <1>0, <1>1, <1>4, ListsAre DEF Dragging
  <2>2. \A g \in Cats : IF g \in ToSet(a.ids) THEN sidebar'.headings[g] = Dealt(sidebar.headings, a.ids)[IndexIn(a.ids, g)]
                        ELSE sidebar'.headings[g] = sidebar.headings[g]
    BY <1>0, <2>1, ResortedIs
  <2>3. CASE x \in ToSet(a.ids)
    <3>1. \A y \in ToSet(a.ids) : y \in Cats /\ y \notin Chans /\ sidebar.headings[y] # None /\ sidebar.headings[y] = categories[y]
      <4>1. \A y \in ToSet(a.ids) : y \in Cats /\ y \notin Chans /\ sidebar.headings[y] # None
        BY <1>0, <2>1, ListsAre, SidebarBounds DEF Existing
      <4> QED
        BY <1>2, <2>3, <4>1 DEF ShownOf, Truth, RowOf
    <3>2. \A i \in DOMAIN a.ids : PlaceIn(sidebar.headings, a.ids[i]) = PlaceIn(categories, a.ids[i])
      BY <3>1 DEF ToSet, PlaceIn
    <3>3. Dealt(sidebar.headings, a.ids) = Dealt(categories, a.ids)
      BY <3>2, DealtAlike
    <3>4. Dragged(a, x) /\ Truth(x) # None
      BY <1>0, <1>1, <1>2, <2>3, <3>1 DEF Dragged, ShownOf
    <3> QED
      BY <2>2, <2>3, <3>1, <3>3, <3>4 DEF Target, ShownOf
  <2> QED
    BY <2>1, <2>2, <2>3 DEF ShownOf, Things
<1> QED
  BY <1>0, <1>3, <1>4 DEF Ordering

LEMMA BeginKeeps ==
  ASSUME SideInv, Sided, NEW k \in Acts, Beginning(k) PROVE Sided' /\ (AllRight => AllRight')
<1>1. PICK a, more : /\ Begun(a) /\ more \in SUBSET Things /\ Starts(k, a, more)
                     /\ (sidebar' = sidebar /\ ~a.mine) \/ Dragging(a, more)
  BY DEF Beginning
<1>2. UNCHANGED <<channels, categories, loads>>
  BY DEF Beginning
<1>3. a \in Act /\ Shaped(a) /\ SidebarTypeOK /\ AllShaped /\ Clashes
  BY <1>1 DEF Begun, SideInv, Sided
<1>4. Joins(k, a, more) /\ (a.cat # None /\ categories[a.cat] = None => a.about \cap Chans \subseteq trail'.torn)
  BY <1>1, <1>2, <1>3, BeginTypes DEF Joins, TrailGrows
<1>5. ASSUME AllRight PROVE AllRight'
  <2> SUFFICES ASSUME NEW x \in Things, x \notin trail'.suspect PROVE Right(x, ShownOf(x))'
    BY DEF AllRight
  <2>1. PICK v, w : v = ShownOf(x) /\ w = ShownOf(x)'
    OBVIOUS
  <2>2. Right(x, v)
    BY <1>4, <1>5, <2>1 DEF AllRight, Joins, TrailGrows
  <2>3. w = v \/ (Dragged(a, x) /\ Truth(x) # None /\ w = Target(a, channels, categories, x))
    <3>1. CASE sidebar' = sidebar
      BY <2>1, <3>1 DEF ShownOf
    <3>2. CASE Dragging(a, more)
      BY <1>1, <1>4, <1>5, <2>1, <3>2, DragShows
    <3> QED
      BY <1>1, <3>1, <3>2
  <2>4. Right(x, w)'
    BY <1>1, <1>3, <1>4, <2>2, <2>3, BeginRight
  <2> QED
    BY <2>1, <2>4 DEF Right
<1> QED
  BY <1>1, <1>3, <1>4, <1>5, BeginSided

-----------------------------------------------------------------------------
(* The loads, and what of the sidebar they make good.                      *)
ShownInv == sidebar.open => AllRight \/ sidebar.due \/ \E l \in Loads : loads[l] # None

LEMMA TruthRight == ASSUME NEW x, NEW v, v = Truth(x) PROVE Right(x, v) /\ Current(x, v)
BY DEF Right, Fits, Current, Truth

LEMMA SameRight ==
  ASSUME UNCHANGED <<channels, categories, acts>>, trail'.torn = trail.torn, NEW x, NEW v
  PROVE  (Right(x, v)' <=> Right(x, v)) /\ (Current(x, v)' <=> Current(x, v))
BY DEF Right, Current, Truth, Busy

LEMMA SameKnows ==
  ASSUME SideInv, Clashes, AllKnow, HomesStand, UNCHANGED <<channels, categories, acts>>, trail'.torn = trail.torn,
         trail.suspect \cap InWork \subseteq trail'.suspect
  PROVE  Clashes' /\ AllKnow' /\ HomesStand'
<1>0. SidebarTypeOK /\ AllShaped /\ Busy' = Busy /\ \A k \in Busy : k \in Acts /\ acts[k] # None
  BY DEF SideInv, Busy
<1>1. \A k \in Busy : acts[k].about \cap trail.suspect \subseteq trail'.suspect
  BY DEF InWork
<1>2. Clashes'
  <2> SUFFICES ASSUME NEW j \in Busy, NEW k \in Busy, j # k, acts[j].about \cap acts[k].about # {}
               PROVE  acts[j].about \cup acts[k].about \subseteq trail'.suspect \cap trail'.torn
    BY <1>0 DEF Clashes
  <2>1. acts[j].about \cup acts[k].about \subseteq trail.suspect \cap trail.torn
    BY DEF Clashes
  <2> QED
    BY <1>1, <2>1
<1>3. ASSUME NEW a \in Act, Shaped(a), Knows(a), a.about \cap trail.suspect \subseteq trail'.suspect PROVE Knows(a)'
  <2>1. a.op \in {"create", "restore", "harddelete", "addcat"} => a.x \in a.about
    BY <1>3 DEF Shaped
  <2>2. a.op = "swap" => a.ids[1] \in a.about
    BY <1>3 DEF Shaped, Exchanged
  <2>3. a.op = "dropcat" => \A i \in DOMAIN a.todo : a.todo[i].id \in a.about
    BY <1>3 DEF Shaped, Freeing
  <2>4. Vacant(a)' /\ Buried(a)' /\ Raised(a)'
    BY <1>3, <2>1 DEF Knows, Vacant, Buried, Raised, Truth
  <2>5. Reread(a)' /\ Copied(a)' /\ Leaves(a)'
    BY <1>3, <2>2, <2>3 DEF Knows, Reread, Copied, Leaves
  <2>6. Arrives(a)' /\ Empties(a)'
    BY <1>3 DEF Knows, Arrives, Empties
  <2> QED
    BY <2>4, <2>5, <2>6 DEF Knows
<1>4. AllKnow'
  <2> SUFFICES ASSUME NEW k \in Busy, NEW b, b = acts[k] PROVE Knows(b)'
    BY <1>0 DEF AllKnow, Knows, Vacant, Buried, Raised, Reread, Copied, Leaves, Arrives, Empties
  <2>1. b \in Act /\ Shaped(b)
    BY <1>0, ActIs
  <2>2. Knows(b)
    BY DEF AllKnow
  <2> QED
    BY <1>1, <1>3, <2>1, <2>2
<1>5. HomesStand'
  BY DEF HomesStand
<1> QED
  BY <1>2, <1>4, <1>5

(* What was read is right where it is not out of date and nobody is in     *)
(* doubt about it: once a request is over, its thing is as it was told.    *)
LEMMA PageRight ==
  ASSUME SideInv, PagesRight, NEW l \in Loads, NEW x \in Things, Has(l, x), x \notin loads[l].stale,
         x \notin trail.suspect \cap InWork
  PROVE  Right(x, PageAt(l, x))
<1>1. Current(x, PageAt(l, x)) /\ (x \notin trail.suspect => Right(x, PageAt(l, x)))
  BY DEF PagesRight
<1>2. CASE x \notin InWork
  <2>1. ASSUME NEW k \in Busy, Owes(acts[k], x) PROVE FALSE
    <3>1. acts[k] \in Act /\ Shaped(acts[k])
      BY ActIs DEF SideInv, Busy
    <3>2. x \in acts[k].about
      BY <2>1, <3>1, OwesAbout
    <3> QED
      BY <1>2, <3>2 DEF InWork
  <2> QED
    BY <1>1, <2>1, TruthRight DEF Current
<1> QED
  BY <1>1, <1>2

LEMMA OpenKeeps ==
  ASSUME SideInv, Sided, NEW l \in Loads, OpenServer(l) \/ Refresh(l) PROVE Sided' /\ ShownInv'
<1>1. /\ UNCHANGED <<channels, categories, acts>> /\ trail'.suspect = trail.suspect /\ trail'.torn = trail.torn
      /\ loads'[l] # None /\ loads'[l].chans = None /\ loads'[l].cats = None
      /\ \A m \in Loads \ {l} : loads'[m] = loads[m]
  BY OpensIs DEF SideInv
<1>2. Clashes' /\ AllKnow' /\ HomesStand'
  BY <1>1, SameKnows DEF Sided
<1>3. PagesRight'
  <2> SUFFICES ASSUME NEW m \in Loads, NEW x \in Things, Has(m, x)', x \notin loads'[m].stale
               PROVE  Current(x, PageAt(m, x))' /\ (x \notin trail'.suspect => Right(x, PageAt(m, x))')
    BY DEF PagesRight
  <2>1. m # l
    BY <1>1 DEF Has
  <2>2. PICK v : v = PageAt(m, x) /\ v = PageAt(m, x)' /\ Has(m, x) /\ x \notin loads[m].stale
    BY <1>1, <2>1 DEF Has, PageAt
  <2>3. Current(x, v) /\ (x \notin trail.suspect => Right(x, v))
    BY <2>2 DEF Sided, PagesRight
  <2>4. Current(x, v)' /\ (x \notin trail'.suspect => Right(x, v)')
    BY <1>1, <2>3, SameRight
  <2> QED
    BY <2>2, <2>4 DEF Current, Right
<1> QED
  BY <1>1, <1>2, <1>3 DEF Sided, ShownInv

LEMMA ReadKeeps ==
  ASSUME SideInv, Sided, NEW l \in Loads, ReadChannels(l) \/ ReadCategories(l) PROVE Sided' /\ ShownInv'
<1>1. /\ UNCHANGED <<channels, categories, acts, trail>>
      /\ loads[l] # None /\ loads'[l] # None /\ loads'[l].stale = loads[l].stale
      /\ \A m \in Loads \ {l} : loads'[m] = loads[m]
      /\ \/ loads[l].chans = None /\ loads'[l].chans = LiveRows /\ loads'[l].cats = loads[l].cats
         \/ loads[l].cats = None /\ loads'[l].cats = categories /\ loads'[l].chans = loads[l].chans
  BY ReadsIs DEF SideInv
<1>2. Clashes' /\ AllKnow' /\ HomesStand'
  BY <1>1, SameKnows DEF Sided
<1>3. PagesRight'
  <2> SUFFICES ASSUME NEW m \in Loads, NEW x \in Things, Has(m, x)', x \notin loads'[m].stale
               PROVE  Current(x, PageAt(m, x))' /\ (x \notin trail'.suspect => Right(x, PageAt(m, x))')
    BY DEF PagesRight
  <2>1. PICK v : v = PageAt(m, x)'
    OBVIOUS
  <2>2. v = Truth(x) \/ (v = PageAt(m, x) /\ Has(m, x) /\ x \notin loads[m].stale)
    <3>1. CASE m # l
      BY <1>1, <2>1, <3>1 DEF Has, PageAt
    <3>2. CASE m = l /\ x \in Chans
      <4>1. Truth(x) = LiveRows[x]
        BY <3>2 DEF Truth, RowOf, LiveRows, Live
      <4> QED
        BY <1>1, <2>1, <3>2, <4>1 DEF Has, PageAt
    <3>3. CASE m = l /\ x \notin Chans
      <4>1. Truth(x) = categories[x]
        BY <3>3 DEF Truth, RowOf
      <4> QED
        BY <1>1, <2>1, <3>3, <4>1 DEF Has, PageAt
    <3> QED
      BY <3>1, <3>2, <3>3
  <2>3. Current(x, v) /\ (x \notin trail.suspect => Right(x, v))
    BY <2>2, TruthRight DEF Sided, PagesRight
  <2>4. Current(x, v)' /\ (x \notin trail'.suspect => Right(x, v)')
    BY <1>1, <2>3, SameRight
  <2> QED
    BY <2>1, <2>4 DEF Current, Right
<1> QED
  BY <1>1, <1>2, <1>3 DEF Sided, ShownInv

LEMMA ReplaceKeeps ==
  ASSUME SideInv, Sided, NEW l \in Loads, ListsReplaced(l) PROVE Sided' /\ AllRight' /\ ShownInv'
<1>1. /\ UNCHANGED <<channels, categories, acts>> /\ trail'.torn = trail.torn
      /\ loads[l] # None /\ loads[l].chans \in Listed /\ loads[l].cats \in Headed
      /\ sidebar'.shown = loads[l].chans /\ sidebar'.headings = loads[l].cats
      /\ loads'[l] = None /\ \A m \in Loads \ {l} : loads'[m] = loads[m]
      /\ trail'.suspect = loads[l].stale \cup (trail.suspect \cap InWork)
  BY ReplacedIs DEF SideInv
<1>2. Clashes' /\ AllKnow' /\ HomesStand'
  BY <1>1, SameKnows DEF Sided
<1>3. PagesRight'
  <2> SUFFICES ASSUME NEW m \in Loads, NEW x \in Things, Has(m, x)', x \notin loads'[m].stale
               PROVE  Current(x, PageAt(m, x))' /\ (x \notin trail'.suspect => Right(x, PageAt(m, x))')
    BY DEF PagesRight
  <2>1. m # l
    BY <1>1 DEF Has
  <2>2. PICK v : v = PageAt(m, x) /\ v = PageAt(m, x)' /\ Has(m, x) /\ x \notin loads[m].stale
    BY <1>1, <2>1 DEF Has, PageAt
  <2>3. Current(x, v) /\ (x \notin trail'.suspect => Right(x, v))
    BY <1>1, <2>2, PageRight DEF Sided, PagesRight
  <2>4. Current(x, v)' /\ (x \notin trail'.suspect => Right(x, v)')
    BY <1>1, <2>3, SameRight
  <2> QED
    BY <2>2, <2>4 DEF Current, Right
<1>4. AllRight'
  <2> SUFFICES ASSUME NEW x \in Things, x \notin trail'.suspect PROVE Right(x, ShownOf(x))'
    BY DEF AllRight
  <2>1. PICK v : v = PageAt(l, x) /\ v = ShownOf(x)'
    BY <1>1 DEF PageAt, ShownOf
  <2>2. Has(l, x)
    BY <1>1, SidebarRecords DEF Has, Listed, Headed
  <2>3. Right(x, v)
    BY <1>1, <2>1, <2>2, PageRight DEF Sided
  <2>4. Right(x, v)'
    BY <1>1, <2>3, SameRight
  <2> QED
    BY <2>1, <2>4 DEF Right
<1> QED
  BY <1>2, <1>3, <1>4 DEF Sided, ShownInv

LEMMA ThrowKeeps ==
  ASSUME SideInv, Sided, NEW l \in Loads, LoadThrows(l) PROVE Sided' /\ AllRight' /\ ShownInv'
<1>1. /\ UNCHANGED <<channels, categories, acts>> /\ trail'.torn = trail.torn /\ trail'.suspect = Things
      /\ loads[l] # None /\ \A m \in Loads \ {l} : loads'[m] = loads[m]
      /\ \/ loads'[l] = None
         \/ loads'[l].chans = loads[l].chans /\ loads'[l].stale = loads[l].stale \cup Cats
  BY ThrowsIs DEF SideInv
<1>2. trail.suspect \subseteq Things
  BY DEF SideInv, SidebarTypeOK, Trail
<1>3. Clashes' /\ AllKnow' /\ HomesStand'
  BY <1>1, <1>2, SameKnows DEF Sided
<1>4. PagesRight'
  <2> SUFFICES ASSUME NEW m \in Loads, NEW x \in Things, Has(m, x)', x \notin loads'[m].stale
               PROVE  Current(x, PageAt(m, x))'
    BY <1>1 DEF PagesRight
  <2>1. PICK v : v = PageAt(m, x) /\ v = PageAt(m, x)' /\ Has(m, x) /\ x \notin loads[m].stale
    <3>1. CASE m # l
      BY <1>1, <3>1 DEF Has, PageAt
    <3>2. CASE m = l
      <4>1. x \in Chans /\ loads'[l].chans = loads[l].chans /\ loads'[l].stale = loads[l].stale \cup Cats
        BY <1>1, <3>2 DEF Has, Things
      <4> QED
        BY <1>1, <3>2, <4>1 DEF Has, PageAt
    <3> QED
      BY <3>1, <3>2
  <2>2. Current(x, v)
    BY <2>1 DEF Sided, PagesRight
  <2>3. Current(x, v)'
    BY <1>1, <2>2, SameRight
  <2> QED
    BY <2>1, <2>3 DEF Current
<1>5. AllRight'
  BY <1>1 DEF AllRight
<1> QED
  BY <1>3, <1>4, <1>5 DEF Sided, ShownInv

LEMMA StepKeeps ==
  ASSUME SideInv, Sided, ShownInv, NEW k \in Acts, ActStep(k) PROVE Sided' /\ ShownInv'
<1>1. acts[k] # None /\ Stepping(k) /\ Fared(k)
  BY StepFares
<1>2. Sided' /\ (sidebar.open /\ AllRight /\ ~Spurned(k) => AllRight')
  BY <1>1, FaredKeeps
<1>3. /\ sidebar'.open = sidebar.open /\ (sidebar.due => sidebar'.due)
      /\ \A l \in Loads : loads'[l] = None <=> loads[l] = None
  BY <1>1 DEF Stepping, Shows, LoadsKept
<1>4. Spurned(k) /\ sidebar.open => sidebar'.due
  BY DEF Spurned
<1> QED
  BY <1>2, <1>3, <1>4 DEF ShownInv

LEMMA StartKeeps ==
  ASSUME SideInv, Sided, ShownInv, NEW k \in Acts, ActStarts(k) PROVE Sided' /\ ShownInv'
<1>1. Beginning(k) /\ SidebarTypeOK
  BY ActBegins DEF SideInv
<1>2. Sided' /\ (AllRight => AllRight')
  BY <1>1, BeginKeeps
<1>3. loads' = loads /\ sidebar'.open = sidebar.open /\ sidebar'.due = sidebar.due
  BY <1>1, DraggingIs DEF Beginning
<1> QED
  BY <1>2, <1>3 DEF ShownInv

SidedInv == Sided /\ ShownInv

LEMMA SidedStands ==
  ASSUME Sided, ShownInv, UNCHANGED serverVars PROVE Sided' /\ ShownInv'
<1>1. UNCHANGED <<channels, categories, acts, sidebar, loads, trail>>
  BY DEF serverVars
<1>2. Clashes' /\ HomesStand' /\ PagesRight'
  BY <1>1 DEF Sided, Clashes, HomesStand, PagesRight, Busy, Has, PageAt, Current, Right, Truth
<1>3. AllKnow'
  BY <1>1 DEF Sided, AllKnow, Busy, Knows, Vacant, Buried, Raised, Reread, Copied, Leaves, Arrives, Empties, Truth
<1>4. ShownInv'
  BY <1>1 DEF ShownInv, AllRight, Right, ShownOf, Truth, Busy
<1> QED
  BY <1>2, <1>3, <1>4 DEF Sided

LEMMA SidedKeeps == ASSUME SideInv, SidedInv, [ServerNext]_serverVars PROVE SidedInv'
<1>1. CASE UNCHANGED serverVars
  BY <1>1, SidedStands DEF SidedInv
<1>2. ASSUME NEW k \in Acts, ActStarts(k) \/ ActStep(k) PROVE SidedInv'
  BY <1>2, StartKeeps, StepKeeps DEF SidedInv
<1>3. ASSUME NEW l \in Loads, SidebarStep(l) \/ ShowLists(l) PROVE SidedInv'
  BY <1>3, OpenKeeps, ReadKeeps, ReplaceKeeps, ThrowKeeps DEF SidedInv, SidebarStep, ShowLists
<1> QED
  BY <1>1, <1>2, <1>3 DEF ServerNext

LEMMA SidedStarts == ServerInit => SidedInv
<1> SUFFICES ASSUME ServerInit PROVE SidedInv
  OBVIOUS
<1>1. PICK c \in Chans : channels = [Nowhere EXCEPT ![c] = [place |-> 0, cat |-> None, deleted |-> FALSE]]
  BY DEF ServerInit
<1>2. HomesStand
  BY <1>1 DEF Nowhere, Existing, HomesStand
<1>3. Busy = {} /\ (\A l \in Loads : loads[l] = None) /\ ~sidebar.open
  BY DEF ServerInit, Busy
<1> QED
  BY <1>2, <1>3 DEF SidedInv, Sided, ShownInv, Clashes, AllKnow, PagesRight, Has

LEMMA SidedSays == ASSUME SideInv, SidedInv PROVE SidebarTells
<1> SUFFICES ASSUME Settled PROVE \A x \in Things \ (trail.suspect \cup InWork) : ShownOf(x) = Truth(x)
  <2>1. \A c \in Chans : c \in Things /\ Truth(c) = LiveRows[c] /\ ShownOf(c) = sidebar.shown[c]
    BY DEF Truth, RowOf, LiveRows, Live, ShownOf, Things
  <2>2. \A g \in Cats : g \in Things /\ Truth(g) = categories[g] /\ ShownOf(g) = sidebar.headings[g]
    BY SidebarBounds DEF Truth, RowOf, ShownOf, Things
  <2> QED
    BY <2>1, <2>2 DEF SidebarTells
<1>1. AllRight
  BY DEF Settled, SidedInv, ShownInv
<1>2. \A x \in Things \ InWork : \A k \in Busy : x \notin acts[k].about
  BY DEF InWork
<1> QED
  BY <1>1, <1>2 DEF AllRight, Right

(* Through whatever requests overlap, whatever is dragged, refused, failed *)
(* or missed, and however the loads of the sidebar overlap all this: a     *)
(* sidebar that is not being loaded shows every channel and category that  *)
(* is not in doubt as the server has it.                                   *)
THEOREM SidebarSafe == PageSpec => []SidebarTells
<1> DEFINE Inv == SoundInv /\ SidedInv
<1>1. PageInit => Inv
  BY SoundStarts, SidedStarts DEF PageInit
<1>2. Inv /\ [PageNext]_pageVars => Inv'
  <2> SUFFICES ASSUME SoundInv, SidedInv, [PageNext]_pageVars PROVE SoundInv' /\ SidedInv'
    OBVIOUS
  <2>1. [ServerNext]_serverVars
    BY DEF PageNext, pageVars
  <2> QED
    BY <2>1, SoundSteps, SidedKeeps DEF SoundInv
<1>3. Inv => SidebarTells
  BY SidedSays DEF SoundInv
<1> HIDE DEF Inv
<1> QED
  BY <1>1, <1>2, <1>3, PTL DEF PageSpec

-----------------------------------------------------------------------------
(* Before the layout has subscribed to it, nobody asks for the topic of    *)
(* the server, and so nobody has it.                                       *)
Spares(f) == f.op = "subscribe" => Server \notin f.topics
Silent(fs) == \A i \in DOMAIN fs : Spares(fs[i])
Deaf(x) == Server \notin x.late \cup x.topics /\ Silent(x.frames)
Unasked ==
  /\ Server \notin client.subscribed /\ Silent(client.pending)
  /\ \A k \in Calls : calls[k] # None => Spares(calls[k])
  /\ \A c \in Conns : conns[c] # None => Deaf(conns[c])

LEMMA SilentMore == ASSUME NEW fs \in Seq(Frame), Silent(fs), NEW f \in Frame, Spares(f) PROVE Silent(Append(fs, f))
<1>1. \A i \in DOMAIN Append(fs, f) : Append(fs, f)[i] = f \/ (i \in DOMAIN fs /\ Append(fs, f)[i] = fs[i])
  OBVIOUS
<1> QED
  BY <1>1 DEF Silent

LEMMA SilentBoth == ASSUME NEW fs \in Seq(Frame), Silent(fs), NEW gs \in Seq(Frame), Silent(gs) PROVE Silent(fs \o gs)
<1>1. \A i \in DOMAIN (fs \o gs) : (i \in DOMAIN fs /\ (fs \o gs)[i] = fs[i])
                                   \/ (i - Len(fs) \in DOMAIN gs /\ (fs \o gs)[i] = gs[i - Len(fs)])
  OBVIOUS
<1> QED
  BY <1>1 DEF Silent

LEMMA SilentRest ==
  ASSUME NEW fs \in Seq(Frame), fs # <<>>, Silent(fs) PROVE Head(fs) \in Frame /\ Spares(Head(fs)) /\ Silent(Tail(fs))
<1>1. Head(fs) \in Frame /\ 1 \in DOMAIN fs /\ Head(fs) = fs[1]
  OBVIOUS
<1>2. \A i \in DOMAIN Tail(fs) : i + 1 \in DOMAIN fs /\ Tail(fs)[i] = fs[i + 1]
  OBVIOUS
<1> QED
  BY <1>1, <1>2 DEF Silent

LEMMA SentDeaf ==
  ASSUME ClientTypeOK, Unasked, NEW c \in Conns \cup {None}, NEW fs \in Seq(Frame), Silent(fs), NEW after,
         after = SentAll(c, fs) \/ \E f \in Frame : Spares(f) /\ after = Sent(c, f)
  PROVE  \A d \in Conns : after[d] # None => Deaf(after[d])
<1>1. CASE after = conns
  BY <1>1 DEF Unasked
<1>2. CASE c # None /\ conns[c] # None
  <2>1. PICK x \in Conn : x = conns[c] /\ Deaf(x)
    BY <1>2, ClientNone DEF ClientTypeOK, Unasked
  <2>2. x.frames \in Seq(Frame) /\ Silent(x.frames)
    BY <2>1 DEF Conn, Deaf
  <2>3. CASE after = SentAll(c, fs)
    <3>1. after = [conns EXCEPT ![c] = [x EXCEPT !.frames = x.frames \o fs, !.told = AllAmount(x.told, fs)]]
      BY <1>2, <2>1, <2>3 DEF SentAll
    <3>2. PICK y : y = [x EXCEPT !.frames = x.frames \o fs, !.told = AllAmount(x.told, fs)]
      OBVIOUS
    <3>3. y.late = x.late /\ y.topics = x.topics /\ y.frames = x.frames \o fs
      BY <3>2 DEF Conn
    <3>4. Deaf(y)
      BY <2>1, <2>2, <3>3, SilentBoth DEF Deaf
    <3> QED
      BY <1>2, <3>1, <3>2, <3>4 DEF ClientTypeOK, Unasked
  <2>4. ASSUME NEW f \in Frame, Spares(f), after = Sent(c, f) PROVE \A d \in Conns : after[d] # None => Deaf(after[d])
    <3>1. after = [conns EXCEPT ![c] = [x EXCEPT !.frames = Append(x.frames, f), !.told = Amounts(x.told, f)]]
      BY <1>2, <2>1, <2>4 DEF Sent
    <3>2. PICK y : y = [x EXCEPT !.frames = Append(x.frames, f), !.told = Amounts(x.told, f)]
      OBVIOUS
    <3>3. y.late = x.late /\ y.topics = x.topics /\ y.frames = Append(x.frames, f)
      BY <3>2 DEF Conn
    <3>4. Deaf(y)
      BY <2>1, <2>2, <2>4, <3>3, SilentMore DEF Deaf
    <3> QED
      BY <1>2, <3>1, <3>2, <3>4 DEF ClientTypeOK, Unasked
  <2> QED
    BY <2>3, <2>4
<1>3. CASE ~(c # None /\ conns[c] # None)
  <2>1. after = conns
    BY <1>3 DEF SentAll, Sent
  <2> QED
    BY <1>1, <2>1
<1> QED
  BY <1>2, <1>3

LEMMA ConnTurns ==
  ASSUME ClientTypeOK, Unasked, NEW c \in Conns, NEW x, x = None \/ Deaf(x), conns' = [conns EXCEPT ![c] = x]
  PROVE  \A d \in Conns : conns'[d] # None => Deaf(conns'[d])
BY DEF ClientTypeOK, Unasked

LEMMA OpenedDeaf == Deaf(Opened) /\ \A S : Deaf([Opened EXCEPT !.open = FALSE, !.told = S])
<1>1. Silent(<<>>)
  BY DEF Silent
<1> QED
  BY <1>1 DEF Deaf, Opened

LEMMA UnaskedApp ==
  ASSUME ClientTypeOK, Unasked, Server \notin client'.subscribed,
         \/ Connect \/ Disconnect
         \/ \E k \in Calls, f \in Frame : Subscription(k, f)
         \/ \E k \in Calls : SendCall(k)
  PROVE  Unasked'
<1>0. Silent(<<>>) /\ client \in Inner /\ calls \in [Calls -> Frame \cup {None}]
  BY DEF Silent, ClientTypeOK
<1>1. CASE Connect
  BY <1>0, <1>1 DEF Connect, Unasked, Inner
<1>2. CASE Disconnect
  BY <1>0, <1>2 DEF Disconnect, Unasked
<1>3. ASSUME NEW k \in Calls, NEW f \in Frame, Subscription(k, f) PROVE Unasked'
  <2>1. /\ calls' = [calls EXCEPT ![k] = f] /\ client' = [client EXCEPT !.subscribed = Amounts(client.subscribed, f)]
        /\ UNCHANGED conns
    BY <1>3 DEF Subscription
  <2>2. client'.subscribed = Amounts(client.subscribed, f) /\ client'.pending = client.pending
    BY <1>0, <2>1 DEF Inner
  <2>3. Spares(f)
    BY <2>2 DEF Amounts, Spares
  <2> QED
    BY <1>0, <2>1, <2>2, <2>3 DEF Unasked
<1>4. ASSUME NEW k \in Calls, SendCall(k) PROVE Unasked'
  <2>1. PICK f \in Frame : f = calls[k] /\ Spares(f)
    BY <1>0, <1>4 DEF SendCall, Unasked
  <2>2. client.pending \in Seq(Frame) /\ client.outgoing \in Conns \cup {None} /\ <<>> \in Seq(Frame)
    BY <1>0 DEF Inner
  <2>3. \A j \in Calls : calls'[j] # None => Spares(calls'[j])
    BY <1>0, <1>4 DEF SendCall, Unasked
  <2>4. CASE conns' = Sent(client.outgoing, calls[k]) /\ UNCHANGED client
    <3>1. \A d \in Conns : conns'[d] # None => Deaf(conns'[d])
      BY <1>0, <2>1, <2>2, <2>4, SentDeaf
    <3> QED
      BY <2>3, <2>4, <3>1 DEF Unasked
  <2>5. CASE client' = [client EXCEPT !.pending = Append(client.pending, calls[k])] /\ UNCHANGED conns
    <3>1. client'.pending = Append(client.pending, f) /\ client'.subscribed = client.subscribed
      BY <1>0, <2>1, <2>5 DEF Inner
    <3>2. Silent(client'.pending)
      BY <2>1, <2>2, <3>1, SilentMore DEF Unasked
    <3> QED
      BY <2>3, <2>5, <3>1, <3>2 DEF Unasked
  <2> QED
    BY <1>4, <2>4, <2>5 DEF SendCall
<1> QED
  BY <1>1, <1>2, <1>3, <1>4

LEMMA UnaskedLoop == ASSUME ClientTypeOK, Unasked, NEW l \in Loops, LoopStep(l) PROVE Unasked'
<1>0. Silent(<<>>) /\ client \in Inner /\ client.outgoing \in Conns \cup {None} /\ <<>> \in Seq(Frame)
  BY DEF Silent, ClientTypeOK, Inner
<1>1. CASE CheckStop(l)
  BY <1>1 DEF CheckStop, Unasked
<1>2. CASE Again(l)
  BY <1>0, <1>2 DEF Again, Unasked, Inner
<1>3. CASE Dial(l)
  <2>1. UNCHANGED calls /\ client'.subscribed = client.subscribed /\ client'.pending = client.pending
    BY <1>0, <1>3 DEF Dial, Inner
  <2>2. UNCHANGED conns \/ \E c \in Conns : conns' = [conns EXCEPT ![c] = Opened]
    BY <1>3 DEF Dial
  <2>3. \A d \in Conns : conns'[d] # None => Deaf(conns'[d])
    BY <2>2, OpenedDeaf, ConnTurns DEF Unasked
  <2> QED
    BY <2>1, <2>3 DEF Unasked
<1>4. CASE Hello(l)
  <2>1. loops[l] \in Loop /\ loops[l].conn \in Conns
    <3>1. loops[l] \in Loop /\ loops[l].stage = "hello"
      BY <1>4 DEF Hello, At, ClientTypeOK
    <3> QED
      BY <3>1, LoopIs
  <2>2. PICK f \in Frame : f = [op |-> "identify", topics |-> {}] /\ Spares(f)
    BY IdentifyIsFrame DEF Spares
  <2>3. conns' = Sent(loops[l].conn, f) \/ conns' = [conns EXCEPT ![loops[l].conn] = None]
    BY <1>4, <2>2 DEF Hello
  <2>4. \A d \in Conns : conns'[d] # None => Deaf(conns'[d])
    <3>1. CASE conns' = Sent(loops[l].conn, f)
      BY <1>0, <2>1, <2>2, <3>1, SentDeaf
    <3>2. CASE conns' = [conns EXCEPT ![loops[l].conn] = None]
      BY <2>1, <3>2, ConnTurns
    <3> QED
      BY <2>3, <3>1, <3>2
  <2> QED
    BY <1>4, <2>4 DEF Hello, Unasked
<1>5. CASE Flush(l)
  <2>1. PICK fs : fs = (IF client.subscribed = {} THEN <<>> ELSE <<[op |-> "subscribe", topics |-> client.subscribed]>>) \o client.pending
    OBVIOUS
  <2>2. /\ client' = [client EXCEPT !.state = "identified", !.pending = <<>>]
        /\ conns' = SentAll(client.outgoing, fs) /\ UNCHANGED calls
    BY <1>5, <2>1 DEF Flush
  <2>3. fs \in Seq(Frame) /\ Silent(fs)
    <3>1. PICK f : f = [op |-> "subscribe", topics |-> client.subscribed]
      OBVIOUS
    <3>2. f \in Frame /\ Spares(f)
      BY <1>0, <3>1 DEF Inner, Frame, Spares, Unasked
    <3>3. client.pending \in Seq(Frame) /\ Silent(client.pending)
      BY <1>0 DEF Inner, Unasked
    <3>4. <<f>> \in Seq(Frame) /\ Silent(<<f>>)
      BY <3>2 DEF Silent
    <3>5. Silent(<<f>> \o client.pending) /\ Silent(<<>> \o client.pending)
      BY <1>0, <3>3, <3>4, SilentBoth
    <3>6. <<f>> \o client.pending \in Seq(Frame) /\ <<>> \o client.pending \in Seq(Frame)
      BY <3>2, <3>3
    <3>7. fs = <<>> \o client.pending \/ fs = <<f>> \o client.pending
      BY <2>1, <3>1
    <3> QED
      BY <3>5, <3>6, <3>7
  <2>4. \A d \in Conns : conns'[d] # None => Deaf(conns'[d])
    BY <1>0, <2>2, <2>3, SentDeaf
  <2>5. client'.subscribed = client.subscribed /\ client'.pending = <<>>
    BY <1>0, <2>2 DEF Inner
  <2> QED
    BY <1>0, <2>2, <2>4, <2>5 DEF Unasked
<1>6. CASE PumpEnds(l)
  <2>1. loops[l] \in Loop /\ loops[l].conn \in Conns
    <3>1. loops[l] \in Loop /\ loops[l].stage = "pump"
      BY <1>6 DEF PumpEnds, At, ClientTypeOK
    <3> QED
      BY <3>1, LoopIs
  <2>2. \A d \in Conns : conns'[d] # None => Deaf(conns'[d])
    BY <1>6, <2>1, ConnTurns DEF PumpEnds
  <2>3. client'.subscribed = client.subscribed /\ client'.pending = client.pending
    BY <1>0, <1>6 DEF PumpEnds, Inner
  <2> QED
    BY <1>6, <2>2, <2>3 DEF PumpEnds, Unasked
<1> QED
  BY <1>1, <1>2, <1>3, <1>4, <1>5, <1>6 DEF LoopStep

LEMMA UnaskedGateway == ASSUME ClientTypeOK, Unasked, NEW c \in Conns, Gateway(c) PROVE Unasked'
<1>1. /\ UNCHANGED <<client, calls>> /\ conns[c] # None
  BY DEF Gateway, Break, Handle, SessionFound, AddTopics
<1>2. PICK x \in Conn : x = conns[c] /\ Deaf(x)
  BY <1>1 DEF ClientTypeOK, Unasked
<1>3. \E y : conns' = [conns EXCEPT ![c] = y] /\ Deaf(y)
  <2>1. CASE Break(c)
    BY <2>1, OpenedDeaf DEF Break
  <2>2. CASE Handle(c)
    <3>1. PICK f, rest : f = Head(x.frames) /\ rest = [x EXCEPT !.frames = Tail(x.frames)]
      OBVIOUS
    <3>2. x.frames \in Seq(Frame) /\ x.frames # <<>> /\ Silent(x.frames)
      BY <1>2, <2>2 DEF Handle, Conn, Deaf
    <3>3. f \in Frame /\ Spares(f) /\ Silent(Tail(x.frames))
      BY <3>1, <3>2, SilentRest
    <3>4. /\ rest \in [open : BOOLEAN, frames : {Tail(x.frames)}, asked : BOOLEAN, user : BOOLEAN,
                       late : SUBSET Topics, topics : SUBSET Topics, told : SUBSET Topics]
          /\ rest.late = x.late /\ rest.topics = x.topics
      BY <3>1 DEF Conn
    <3>5. conns' = [conns EXCEPT ![c] =
            CASE f.op = "identify" -> [rest EXCEPT !.asked = TRUE]
              [] f.op = "subscribe" ->
                   IF rest.user THEN [rest EXCEPT !.late = @ \cup f.topics] ELSE rest
              [] f.op = "unsubscribe" -> [rest EXCEPT !.topics = @ \ f.topics]]
      BY <1>2, <2>2, <3>1 DEF Handle
    <3>6. Deaf(rest) /\ Deaf([rest EXCEPT !.asked = TRUE]) /\ Deaf([rest EXCEPT !.topics = @ \ f.topics])
      BY <1>2, <3>3, <3>4 DEF Deaf
    <3>7. f.op = "subscribe" => Deaf([rest EXCEPT !.late = @ \cup f.topics])
      BY <1>2, <3>3, <3>4 DEF Deaf, Spares
    <3>8. f.op = "identify" \/ f.op = "subscribe" \/ f.op = "unsubscribe"
      BY <3>3 DEF Frame
    <3> QED
      BY <3>5, <3>6, <3>7, <3>8
  <2>3. CASE SessionFound(c)
    <3>1. conns' = [conns EXCEPT ![c] = [x EXCEPT !.asked = FALSE, !.user = TRUE]]
      BY <1>2, <2>3 DEF SessionFound
    <3>2. Deaf([x EXCEPT !.asked = FALSE, !.user = TRUE])
      BY <1>2 DEF Deaf, Conn
    <3> QED
      BY <3>1, <3>2
  <2>4. CASE AddTopics(c)
    <3>1. PICK t \in x.late : conns' = [conns EXCEPT ![c] = [x EXCEPT !.late = x.late \ {t}, !.topics = x.topics \cup {t}]]
      BY <1>2, <2>4 DEF AddTopics
    <3>2. Deaf([x EXCEPT !.late = x.late \ {t}, !.topics = x.topics \cup {t}])
      BY <1>2 DEF Deaf, Conn
    <3> QED
      BY <3>1, <3>2
  <2> QED
    BY <2>1, <2>2, <2>3, <2>4 DEF Gateway
<1>4. \A d \in Conns : conns'[d] # None => Deaf(conns'[d])
  BY <1>3, ConnTurns
<1> QED
  BY <1>1, <1>4 DEF Unasked

LEMMA UnaskedKeeps ==
  ASSUME ClientTypeOK, Unasked, [ClientMoves]_clientVars, Server \notin client'.subscribed PROVE Unasked'
<1>1. CASE UNCHANGED clientVars
  BY <1>1 DEF clientVars, Unasked
<1>2. CASE ClientMoves
  BY <1>2, UnaskedApp, UnaskedLoop, UnaskedGateway DEF ClientMoves, ClientNext, Subscribe
<1> QED
  BY <1>1, <1>2

LEMMA UnaskedHears == ASSUME Unasked PROVE ~ServerHeard
BY DEF Unasked, Deaf, ServerHeard

-----------------------------------------------------------------------------
(* A drag of ours is of things the server knows, unless in doubt.          *)
Aiming(a) == a.op \in Ordering /\ a.stage = "list" /\ a.mine
DragsKnown == \A k \in Busy : Aiming(acts[k]) => acts[k].about \subseteq trail.suspect \/ Known(acts[k].ids)

LEMMA StepAims ==
  ASSUME SideInv, NEW k \in Acts, ActStep(k), Onward(k), acts'[k] # None PROVE ~Aiming(acts'[k])
<1>0. SidebarTypeOK /\ acts[k] # None /\ acts'[k].op = acts[k].op
  BY OnwardIs DEF SideInv, ActStep
<1>1. CASE acts[k].op \in Ordering
  <2>1. ListForMoves(k) \/ WriteMove(k) \/ TellMove(k) \/ ActThrows(k)
    BY <1>1 DEF ActStep, Ordering, InsertChannel, PurgeChannel, WriteChannel, ReadChannelAgain, DropChannel,
       InsertCategory, ListChildren, FreeChild, DropCategory, SwapReadsOther, SwapWrites, SwapReadsAgain, SwapTells, ActAt
  <2>2. ASSUME NEW todo, Planned(k, todo) PROVE acts'[k].stage # "list"
    BY <1>0, <2>2 DEF Planned, SidebarTypeOK, Act
  <2>3. CASE ListForMoves(k)
    <3>1. Refused(k) \/ \E todo : Planned(k, todo)
      BY <2>3, Zenon DEF ListForMoves
    <3>2. CASE Refused(k)
      BY <1>0, <3>2 DEF Refused, ActOver, SidebarTypeOK
    <3> QED
      BY <1>0, <2>2, <3>1, <3>2 DEF Aiming
  <2>4. CASE WriteMove(k)
    <3>1. ActTo(k, "read")
      BY <2>4, Zenon DEF WriteMove
    <3> QED
      BY <1>0, <3>1 DEF ActTo, SidebarTypeOK, Act, Aiming
  <2>5. CASE TellMove(k)
    <3>1. \E todo : Planned(k, todo)
      BY <2>5, Zenon DEF TellMove
    <3> QED
      BY <2>2, <3>1 DEF Aiming
  <2>6. CASE ActThrows(k)
    BY <1>0, <2>6 DEF ActThrows, Refused, ActOver, SidebarTypeOK
  <2> QED
    BY <2>1, <2>2, <2>3, <2>4, <2>5, <2>6 DEF Aiming
<1> QED
  BY <1>0, <1>1 DEF Aiming

LEMMA StepDrags ==
  ASSUME SideInv, Clashes, DragsKnown, NEW k \in Acts, ActStep(k), Stepping(k) PROVE DragsKnown'
<1>0. /\ SidebarTypeOK /\ AllShaped /\ k \in Busy /\ Onward(k) /\ Writes(acts[k].about)
      /\ trail.suspect \subseteq trail'.suspect
  BY DEF SideInv, Stepping, ActStep, Busy, TrailGrows
<1> SUFFICES ASSUME NEW j \in Busy', NEW b, b = acts'[j], Aiming(b) PROVE b.about \subseteq trail'.suspect \/ Known(b.ids)'
  BY DEF DragsKnown, Known, Live
<1>1. j \in Acts /\ j # k
  BY <1>0, StepAims DEF Busy
<1>2. b = acts[j] /\ j \in Busy
  BY <1>0, <1>1, OthersStay
<1>3. b \in Act /\ Shaped(b)
  BY <1>0, <1>2, ActIs DEF Busy
<1>4. b.about \subseteq trail.suspect \/ Known(b.ids)
  BY <1>2 DEF DragsKnown
<1>5. CASE b.about \subseteq trail.suspect
  BY <1>0, <1>2, <1>5
<1>6. CASE b.about \cap acts[k].about # {}
  BY <1>0, <1>1, <1>2, <1>6 DEF Clashes
<1>7. CASE b.about \cap acts[k].about = {} /\ Known(b.ids)
  <2>1. \A i \in DOMAIN b.ids : b.ids[i] \in b.about /\ b.ids[i] \in Things
    <3>1. ToSet(b.ids) \subseteq b.about /\ b.about \subseteq Things
      BY <1>3 DEF Aiming, Shaped, Drawn, Ordering, Act
    <3> QED
      BY <3>1 DEF ToSet
  <2>2. \A i \in DOMAIN b.ids : b.ids[i] \notin acts[k].about
    BY <1>7, <2>1
  <2>3. Known(b.ids)'
    BY <1>0, <1>7, <2>1, <2>2 DEF Known, Writes, Live, Things
  <2> QED
    BY <2>3
<1> QED
  BY <1>4, <1>5, <1>6, <1>7

(* What is shown stays right, even of a drag that is refused.              *)
LEMMA StepShows ==
  ASSUME SideInv, Sided, DragsKnown, AllRight, sidebar.open, NEW k \in Acts, ActStep(k) PROVE AllRight'
<1>1. acts[k] # None /\ Stepping(k) /\ Fared(k)
  BY StepFares
<1>2. Sided' /\ (~Spurned(k) => AllRight')
  BY <1>1, FaredKeeps
<1>3. CASE Spurned(k)
  <2>0. k \in Busy /\ trail.suspect \subseteq trail'.suspect
    BY <1>1 DEF Busy, Stepping, TrailGrows
  <2>1. acts[k].about \subseteq trail.suspect
    BY <1>3, <2>0 DEF Spurned, DragsKnown, Aiming
  <2>2. PICK T \in SUBSET acts[k].about : Tells(T)
    BY <1>1 DEF Fared, Faring
  <2> SUFFICES ASSUME NEW x \in Things, x \notin trail'.suspect PROVE Right(x, ShownOf(x))'
    BY DEF AllRight
  <2>3. PICK v, w : v = ShownOf(x) /\ w = ShownOf(x)'
    OBVIOUS
  <2>4. x \notin acts[k].about /\ w = v /\ Right(x, v)
    BY <2>0, <2>1, <2>2, <2>3 DEF Tells, AllRight
  <2>5. Right(x, w)'
    BY <1>1, <1>2, <2>4, RightSteps DEF Sided
  <2> QED
    BY <2>3, <2>5 DEF Right
<1> QED
  BY <1>2, <1>3

-----------------------------------------------------------------------------
(* A sidebar that shows nothing is told nothing, until the layout listens. *)
Blank == sidebar.shown = Nowhere /\ sidebar.headings = NoHeading
LookedInv ==
  IF sidebar.open THEN (Blank /\ Unasked) \/ AllRight
  ELSE Blank /\ Unasked /\ \A l \in Loads : loads[l] = None

LEMMA StepBlank ==
  ASSUME SidebarTypeOK, NEW k \in Acts, ActStep(k), ~ServerHeard \/ ~sidebar.open, Blank PROVE Blank'
<1>1. ASSUME Refused(k) PROVE Blank'
  <2>1. PICK again \in BOOLEAN : sidebar' = [sidebar EXCEPT !.due = again]
    <3>1. sidebar.due \in BOOLEAN /\ (acts[k].mine /\ sidebar.open) \in BOOLEAN
      BY DEF SidebarTypeOK, Sidebar
    <3> QED
      BY <1>1, <3>1 DEF Refused
  <2> QED
    BY <2>1, WithDue DEF Blank
<1>2. ASSUME NEW after, NEW xs, NEW t, EmitServer(after, xs, t) PROVE Blank'
  BY <1>2 DEF EmitServer, Blank
<1>3. ASSUME UNCHANGED sidebar PROVE Blank'
  BY <1>3 DEF Blank
<1>4. CASE InsertChannel(k) \/ ReadChannelAgain(k) \/ TellMove(k) \/ InsertCategory(k) \/ FreeChild(k)
           \/ DropCategory(k) \/ SwapTells(k)
  <2>1. \E after, xs, t : EmitServer(after, xs, t)
    BY <1>4, Zenon DEF InsertChannel, ReadChannelAgain, TellMove, InsertCategory, FreeChild, DropCategory, SwapTells
  <2> QED
    BY <1>2, <2>1
<1>5. CASE WriteChannel(k)
  <2>1. UNCHANGED sidebar \/ \E after, xs, t : EmitServer(after, xs, t)
    BY <1>5, Zenon DEF WriteChannel
  <2> QED
    BY <1>2, <1>3, <2>1
<1>6. CASE PurgeChannel(k) \/ DropChannel(k) \/ WriteMove(k) \/ ListChildren(k) \/ SwapReadsOther(k)
           \/ SwapWrites(k) \/ SwapReadsAgain(k)
  <2>1. UNCHANGED sidebar
    BY <1>6 DEF PurgeChannel, DropChannel, WriteMove, ListChildren, SwapReadsOther, SwapWrites, SwapReadsAgain
  <2> QED
    BY <1>3, <2>1
<1>7. CASE ListForMoves(k) \/ ActThrows(k)
  <2>1. UNCHANGED sidebar \/ Refused(k)
    BY <1>7, Zenon DEF ListForMoves, ActThrows
  <2> QED
    BY <1>1, <1>3, <2>1
<1> QED
  BY <1>4, <1>5, <1>6, <1>7 DEF ActStep

LEMMA StepLooked ==
  ASSUME SideInv, Sided, DragsKnown, LookedInv, NEW k \in Acts, ActStep(k), UNCHANGED clientVars PROVE DragsKnown' /\ LookedInv'
<1>1. acts[k] # None /\ Stepping(k) /\ SidebarTypeOK /\ Clashes
  BY StepFares DEF SideInv, Sided
<1>2. DragsKnown'
  BY <1>1, StepDrags
<1>3. sidebar'.open = sidebar.open /\ \A l \in Loads : loads'[l] = None <=> loads[l] = None
  BY <1>1 DEF Stepping, Shows, LoadsKept
<1>4. CASE Blank /\ Unasked /\ (sidebar.open \/ \A l \in Loads : loads[l] = None)
  <2>1. Blank'
    BY <1>1, <1>4, UnaskedHears, StepBlank
  <2>2. Unasked'
    BY <1>4 DEF clientVars, Unasked
  <2> QED
    BY <1>2, <1>3, <1>4, <2>1, <2>2 DEF LookedInv
<1>5. CASE sidebar.open /\ AllRight
  BY <1>2, <1>3, <1>5, StepShows DEF LookedInv
<1> QED
  BY <1>4, <1>5 DEF LookedInv

LEMMA StartLooked ==
  ASSUME SideInv, Sided, DragsKnown, LookedInv, NEW k \in Acts, ActStarts(k), UNCHANGED clientVars PROVE DragsKnown' /\ LookedInv'
<1>1. Beginning(k) /\ SidebarTypeOK /\ Clashes
  BY ActBegins DEF SideInv, Sided
<1>2. PICK a, more : /\ Begun(a) /\ more \in SUBSET Things /\ Starts(k, a, more)
                     /\ (sidebar' = sidebar /\ ~a.mine) \/ Dragging(a, more)
  BY <1>1 DEF Beginning
<1>3. UNCHANGED <<channels, categories, loads>>
  BY <1>1 DEF Beginning
<1>4. Joins(k, a, more)
  <2>1. a \in Act /\ Shaped(a) /\ AllShaped
    BY <1>2 DEF Begun, SideInv
  <2> QED
    BY <1>1, <1>2, <1>3, <2>1, BeginTypes DEF Joins, TrailGrows
<1>5. /\ acts'[k] = a /\ k \in Busy' /\ a.about \subseteq Things /\ trail.suspect \subseteq trail'.suspect
      /\ \A j \in Acts \ {k} : acts'[j] = acts[j] /\ (j \in Busy' <=> j \in Busy)
      /\ \A j \in Busy : acts[j].about \cap a.about # {} => a.about \subseteq trail'.suspect
  BY <1>2, <1>4, JoinsAre DEF Joins, TrailGrows
<1>6. ASSUME Dragging(a, more), Blank PROVE ToSet(a.ids) = {}
  <2>1. ToSet(a.ids) \subseteq Existing(sidebar.shown) \/ ToSet(a.ids) \subseteq Existing(sidebar.headings)
    BY <1>6 DEF Dragging, Ordering
  <2> QED
    BY <1>6, <2>1 DEF Blank, Nowhere, NoHeading, Existing
<1>7. ASSUME Dragging(a, more), ~(a.about \subseteq trail'.suspect) PROVE Known(a.ids)
  <2>1. CASE Blank
    BY <1>6, <1>7, <2>1 DEF Known, ToSet
  <2>2. CASE AllRight
    <3>1. ToSet(a.ids) \subseteq a.about
      BY <1>1, <1>2, <1>7, DraggingIs
    <3>2. a.about \cap trail.suspect = {} /\ \A j \in Busy : acts[j].about \cap a.about = {}
      BY <1>4, <1>5, <1>7 DEF Dragging, Joins
    <3>3. \A y \in ToSet(a.ids) : y \in Things /\ ShownOf(y) = Truth(y)
      BY <1>5, <2>2, <3>1, <3>2 DEF AllRight, Right
    <3>4. \A y \in ToSet(a.ids) : ShownOf(y) # None
      <4>1. CASE a.op = "reorder"
        <5>1. ToSet(a.ids) \subseteq Existing(sidebar.shown)
          BY <1>7, <4>1 DEF Dragging
        <5> QED
          BY <1>1, <5>1, ListsAre DEF Existing, ShownOf
      <4>2. CASE a.op = "sortcats"
        <5>1. ToSet(a.ids) \subseteq Existing(sidebar.headings)
          BY <1>7, <4>2 DEF Dragging
        <5> QED
          BY <1>1, <5>1, ListsAre, SidebarBounds DEF Existing, ShownOf
      <4> QED
        BY <1>7, <4>1, <4>2 DEF Dragging, Ordering
    <3>5. \A i \in DOMAIN a.ids : Truth(a.ids[i]) # None
      BY <3>3, <3>4 DEF ToSet
    <3> QED
      BY <3>5 DEF Known, Truth, RowOf, Live
  <2> QED
    BY <2>1, <2>2 DEF LookedInv
<1>8. DragsKnown'
  <2> SUFFICES ASSUME NEW j \in Busy', NEW b, b = acts'[j], Aiming(b) PROVE b.about \subseteq trail'.suspect \/ Known(b.ids)'
    BY DEF DragsKnown, Known, Live
  <2>1. ASSUME Known(b.ids) PROVE Known(b.ids)'
    BY <1>3, <2>1 DEF Known, Live
  <2>2. CASE j = k
    BY <1>2, <1>5, <1>7, <2>1, <2>2 DEF Aiming
  <2>3. CASE j # k
    <3>1. j \in Busy /\ b = acts[j]
      BY <1>5, <2>3 DEF Busy
    <3> QED
      BY <1>5, <2>1, <3>1 DEF DragsKnown
  <2> QED
    BY <2>2, <2>3
<1>9. sidebar'.open = sidebar.open /\ loads' = loads
  BY <1>1, <1>2, <1>3, DraggingIs
<1>10. ASSUME Blank PROVE Blank'
  <2>1. CASE sidebar' = sidebar
    BY <1>10, <2>1 DEF Blank
  <2>2. CASE Dragging(a, more)
    <3>1. ToSet(a.ids) = {}
      BY <1>6, <1>10, <2>2
    <3>2. Reordered(sidebar.shown, a.ids, a.cat) = sidebar.shown
      BY <1>10, <3>1 DEF Reordered, Blank, Nowhere
    <3>3. Resorted(sidebar.headings, a.ids) = sidebar.headings
      BY <1>10, <3>1 DEF Resorted, Blank, NoHeading
    <3>4. /\ a.op = "reorder" => sidebar'.headings = sidebar.headings
                                 /\ sidebar'.shown = Reordered(sidebar.shown, a.ids, a.cat)
          /\ a.op = "sortcats" => sidebar'.shown = sidebar.shown /\ sidebar'.headings = Resorted(sidebar.headings, a.ids)
      BY <1>1, <1>2, <2>2, DraggingIs
    <3> QED
      BY <1>10, <2>2, <3>2, <3>3, <3>4 DEF Blank, Dragging, Ordering
  <2> QED
    BY <1>2, <2>1, <2>2
<1>11. Unasked => Unasked'
  BY DEF clientVars, Unasked
<1>12. AllRight => AllRight'
  BY <1>1, BeginKeeps
<1> QED
  BY <1>8, <1>9, <1>10, <1>11, <1>12 DEF LookedInv

LEMMA SameDrags ==
  ASSUME DragsKnown, UNCHANGED <<channels, categories, acts>>, trail.suspect \cap InWork \subseteq trail'.suspect
  PROVE  DragsKnown'
<1>1. \A k \in Busy : acts[k].about \cap trail.suspect \subseteq trail'.suspect
  BY DEF InWork
<1>2. \A k \in Busy : acts[k].about \subseteq trail.suspect => acts[k].about \subseteq trail'.suspect
  BY <1>1
<1> QED
  BY <1>2 DEF DragsKnown, Busy, Known, Live

LEMMA LoadLooked ==
  ASSUME SideInv, Sided, DragsKnown, LookedInv, NEW l \in Loads,
         (SidebarStep(l) /\ UNCHANGED clientVars) \/ ListsReplaced(l)
  PROVE  DragsKnown' /\ LookedInv'
<1>0. SidebarTypeOK
  BY DEF SideInv
<1>1. CASE (OpenServer(l) \/ Refresh(l)) /\ UNCHANGED clientVars
  <2>1. /\ UNCHANGED <<channels, categories, acts>> /\ trail'.suspect = trail.suspect /\ trail'.torn = trail.torn
        /\ \/ ~sidebar.open /\ sidebar'.open /\ sidebar'.shown = Nowhere /\ sidebar'.headings = NoHeading
           \/ sidebar.open /\ sidebar'.open /\ sidebar'.shown = sidebar.shown /\ sidebar'.headings = sidebar.headings
    BY <1>0, <1>1, OpensIs
  <2>2. Unasked => Unasked'
    BY <1>1 DEF clientVars, Unasked
  <2>3. ASSUME AllRight, sidebar.open PROVE AllRight'
    <3> SUFFICES ASSUME NEW x \in Things, x \notin trail.suspect PROVE Right(x, ShownOf(x))'
      BY <2>1 DEF AllRight
    <3>1. PICK v : v = ShownOf(x) /\ v = ShownOf(x)'
      BY <2>1, <2>3 DEF ShownOf
    <3>2. Right(x, v)
      BY <2>3, <3>1 DEF AllRight
    <3>3. Right(x, v)'
      BY <2>1, <3>2, SameRight
    <3> QED
      BY <3>1, <3>3 DEF Right
  <2> QED
    BY <2>1, <2>2, <2>3, SameDrags DEF LookedInv, Blank
<1>2. CASE (ReadChannels(l) \/ ReadCategories(l)) /\ UNCHANGED clientVars
  <2>1. UNCHANGED <<channels, categories, acts, sidebar, trail>> /\ loads[l] # None
    BY <1>0, <1>2, ReadsIs
  <2>2. Unasked => Unasked'
    BY <1>2 DEF clientVars, Unasked
  <2>3. AllRight => AllRight'
    BY <2>1 DEF AllRight, Right, ShownOf, Busy, Truth
  <2> QED
    BY <2>1, <2>2, <2>3, SameDrags DEF LookedInv, Blank
<1>3. CASE LoadThrows(l)
  <2>1. /\ UNCHANGED <<channels, categories, acts>> /\ trail'.suspect = Things /\ loads[l] # None
        /\ sidebar'.open = sidebar.open
    BY <1>0, <1>3, ThrowsIs
  <2>2. trail.suspect \subseteq Things
    BY <1>0 DEF SidebarTypeOK, Trail
  <2> QED
    BY <1>3, <2>1, <2>2, SameDrags, ThrowKeeps DEF LookedInv
<1>4. CASE ListsReplaced(l)
  <2>1. /\ UNCHANGED <<channels, categories, acts>> /\ loads[l] # None /\ sidebar'.open = sidebar.open
        /\ trail.suspect \cap InWork \subseteq trail'.suspect
    BY <1>0, <1>4, ReplacedIs
  <2> QED
    BY <1>4, <2>1, SameDrags, ReplaceKeeps DEF LookedInv
<1> QED
  BY <1>1, <1>2, <1>3, <1>4 DEF SidebarStep

LEMMA DragOf ==
  ASSUME SideInv, DragsKnown, NEW k \in Busy, NEW x \in acts[k].about, x \notin trail.suspect, Dragged(acts[k], x)
  PROVE  /\ Target(acts[k], channels, categories, x) # None
         /\ x \in Chans => acts[k].op = "reorder" /\ Target(acts[k], channels, categories, x).cat = acts[k].cat
<1>1. k \in Acts /\ acts[k] # None /\ acts[k].op \in Ordering /\ x \in ToSet(acts[k].ids) /\ Known(acts[k].ids)
  BY DEF Busy, DragsKnown, Aiming, Dragged
<1> QED
  BY <1>1, TargetIs

LEMMA LookedSays == ASSUME SideInv, Sided, DragsKnown, LookedInv PROVE NothingVanishes
<1>0. SidebarTypeOK /\ HomesStand /\ AllKnow
  BY DEF SideInv, Sided
<1> SUFFICES ASSUME sidebar.open, NEW c \in Existing(sidebar.shown), NEW row, row = sidebar.shown[c], NEW g, g = row.cat,
                    {c, g} \cap (trail.suspect \cup trail.torn) = {}, g # None
             PROVE  sidebar.headings[g] # None
  BY DEF NothingVanishes
<1>1. c \in Chans /\ row \in ChannelRow /\ row # None /\ g \in Cats /\ g \notin Chans /\ c \in Things /\ g \in Things
  <2>1. c \in Chans /\ row \in ChannelRow /\ row # None
    BY <1>0, ListsAre DEF SidebarTypeOK, Sidebar, Existing, Listed
  <2> QED
    BY <2>1, SidebarBounds DEF ChannelRow, Things
<1>2. AllRight
  BY <1>1 DEF LookedInv, Blank, Nowhere
<1>3. Right(c, row) /\ Right(g, sidebar.headings[g])
  <2>1. ShownOf(c) = row /\ ShownOf(g) = sidebar.headings[g]
    BY <1>1 DEF ShownOf
  <2>2. Right(c, ShownOf(c)) /\ Right(g, ShownOf(g))
    BY <1>1, <1>2 DEF AllRight
  <2> QED
    BY <2>1, <2>2
<1>4. categories[g] # None
  <2>1. CASE row = Truth(c)
    <3>1. channels[c] # None /\ row = channels[c]
      BY <1>1, <2>1 DEF Truth, RowOf
    <3>2. c \in Existing(channels)
      BY <1>0, <1>1, <3>1 DEF SidebarTypeOK, Listed, Existing
    <3> QED
      BY <1>0, <3>1, <3>2 DEF HomesStand
  <2>2. ASSUME NEW k \in Busy, c \in acts[k].about, row # Truth(c) PROVE categories[g] # None
    <3>1. Fits(acts[k], channels, categories, trail.torn, c, row)
      BY <1>3, <2>2 DEF Right
    <3>2. CASE Homed(acts[k], categories, trail.torn, c, row)
      BY <1>1, <3>2 DEF Homed
    <3>3. CASE Dragged(acts[k], c) /\ row = Target(acts[k], channels, categories, c)
      <4>1. acts[k].op = "reorder" /\ g = acts[k].cat
        BY <1>1, <2>2, <3>3, DragOf
      <4>2. Arrives(acts[k])
        BY <1>0 DEF AllKnow, Knows
      <4> QED
        BY <1>1, <2>2, <4>1, <4>2 DEF Arrives
    <3> QED
      BY <1>1, <2>2, <3>1, <3>2, <3>3 DEF Fits, Truth
  <2> QED
    BY <1>3, <2>1, <2>2 DEF Right
<1>5. Truth(g) # None
  BY <1>1, <1>4 DEF Truth, RowOf
<1>6. ASSUME NEW k \in Busy, g \in acts[k].about PROVE sidebar.headings[g] # None
  <2>1. Fits(acts[k], channels, categories, trail.torn, g, sidebar.headings[g])
    BY <1>3, <1>6 DEF Right
  <2>2. acts[k].op = "restore" => g # acts[k].x
    <3>1. Shaped(acts[k])
      BY DEF SideInv, AllShaped
    <3> QED
      BY <1>1, <3>1 DEF Shaped
  <2>3. CASE Dragged(acts[k], g) /\ sidebar.headings[g] = Target(acts[k], channels, categories, g)
    BY <1>6, <2>3, DragOf
  <2> QED
    BY <1>5, <2>1, <2>2, <2>3 DEF Fits, Truth
<1> QED
  BY <1>3, <1>5, <1>6 DEF Right

LEMMA LookedStarts == PageInit => DragsKnown /\ LookedInv
<1> SUFFICES ASSUME PageInit PROVE DragsKnown /\ LookedInv
  OBVIOUS
<1>1. Busy = {} /\ Blank /\ ~sidebar.open /\ \A l \in Loads : loads[l] = None
  BY DEF PageInit, ServerInit, Busy, Blank
<1>2. Unasked
  BY DEF PageInit, ChannelInit, ClientInit, Unasked, Silent
<1> QED
  BY <1>1, <1>2 DEF DragsKnown, LookedInv

(* Only the layout that shows a server asks for its topic.                 *)
OnlyLayoutSubscribes == Server \in client'.subscribed \ client.subscribed => \E l \in Loads : ShowLists(l)

LEMMA LookedSteps ==
  ASSUME SoundInv, Sided, DragsKnown, LookedInv, [PageNext]_pageVars, [OnlyLayoutSubscribes]_pageVars
  PROVE  DragsKnown' /\ LookedInv'
<1>0. SideInv /\ ClientTypeOK
  BY DEF SoundInv
<1>1. CASE \E l \in Loads : ListsReplaced(l)
  BY <1>0, <1>1, LoadLooked
<1>2. CASE UNCHANGED serverVars /\ ~\E l \in Loads : ListsReplaced(l)
  <2>1. UNCHANGED <<channels, categories, acts, sidebar, loads, trail>>
    BY <1>2 DEF serverVars
  <2>2. [ClientMoves]_clientVars
    <3>1. CASE UNCHANGED pageVars
      BY <3>1 DEF pageVars, allVars
    <3> QED
      BY <3>1, ClientOnly DEF PageNext
  <2>3. ASSUME Unasked PROVE Unasked'
    <3>1. Server \notin client.subscribed
      BY <2>3 DEF Unasked
    <3>2. CASE UNCHANGED pageVars
      BY <2>3, <3>2 DEF pageVars, allVars, clientVars, Unasked
    <3>3. CASE OnlyLayoutSubscribes
      <4>1. Server \notin client'.subscribed
        BY <1>2, <3>1, <3>3 DEF OnlyLayoutSubscribes, ShowLists
      <4> QED
        BY <1>0, <2>2, <2>3, <4>1, UnaskedKeeps
    <3> QED
      BY <3>2, <3>3
  <2>4. DragsKnown'
    BY <2>1 DEF DragsKnown, Busy, Known, Live
  <2>5. AllRight => AllRight'
    BY <2>1 DEF AllRight, Right, ShownOf, Busy, Truth
  <2> QED
    BY <2>1, <2>3, <2>4, <2>5 DEF LookedInv, Blank
<1>3. ASSUME NEW k \in Acts, ActStarts(k) \/ ActStep(k), UNCHANGED clientVars PROVE DragsKnown' /\ LookedInv'
  BY <1>0, <1>3, StartLooked, StepLooked
<1>4. ASSUME NEW l \in Loads, SidebarStep(l), UNCHANGED clientVars PROVE DragsKnown' /\ LookedInv'
  BY <1>0, <1>4, LoadLooked
<1> QED
  BY <1>1, <1>2, <1>3, <1>4 DEF PageNext, pageVars, ServerNext, ShowLists

(* Whatever is created, moved, deleted and restored at once, and whatever  *)
(* the app has heard of it: no channel that is not in doubt is shown under *)
(* a heading that is not, as long as nothing but the layout, once it has   *)
(* loaded the lists, asks for the topic of the server.                     *)
THEOREM HeadingsStand == PageSpec /\ [][OnlyLayoutSubscribes]_pageVars => []NothingVanishes
<1> DEFINE Inv == SoundInv /\ SidedInv /\ DragsKnown /\ LookedInv
<1>1. PageInit => Inv
  BY SoundStarts, SidedStarts, LookedStarts DEF PageInit
<1>2. Inv /\ [PageNext]_pageVars /\ [OnlyLayoutSubscribes]_pageVars => Inv'
  <2> SUFFICES ASSUME SoundInv, SidedInv, DragsKnown, LookedInv, [PageNext]_pageVars, [OnlyLayoutSubscribes]_pageVars
               PROVE  SoundInv' /\ SidedInv' /\ DragsKnown' /\ LookedInv'
    OBVIOUS
  <2>1. [ServerNext]_serverVars
    BY DEF PageNext, pageVars
  <2>2. SoundInv' /\ SidedInv'
    BY <2>1, SoundSteps, SidedKeeps DEF SoundInv
  <2>3. DragsKnown' /\ LookedInv'
    BY LookedSteps DEF SidedInv
  <2> QED
    BY <2>2, <2>3
<1>3. Inv => NothingVanishes
  BY LookedSays DEF SoundInv, SidedInv
<1> HIDE DEF Inv
<1> QED
  BY <1>1, <1>2, <1>3, PTL DEF PageSpec

-----------------------------------------------------------------------------
(* The list of messages.  What a list or a page says of one message is a   *)
(* version v of it, or None.  r is the row, all whether removed messages   *)
(* are to be seen, cov whether the list reaches as far as the message.     *)
Versions == Row \cup {None}
Posts == {"post", "send"}
See(r, all) == r # None /\ (all \/ ~r.deleted)
Exact(r, all, v, cov) == (v # None => See(r, all) /\ v = r) /\ (See(r, all) /\ cov => v # None)

(* What a request may count on, as long as no other is made for the same   *)
(* message; what it lets a list say that it has not told yet; and whether  *)
(* it is going to tell.                                                    *)
Done(j) == j.stage \in {"read", "tell", "answer"}
Relies(j, r) ==
  /\ j.op \in Posts => IF Done(j) THEN r = Posted /\ j.copy = Posted ELSE r = None
  /\ j.op \in Edits /\ Done(j) => r # None /\ j.copy = r
  /\ j.op \in {"delete", "restore"} =>
       r # None /\ (Done(j) => r.deleted = (j.op = "delete")) /\ (j.stage = "tell" => j.copy = r)
  /\ j.op = "harddelete" /\ Done(j) => r = None
  /\ j.op \in Pinning /\ Done(j) => r = None \/ r.pinned = (j.op = "pin")
Permits(j, r, all, v, cov) ==
  /\ j.op \in Posts => v = None \/ v = r
  /\ j.op \notin Posts /\ ~Done(j) => Exact(r, all, v, cov)
  /\ j.op \in Edits \cup Pinning \cup {"delete"} /\ Done(j) /\ See(r, all) /\ cov => v # None
  /\ j.op \in Pinning /\ Done(j) /\ v # None => See(r, all) /\ [v EXCEPT !.pinned = j.op = "pin"] = r
Telling(j, r) == Done(j) /\ j.stage # "answer" /\ (j.op = "restore" => r # None)

(* A request moves on.                                                     *)
Moved(j, r, i, s) ==
  /\ i # None => i.m = j.m /\ i.op = j.op
  /\ Relies(j, r) =>
       /\ i # None => Relies(i, s)
       /\ \A all, cov \in BOOLEAN, v \in Versions :
            Permits(j, r, all, v, cov) => IF i = None THEN Exact(s, all, v, cov) ELSE Permits(i, s, all, v, cov)
  /\ (i # None /\ Telling(i, s)) \/ (s = r /\ ~Telling(j, r))
Pursues(k, j, r, i, s) ==
  /\ jobs[k] = j /\ rows[j.m] = r /\ Moved(j, r, i, s)
  /\ jobs' = [jobs EXCEPT ![k] = i] /\ rows' = [rows EXCEPT ![j.m] = s]

LEMMA PinsMoves ==
  ASSUME TalkInv, NEW k \in Jobs, WritePins(k)
  PROVE  \E j, i \in Job, r \in Versions : Pursues(k, j, r, i, r)
<1>1. jobs[k] # None /\ jobs[k].stage = "pins" /\ JobTo(k, "write") /\ rows' = rows
  BY DEF WritePins, JobAt
<1>2. PICK j \in Job : j = jobs[k]
  BY <1>1, JobIs
<1>3. PICK r \in Versions : r = rows[j.m]
  BY <1>1, <1>2, JobIs DEF Versions
<1> DEFINE i == [j EXCEPT !.stage = "write"]
<1>4. i \in Job /\ i.stage = "write" /\ i.op = j.op /\ i.m = j.m /\ i.copy = j.copy
  BY <1>2 DEF Job
<1>5. jobs' = [jobs EXCEPT ![k] = i]
  BY <1>1, <1>2 DEF JobTo, TalkInv, TalkTypeOK
<1> HIDE DEF i
<1>6. ~Done(j) /\ ~Done(i) /\ j.stage # "tell" /\ i.stage # "tell"
  BY <1>1, <1>2, <1>4 DEF Done
<1>7. \A all, cov, v : Permits(j, r, all, v, cov) => Permits(i, r, all, v, cov)
  BY <1>4, <1>6, Zenon DEF Permits
<1>8. Relies(j, r) => Relies(i, r)
  BY <1>4, <1>6 DEF Relies
<1>9. i # None
  BY <1>4, MessageRecords
<1>10. ~Telling(j, r)
  BY <1>6 DEF Telling
<1>11. Moved(j, r, i, r)
  BY <1>4, <1>7, <1>8, <1>9, <1>10, Zenon DEF Moved
<1>12. rows' = [rows EXCEPT ![j.m] = r]
  BY <1>1, <1>3 DEF TalkInv, TalkTypeOK
<1> QED
  BY <1>2, <1>3, <1>4, <1>5, <1>11, <1>12 DEF Pursues

LEMMA ReadMoves ==
  ASSUME TalkInv, NEW k \in Jobs, ReadAgain(k)
  PROVE  \E j \in Job, i \in Job \cup {None}, r \in Versions : Pursues(k, j, r, i, r)
<1>1. /\ jobs[k] # None /\ jobs[k].stage = "read" /\ rows' = rows
      /\ IF jobs[k].op = "restore" /\ rows[jobs[k].m] = None THEN JobOver(k)
         ELSE jobs' = [jobs EXCEPT ![k].stage = "tell", ![k].copy = rows[jobs[k].m]]
  BY DEF ReadAgain, JobAt
<1>2. PICK j \in Job : j = jobs[k] /\ j.op \in {"delete", "restore"}
  BY <1>1, JobIs DEF JobShaped
<1>3. PICK r \in Versions : r = rows[j.m]
  BY <1>1, <1>2, JobIs DEF Versions
<1>4. rows' = [rows EXCEPT ![j.m] = r]
  BY <1>1, <1>3 DEF TalkInv, TalkTypeOK
<1>5. Done(j) /\ j.op \notin Posts /\ j.op \notin Edits /\ j.op \notin Pinning /\ j.op # "harddelete" /\ j.stage = "read"
  BY <1>1, <1>2 DEF Done, Posts, Edits, Pinning
<1>6. CASE j.op = "restore" /\ r = None
  <2>1. jobs' = [jobs EXCEPT ![k] = None]
    BY <1>1, <1>2, <1>3, <1>6 DEF JobOver
  <2>2. ~Relies(j, r) /\ ~Telling(j, r)
    BY <1>5, <1>6 DEF Relies, Telling
  <2>3. Moved(j, r, None, r)
    BY <2>2, Zenon DEF Moved
  <2> QED
    BY <1>2, <1>3, <1>4, <2>1, <2>3 DEF Pursues
<1>7. CASE ~(j.op = "restore" /\ r = None)
  <2>1. PICK stage \in {"pins", "write", "read", "tell", "answer"}, copy \in Row \cup {None} :
          stage = "tell" /\ copy = r /\ StagedAs(k, stage, copy)
    BY <1>1, <1>2, <1>3, <1>7 DEF StagedAs, Versions
  <2>2. PICK i \in Job : /\ jobs' = [jobs EXCEPT ![k] = i] /\ i.stage = "tell" /\ i.copy = r
                         /\ i.op = j.op /\ i.m = j.m
    BY <1>1, <1>2, <2>1, JobForm
  <2>3. Done(i) /\ i # None
    BY <2>2, MessageRecords DEF Done
  <2>4. Relies(j, r) => Relies(i, r)
    BY <1>5, <2>2, <2>3 DEF Relies
  <2>5. \A all, cov, v : Permits(j, r, all, v, cov) => Permits(i, r, all, v, cov)
    BY <1>5, <2>2, <2>3, Zenon DEF Permits
  <2>6. Telling(i, r)
    BY <1>7, <2>2, <2>3 DEF Telling
  <2>7. Moved(j, r, i, r)
    BY <2>2, <2>3, <2>4, <2>5, <2>6, Zenon DEF Moved
  <2> QED
    BY <1>2, <1>3, <1>4, <2>2, <2>7 DEF Pursues
<1> QED
  BY <1>6, <1>7

(* The row that is written, and the request that has written it.           *)
LEMMA WrittenIs ==
  ASSUME NEW j \in Job, j.stage = "write", NEW r \in Versions, NEW s \in Versions, NEW i \in Job,
         s = IF r = None /\ j.op \notin Posts THEN None ELSE Written(j.op, r),
         i.op = j.op, i.m = j.m, i.stage = IF j.op \in {"delete", "restore"} THEN "read" ELSE "tell",
         i.copy = IF j.op \in Edits \cup Posts THEN s ELSE None,
         ~(j.op \in Edits /\ s = None)
  PROVE  Moved(j, r, i, s)
<1>1. ~Done(j) /\ Done(i) /\ i.stage # "answer" /\ j.op \in Ops /\ i # None
  BY MessageRecords DEF Done, Job
<1>2. None \notin Row /\ Posted \in Row /\ Posted # None
  BY MessageRecords, PostedIsRow
<1>0. ASSUME Telling(i, s),
             Relies(j, r) => Relies(i, s),
             ASSUME Relies(j, r), NEW all \in BOOLEAN, NEW cov \in BOOLEAN, NEW v \in Versions, Permits(j, r, all, v, cov)
             PROVE  Permits(i, s, all, v, cov)
      PROVE  Moved(j, r, i, s)
  BY <1>0, <1>1, Zenon DEF Moved
<1>3. CASE j.op \in Posts
  <2>1. s = Posted /\ i.copy = Posted
    BY <1>3 DEF Written, Posts, Pinning
  <2>2. j.op \notin Edits /\ j.op \notin Pinning /\ j.op \notin {"delete", "restore"} /\ j.op # "harddelete"
    BY <1>3 DEF Posts, Edits, Pinning
  <2>3. Telling(i, s)
    BY <1>1, <2>2 DEF Telling
  <2>4. Relies(i, s)
    BY <1>1, <1>3, <2>1, <2>2 DEF Relies
  <2>5. ASSUME Relies(j, r), NEW all \in BOOLEAN, NEW cov \in BOOLEAN, NEW v \in Versions, Permits(j, r, all, v, cov)
        PROVE  Permits(i, s, all, v, cov)
    <3>1. r = None
      BY <1>1, <1>3, <2>5, Zenon DEF Relies
    <3>2. v = None
      BY <1>3, <2>5, <3>1, Zenon DEF Permits
    <3> QED
      BY <1>3, <2>2, <3>2, Zenon DEF Permits
  <2> QED
    BY <1>0, <2>3, <2>4, <2>5
<1>4. CASE j.op \in Edits
  <2>1. j.op \notin Posts /\ j.op \notin Pinning /\ j.op \notin {"delete", "restore"} /\ j.op # "harddelete"
    BY <1>4 DEF Posts, Edits, Pinning
  <2>2. s # None /\ r # None /\ i.copy = s
    BY <1>4, <2>1
  <2>3. r \in Row /\ s = Written(j.op, r) /\ s \in Row
    BY <2>1, <2>2 DEF Versions
  <2>4. s.deleted = r.deleted
    BY <1>4, <2>1, <2>3 DEF Written, Edits, Posts, Pinning, Row
  <2>5. Telling(i, s)
    BY <1>1, <2>1 DEF Telling
  <2>6. Relies(i, s)
    BY <1>4, <2>1, <2>2 DEF Relies
  <2>7. ASSUME Relies(j, r), NEW all \in BOOLEAN, NEW cov \in BOOLEAN, NEW v \in Versions, Permits(j, r, all, v, cov)
        PROVE  Permits(i, s, all, v, cov)
    <3>1. Exact(r, all, v, cov)
      BY <1>1, <2>1, <2>7, Zenon DEF Permits
    <3>2. See(s, all) /\ cov => v # None
      BY <2>2, <2>4, <3>1, Zenon DEF Exact, See
    <3> QED
      BY <1>1, <2>1, <3>2, Zenon DEF Permits
  <2> QED
    BY <1>0, <2>5, <2>6, <2>7
<1>5. CASE j.op \in {"delete", "restore"}
  <2>1. j.op \notin Posts /\ j.op \notin Pinning /\ j.op \notin Edits /\ j.op # "harddelete" /\ i.stage = "read"
    BY <1>5 DEF Posts, Edits, Pinning
  <2>2. CASE r = None
    <3>1. ~Relies(j, r)
      BY <1>5, <2>2 DEF Relies
    <3>2. s = r /\ ~Telling(j, r)
      BY <1>1, <2>1, <2>2 DEF Telling
    <3> QED
      BY <1>1, <3>1, <3>2, Zenon DEF Moved
  <2>3. CASE r # None
    <3>1. r \in Row /\ s = Written(j.op, r)
      BY <2>3 DEF Versions
    <3>2. s = [r EXCEPT !.deleted = j.op = "delete"]
      BY <1>5, <2>1, <3>1 DEF Written, Edits, Posts, Pinning
    <3>3. s # None /\ s.deleted = (j.op = "delete")
      <4> HIDE DEF Versions
      <4>1. s \in Row /\ s.deleted = (j.op = "delete")
        BY <3>1, <3>2 DEF Row
      <4> QED
        BY <1>2, <4>1
    <3>4. Telling(i, s)
      BY <1>1, <3>3 DEF Telling
    <3>5. Relies(i, s)
      BY <1>5, <2>1, <3>3 DEF Relies
    <3>6. ASSUME Relies(j, r), NEW all \in BOOLEAN, NEW cov \in BOOLEAN, NEW v \in Versions, Permits(j, r, all, v, cov)
          PROVE  Permits(i, s, all, v, cov)
      <4>1. Exact(r, all, v, cov)
        BY <1>1, <2>1, <3>6, Zenon DEF Permits
      <4>2. See(s, all) /\ cov /\ j.op = "delete" => v # None
        BY <2>3, <3>3, <4>1 DEF Exact, See
      <4> QED
        BY <1>1, <2>1, <4>2 DEF Permits
    <3> QED
      BY <1>0, <3>4, <3>5, <3>6
  <2> QED
    BY <2>2, <2>3
<1>6. CASE j.op = "harddelete"
  <2>1. j.op \notin Posts /\ j.op \notin Pinning /\ j.op \notin Edits /\ j.op \notin {"delete", "restore"}
    BY <1>6 DEF Posts, Edits, Pinning
  <2>2. s = None
    BY <1>6, <2>1 DEF Written, Posts, Edits, Pinning
  <2>3. Telling(i, s) /\ Relies(i, s)
    BY <1>1, <1>6, <2>1, <2>2 DEF Telling, Relies
  <2>4. \A all, cov, v : Permits(i, s, all, v, cov)
    BY <1>1, <1>6, <2>1, Zenon DEF Permits
  <2> QED
    BY <1>0, <2>3, <2>4
<1>7. CASE j.op \in Pinning
  <2>1. j.op \notin Posts /\ j.op # "harddelete" /\ j.op \notin Edits /\ j.op \notin {"delete", "restore"}
    BY <1>7 DEF Posts, Edits, Pinning
  <2>2. s = IF r = None THEN None ELSE [r EXCEPT !.pinned = j.op = "pin"]
    BY <1>7, <2>1 DEF Written, Posts, Edits, Pinning
  <2>3. r # None => r \in Row /\ s \in Row /\ s # None /\ s.pinned = (j.op = "pin") /\ s.deleted = r.deleted
    <3>1. PICK b \in BOOLEAN : b = (j.op = "pin")
      OBVIOUS
    <3>2. r # None => r \in Row /\ s = [r EXCEPT !.pinned = b]
      BY <2>2, <3>1 DEF Versions
    <3>3. r # None => r \in Row /\ s \in Row /\ s.pinned = b /\ s.deleted = r.deleted
      BY <3>2 DEF Row
    <3> QED
      BY <1>2, <3>1, <3>3
  <2>4. Telling(i, s) /\ Relies(i, s)
    BY <1>1, <1>7, <2>1, <2>2, <2>3 DEF Telling, Relies
  <2>5. ASSUME Relies(j, r), NEW all \in BOOLEAN, NEW cov \in BOOLEAN, NEW v \in Versions, Permits(j, r, all, v, cov)
        PROVE  Permits(i, s, all, v, cov)
    <3>1. Exact(r, all, v, cov)
      BY <1>1, <2>1, <2>5, Zenon DEF Permits
    <3>2. See(s, all) <=> See(r, all)
      BY <2>2, <2>3 DEF See
    <3>3. See(s, all) /\ cov => v # None
      BY <3>1, <3>2, Zenon DEF Exact
    <3>4. ASSUME v # None PROVE See(s, all) /\ [v EXCEPT !.pinned = j.op = "pin"] = s
      <4>1. See(r, all) /\ v = r
        BY <3>1, <3>4, Zenon DEF Exact
      <4> QED
        BY <2>2, <3>2, <3>4, <4>1
    <3> QED
      BY <1>1, <2>1, <3>3, <3>4, Zenon DEF Permits
  <2> QED
    BY <1>0, <2>4, <2>5
<1> QED
  BY <1>1, <1>3, <1>4, <1>5, <1>6, <1>7 DEF Ops, Posts

LEMMA WriteMoves ==
  ASSUME TalkInv, NEW k \in Jobs, WriteRow(k)
  PROVE  \E j \in Job, i \in Job \cup {None}, r, s \in Versions : Pursues(k, j, r, i, s)
<1> DEFINE op == jobs[k].op
           m == jobs[k].m
           row == IF rows[m] = None /\ op \notin {"post", "send"} THEN None ELSE Written(op, rows[m])
           stage == IF op \in {"delete", "restore"} THEN "read" ELSE "tell"
           copy == IF op \in Edits \cup {"post", "send"} THEN row ELSE None
<1>1. /\ jobs[k] # None /\ jobs[k].stage = "write"
      /\ rows' = [rows EXCEPT ![m] = row]
      /\ IF op \in Edits /\ row = None THEN JobOver(k) ELSE jobs' = [jobs EXCEPT ![k].stage = stage, ![k].copy = copy]
  BY DEF WriteRow, JobAt
<1>2. jobs[k] \in Job /\ m \in Messages /\ op \in Ops /\ rows[m] \in Row \cup {None}
  BY <1>1, JobIs DEF Job
<1>3. row \in Versions
  BY <1>2, WrittenTypes DEF Versions
<1>4. PICK r \in Versions, s \in Versions : r = rows[m] /\ s = row
  BY <1>2, <1>3 DEF Versions
<1>5. PICK j \in Job : j = jobs[k]
  BY <1>2
<1>6. /\ s = IF r = None /\ j.op \notin Posts THEN None ELSE Written(j.op, r)
      /\ copy = IF j.op \in Edits \cup Posts THEN s ELSE None
      /\ rows[j.m] = r /\ rows' = [rows EXCEPT ![j.m] = s]
  BY <1>1, <1>4, <1>5 DEF Posts
<1> HIDE DEF row
<1>8. CASE op \in Edits /\ s = None
  <2>1. jobs' = [jobs EXCEPT ![k] = None] /\ j.op \notin Posts /\ ~Done(j) /\ r = None
    <3>1. j.op \in Edits /\ j.op \notin Posts
      BY <1>5, <1>8 DEF Edits, Posts
    <3>2. r # None => Written(j.op, r) \in Row
      BY <1>5, <1>2, <1>4, <3>1, WrittenTypes DEF Versions, Edits
    <3>3. r = None
      BY <1>6, <1>8, <3>1, <3>2, MessageRecords
    <3> QED
      BY <1>1, <1>4, <1>5, <1>8, <3>1, <3>3 DEF JobOver, Done
  <2>2. \A all, cov, v : Permits(j, r, all, v, cov) => Exact(s, all, v, cov)
    BY <1>8, <2>1, Zenon DEF Permits
  <2>3. ~Telling(j, r) /\ s = r
    BY <1>8, <2>1 DEF Telling
  <2>4. Moved(j, r, None, s)
    BY <2>2, <2>3, Zenon DEF Moved
  <2> QED
    BY <1>5, <1>6, <2>1, <2>4 DEF Pursues
<1>9. CASE ~(op \in Edits /\ s = None)
  <2>1. stage \in {"pins", "write", "read", "tell", "answer"} /\ copy \in Row \cup {None}
    BY <1>4, <1>6 DEF Versions
  <2>2. PICK i \in Job : jobs' = [jobs EXCEPT ![k] = i] /\ i.stage = stage /\ i.copy = copy /\ i.op = op /\ i.m = m
    <3>1. StagedAs(k, stage, copy)
      BY <1>1, <1>4, <1>9 DEF StagedAs
    <3> HIDE DEF stage, copy
    <3> QED
      BY <1>1, <2>1, <3>1, JobForm
  <2>3. i.stage = IF j.op \in {"delete", "restore"} THEN "read" ELSE "tell"
    BY <1>5, <2>2
  <2>4. i.copy = IF j.op \in Edits \cup Posts THEN s ELSE None
    BY <1>6, <2>2
  <2>5. j.stage = "write" /\ i.op = j.op /\ i.m = j.m /\ ~(j.op \in Edits /\ s = None)
    BY <1>1, <1>5, <1>9, <2>2
  <2> HIDE DEF stage, copy, op, m
  <2>6. Moved(j, r, i, s)
    BY <1>6, <2>3, <2>4, <2>5, WrittenIs
  <2> QED
    BY <1>5, <1>6, <2>2, <2>6 DEF Pursues
<1> QED
  BY <1>8, <1>9

-----------------------------------------------------------------------------
(* What lists and pages say fits the rows and the requests under way: of a *)
(* message with no request about it exactly what the row says, of another  *)
(* what its request permits.  A page that nothing was told about since may *)
(* be behind the row only if somebody is going to tell.                    *)
On(m, k, j) == jobs[k] = j /\ j.m = m
Fit(r, all, m, v, cov) ==
  /\ \A k \in Jobs, j \in Job : On(m, k, j) => Permits(j, r, all, v, cov)
  /\ (\A k \in Jobs, j \in Job : ~On(m, k, j)) => Exact(r, all, v, cov)
UpToDate(r, all, m, v, cov) ==
  Exact(r, all, v, cov) \/ \E k \in Jobs, j \in Job : On(m, k, j) /\ Telling(j, r)

Holds(s, m, v) ==
  IF v = None THEN \A i \in DOMAIN s : s[i].id # m ELSE \E i \in DOMAIN s : s[i].id = m /\ s[i].row = v
Below(s, m) == \E i \in DOMAIN s : s[i].id <= m
Rising(s) == \A i, j \in DOMAIN s : i < j => s[i].id < s[j].id
Upto(s, n) == \A i \in DOMAIN s : s[i].id <= n
From(s, n) == \A i \in DOMAIN s : s[i].id >= n

Viewed(g, m, all, v, cov) ==
  /\ m \notin g.stale /\ (g.before = 0 \/ m < g.before) /\ all = g.all
  /\ cov => Below(g.page, m) \/ (g.all /\ Len(g.page) < Page)
  /\ Holds(g.page, m, v)
PageFits(g) ==
  /\ Rising(g.page) /\ \A i \in DOMAIN g.page : g.before = 0 \/ g.page[i].id < g.before
  /\ \A m \in Messages, r \in Versions, all, cov \in BOOLEAN, v \in Versions :
       rows[m] = r /\ Viewed(g, m, all, v, cov) =>
         UpToDate(r, all, m, v, cov) /\ (m \notin log.suspect => Fit(r, all, m, v, cov))

(* A page that is still to go before the list it was asked for; how far a  *)
(* list reaches.                                                           *)
Late(g) == g.kind \in {"scroll", "jump"} /\ ~g.old
Spanned(m) ==
  \/ Below(app.cache, m) \/ (reveal /\ ~app.more)
  \/ \E f \in Fetches, g \in Fetch : fetches[f] = g /\ Late(g) /\ m >= g.before
Displayed(m, all, v, cov) == all = reveal /\ (cov => Spanned(m)) /\ Holds(app.cache, m, v)
Sound ==
  app.open /\ ~log.crossed /\ ~log.rivals
    /\ \A f \in Fetches, g \in Fetch : fetches[f] = g => g.kind # "refetch"

Counts(g, n) ==
  g.before <= n /\ Upto(g.page, n) /\ (g.before = 0 <=> g.kind \in {"load", "refetch"})
Numbered ==
  /\ \A m \in Messages : rows[m] # None => m <= clock
  /\ \A m \in due : m <= clock
  /\ \A k \in Jobs, j \in Job : jobs[k] = j => j.m <= clock
  /\ Upto(app.cache, clock)
  /\ \A f \in Fetches, g \in Fetch : fetches[f] = g => Counts(g, clock)
Collide ==
  \A k, l \in Jobs, i, j \in Job : jobs[k] = j /\ jobs[l] = i /\ k # l /\ i.m = j.m => j.m \in log.suspect
AllRely ==
  \A k \in Jobs, j \in Job, r \in Versions :
    jobs[k] = j /\ rows[j.m] = r => j.m \in log.suspect \/ Relies(j, r)
PagesTell == \A f \in Fetches, g \in Fetch : fetches[f] = g /\ g.read => PageFits(g)
ListTells ==
  Sound =>
    /\ Rising(app.cache)
    /\ \A f \in Fetches, g \in Fetch : fetches[f] = g /\ Late(g) => g.all = reveal /\ From(app.cache, g.before)
    /\ \A m \in Messages, r \in Versions, all, cov \in BOOLEAN, v \in Versions :
         rows[m] = r /\ m \notin log.suspect /\ Displayed(m, all, v, cov) => Fit(r, all, m, v, cov)

(* Messages are told of in turn: what is newer than one that is still      *)
(* being posted has not been told of; nothing in the list, and nothing it  *)
(* was asked to go before, is newer.                                       *)
PostsAt(k, j) == jobs[k] = j /\ j.op \in Posts
Untold(m) == \E k \in Jobs, j \in Job : On(m, k, j) /\ j.op \in Posts /\ j.stage # "answer"
Orderly ==
  ~log.rivals => \A k \in Jobs, j \in Job : PostsAt(k, j) =>
    /\ \A m \in Messages : j.m < m /\ m <= clock => m \in log.suspect \/ Untold(m)
    /\ \A l \in Jobs, h \in Job : PostsAt(l, h) /\ h.stage = "answer" => h.m <= j.m
Ahead ==
  Sound => \A k \in Jobs, j \in Job : PostsAt(k, j) =>
    Upto(app.cache, j.m) /\ \A f \in Fetches, g \in Fetch : fetches[f] = g /\ Late(g) => g.before <= j.m
CacheInv == Numbered /\ Collide /\ AllRely /\ PagesTell /\ ListTells /\ Orderly /\ Ahead

(* It is what was to be shown.                                             *)
LEMMA CacheSays == ASSUME TalkInv, CacheInv PROVE CacheTells
<1> SUFFICES ASSUME Steady PROVE
      /\ InOrder
      /\ \A m \in Messages \ (log.suspect \cup AtWork) :
           /\ \A i \in DOMAIN app.cache : app.cache[i].id = m => Visible(m) /\ app.cache[i].row = rows[m]
           /\ Visible(m) /\ Covered(m) => InCache(m)
  BY Zenon DEF CacheTells
<1>1. Sound
  <2>1. \A f \in Fetches, g \in Fetch : fetches[f] = g => g.kind # "refetch"
    BY MessageRecords DEF Steady
  <2> QED
    BY <2>1 DEF Steady, Sound
<1>2. Rising(app.cache)
  BY <1>1, Zenon DEF CacheInv, ListTells
<1>3. ASSUME NEW m \in Messages, m \notin log.suspect, m \notin AtWork, NEW r \in Versions, rows[m] = r,
             NEW all \in BOOLEAN, NEW cov \in BOOLEAN, NEW v \in Versions, Displayed(m, all, v, cov)
      PROVE  Exact(r, all, v, cov)
  <2>1. Fit(r, all, m, v, cov)
    BY <1>1, <1>3, Zenon DEF CacheInv, ListTells
  <2>2. \A k \in Jobs, j \in Job : ~On(m, k, j)
    BY <1>3, MessageRecords DEF On, AtWork
  <2> QED
    BY <2>1, <2>2, Zenon DEF Fit
<1>4. ASSUME NEW m \in Messages, m \notin log.suspect, m \notin AtWork
      PROVE  /\ \A i \in DOMAIN app.cache : app.cache[i].id = m => Visible(m) /\ app.cache[i].row = rows[m]
             /\ Visible(m) /\ Covered(m) => InCache(m)
  <2>1. PICK all \in BOOLEAN, r \in Versions : all = reveal /\ r = rows[m]
    BY DEF TalkInv, TalkTypeOK, Versions
  <2>2. ASSUME NEW i \in DOMAIN app.cache, app.cache[i].id = m PROVE Visible(m) /\ app.cache[i].row = rows[m]
    <3>1. app.cache[i] \in Copy
      BY AppIs
    <3>2. PICK v \in Row : v = app.cache[i].row
      BY <3>1 DEF Copy
    <3>3. v # None /\ v \in Versions
      BY <3>2, MessageRecords DEF Versions
    <3>4. PICK cov \in BOOLEAN : ~cov
      OBVIOUS
    <3>5. Holds(app.cache, m, v)
      BY <2>2, <3>2, <3>3 DEF Holds
    <3>6. Displayed(m, all, v, cov)
      BY <2>1, <3>4, <3>5 DEF Displayed
    <3>7. Exact(r, all, v, cov)
      BY <1>3, <1>4, <2>1, <3>3, <3>6
    <3> QED
      BY <2>1, <3>2, <3>3, <3>7 DEF Exact, See, Visible
  <2>3. ASSUME Visible(m), Covered(m), ~InCache(m) PROVE FALSE
    <3>1. PICK v \in Versions, cov \in BOOLEAN : v = None /\ cov
      BY DEF Versions
    <3>2. Holds(app.cache, m, v)
      BY <2>3, <3>1 DEF Holds, InCache
    <3>3. Spanned(m)
      <4>1. CASE app.cache # <<>> /\ m >= Oldest
        <5>1. 1 \in DOMAIN app.cache /\ app.cache[1].id <= m
          <6>1. app.cache \in Seq(Copy)
            BY AppIs
          <6>2. Head(app.cache) = app.cache[1] /\ 1 \in DOMAIN app.cache /\ app.cache[1] \in Copy
            BY <4>1, <6>1
          <6> QED
            BY <4>1, <6>2 DEF Oldest, Copy, Messages
        <5> QED
          BY <5>1 DEF Spanned, Below
      <4> QED
        BY <2>3, <4>1 DEF Covered, Spanned
    <3>4. Displayed(m, all, v, cov)
      BY <2>1, <3>2, <3>3 DEF Displayed
    <3>5. Exact(r, all, v, cov)
      BY <1>3, <1>4, <2>1, <3>4
    <3> QED
      BY <2>1, <2>3, <3>1, <3>5 DEF Exact, See, Visible
  <2> QED
    BY <2>2, <2>3
<1> QED
  BY <1>2, <1>4 DEF InOrder, Rising

LEMMA JobIn == ASSUME TalkInv, NEW k \in Jobs PROVE jobs[k] \in Job \cup {None} /\ None \notin Job
BY MessageRecords DEF TalkInv, TalkTypeOK

(* What a step does to one request is nothing to other messages.           *)
LEMMA Elsewhere ==
  ASSUME TalkInv, NEW k \in Jobs, NEW i \in Job \cup {None}, jobs' = [jobs EXCEPT ![k] = i], NEW m,
         jobs[k] # None => jobs[k].m # m, i # None => i.m # m,
         NEW r, NEW all, NEW v, NEW cov
  PROVE  /\ Fit(r, all, m, v, cov) => Fit(r, all, m, v, cov)'
         /\ UpToDate(r, all, m, v, cov) => UpToDate(r, all, m, v, cov)'
<1>1. ASSUME NEW l \in Jobs, NEW j \in Job PROVE On(m, l, j)' <=> On(m, l, j)
  <2>1. CASE l = k
    <3>1. jobs'[k] = i
      BY DEF TalkInv, TalkTypeOK
    <3>2. ~On(m, k, j) /\ ~On(m, k, j)'
      BY <3>1, MessageRecords DEF On
    <3> QED
      BY <2>1, <3>2
  <2>2. CASE l # k
    <3>1. jobs'[l] = jobs[l]
      BY <2>2 DEF TalkInv, TalkTypeOK
    <3> QED
      BY <3>1 DEF On
  <2> QED
    BY <2>1, <2>2
<1> QED
  BY <1>1, Zenon DEF Fit, UpToDate

(* A request that moves on leaves what is said of its message fitting.     *)
LEMMA PursuitFits ==
  ASSUME TalkInv, Collide, AllRely, NEW k \in Jobs, NEW j \in Job, NEW i \in Job \cup {None},
         NEW r \in Versions, NEW s \in Versions, Pursues(k, j, r, i, s),
         NEW m \in Messages, NEW x \in Versions, NEW y \in Versions, rows[m] = x, rows'[m] = y,
         NEW all \in BOOLEAN, NEW v \in Versions, NEW cov \in BOOLEAN
  PROVE  /\ m \notin log.suspect /\ Fit(x, all, m, v, cov) => Fit(y, all, m, v, cov)'
         /\ UpToDate(x, all, m, v, cov) => UpToDate(y, all, m, v, cov)'
<1>1. /\ jobs[k] = j /\ rows[j.m] = r /\ Moved(j, r, i, s)
      /\ jobs' = [jobs EXCEPT ![k] = i] /\ rows' = [rows EXCEPT ![j.m] = s]
  BY DEF Pursues
<1>2. j # None /\ j.m \in Messages /\ (i # None => i \in Job /\ i.m = j.m)
  BY <1>1, MessageRecords DEF Moved, Job
<1>3. jobs'[k] = i /\ \A l \in Jobs \ {k} : jobs'[l] = jobs[l]
  BY <1>1 DEF TalkInv, TalkTypeOK
<1>4. CASE m # j.m
  <2>1. y = x
    BY <1>1, <1>2, <1>4 DEF TalkInv, TalkTypeOK
  <2> QED
    BY <1>1, <1>2, <1>4, <2>1, Elsewhere
<1>5. CASE m = j.m
  <2>1. x = r /\ y = s
    BY <1>1, <1>2, <1>5 DEF TalkInv, TalkTypeOK
  <2>2. ASSUME m \notin log.suspect, Fit(x, all, m, v, cov) PROVE Fit(y, all, m, v, cov)'
    <3>1. Relies(j, r)
      BY <1>1, <1>5, <2>2, Zenon DEF AllRely
    <3>2. Permits(j, r, all, v, cov)
      BY <1>1, <1>5, <2>1, <2>2, Zenon DEF Fit, On
    <3>3. IF i = None THEN Exact(s, all, v, cov) ELSE Permits(i, s, all, v, cov)
      BY <1>1, <3>1, <3>2, Zenon DEF Moved
    <3>4. ASSUME NEW l \in Jobs, NEW h \in Job, On(m, l, h)' PROVE l = k /\ h = i
      <4>1. CASE l = k
        BY <1>3, <3>4, <4>1 DEF On
      <4>2. CASE l # k
        <5>1. jobs[l] = h /\ h.m = m
          BY <1>3, <3>4, <4>2 DEF On
        <5> QED
          BY <1>1, <1>5, <2>2, <4>2, <5>1, Zenon DEF Collide
      <4> QED
        BY <4>1, <4>2
    <3>5. CASE i = None
      <4>1. \A l \in Jobs, h \in Job : ~On(m, l, h)'
        BY <3>4, <3>5, MessageRecords
      <4> QED
        BY <2>1, <3>3, <3>5, <4>1, Zenon DEF Fit
    <3>6. CASE i # None
      <4>1. i \in Job /\ On(m, k, i)'
        BY <1>2, <1>3, <1>5, <3>6 DEF On
      <4>2. \A l \in Jobs, h \in Job : On(m, l, h)' => Permits(h, y, all, v, cov)
        BY <2>1, <3>3, <3>4, <3>6
      <4> QED
        BY <4>1, <4>2, Zenon DEF Fit
    <3> QED
      BY <3>5, <3>6
  <2>3. ASSUME UpToDate(x, all, m, v, cov) PROVE UpToDate(y, all, m, v, cov)'
    <3>1. CASE i # None /\ Telling(i, s)
      <4>1. i \in Job /\ On(m, k, i)' /\ Telling(i, y)
        BY <1>2, <1>3, <1>5, <2>1, <3>1 DEF On
      <4> QED
        BY <4>1, Zenon DEF UpToDate
    <3>2. CASE s = r /\ ~Telling(j, r)
      <4>1. CASE Exact(x, all, v, cov)
        BY <2>1, <3>2, <4>1, Zenon DEF UpToDate
      <4>2. CASE \E l \in Jobs, h \in Job : On(m, l, h) /\ Telling(h, x)
        <5>1. PICK l \in Jobs, h \in Job : On(m, l, h) /\ Telling(h, x)
          BY <4>2
        <5>2. l # k
          BY <1>1, <2>1, <3>2, <5>1 DEF On
        <5>3. On(m, l, h)'
          BY <1>3, <5>1, <5>2 DEF On
        <5> QED
          BY <2>1, <3>2, <5>1, <5>3, Zenon DEF UpToDate
      <4> QED
        BY <2>3, <4>1, <4>2, Zenon DEF UpToDate
    <3> QED
      BY <1>1, <3>1, <3>2, Zenon DEF Moved
  <2> QED
    BY <2>2, <2>3
<1> QED
  BY <1>4, <1>5

(* As long as neither lists nor pages change, it is enough that what is    *)
(* said of every message goes on fitting.                                  *)
LEMMA ViewsStay ==
  ASSUME TalkInv, PagesTell, ListTells, UNCHANGED <<fetches, app, reveal>>, rows' \in [Messages -> Versions],
         log'.crossed = log.crossed, log.rivals => log'.rivals, log.suspect \subseteq log'.suspect,
         ASSUME NEW m \in Messages, NEW x \in Versions, NEW y \in Versions, rows[m] = x, rows'[m] = y,
                NEW all \in BOOLEAN, NEW v \in Versions, NEW cov \in BOOLEAN
         PROVE  /\ m \notin log'.suspect /\ Fit(x, all, m, v, cov) => Fit(y, all, m, v, cov)'
                /\ UpToDate(x, all, m, v, cov) => UpToDate(y, all, m, v, cov)'
  PROVE  PagesTell' /\ ListTells'
<1>1. \A m \in Messages : rows[m] \in Versions
  BY DEF TalkInv, TalkTypeOK, Versions
<1>2. PagesTell'
  <2> SUFFICES ASSUME NEW f \in Fetches, NEW g \in Fetch, fetches[f] = g, g.read PROVE PageFits(g)'
    BY Zenon DEF PagesTell
  <2>1. PageFits(g)
    BY Zenon DEF PagesTell
  <2>2. ASSUME NEW m \in Messages, NEW y \in Versions, NEW all \in BOOLEAN, NEW cov \in BOOLEAN, NEW v \in Versions,
               rows'[m] = y, Viewed(g, m, all, v, cov)
        PROVE  UpToDate(y, all, m, v, cov)' /\ (m \notin log'.suspect => Fit(y, all, m, v, cov)')
    <3>1. PICK x \in Versions : rows[m] = x
      BY <1>1
    <3>2. UpToDate(x, all, m, v, cov) /\ (m \notin log.suspect => Fit(x, all, m, v, cov))
      BY <2>1, <2>2, <3>1, Zenon DEF PageFits
    <3>3. m \notin log'.suspect => m \notin log.suspect
      OBVIOUS
    <3> QED
      BY <2>2, <3>1, <3>2, <3>3
  <2> QED
    BY <2>1, <2>2, Zenon DEF PageFits
<1>3. ListTells'
  <2> SUFFICES ASSUME Sound' PROVE
        /\ Rising(app'.cache)
        /\ \A f \in Fetches, g \in Fetch : fetches'[f] = g /\ Late(g) => g.all = reveal' /\ From(app'.cache, g.before)
        /\ \A m \in Messages, r \in Versions, all, cov \in BOOLEAN, v \in Versions :
             rows'[m] = r /\ m \notin log'.suspect /\ Displayed(m, all, v, cov)' => Fit(r, all, m, v, cov)'
    BY Zenon DEF ListTells
  <2>0. \A m, all, v, cov : Displayed(m, all, v, cov)' <=> Displayed(m, all, v, cov)
    BY DEF Displayed, Spanned
  <2>1. Sound
    BY DEF Sound
  <2>2. ASSUME NEW m \in Messages, NEW y \in Versions, NEW all \in BOOLEAN, NEW cov \in BOOLEAN, NEW v \in Versions,
               rows'[m] = y, m \notin log'.suspect, Displayed(m, all, v, cov)'
        PROVE  Fit(y, all, m, v, cov)'
    <3>1. PICK x \in Versions : rows[m] = x
      BY <1>1
    <3>2. m \notin log.suspect
      BY <2>2
    <3>3. Fit(x, all, m, v, cov)
      BY <2>0, <2>1, <2>2, <3>1, <3>2, Zenon DEF ListTells
    <3> QED
      BY <2>2, <3>1, <3>3
  <2>3. /\ Rising(app'.cache)
        /\ \A f \in Fetches, g \in Fetch : fetches'[f] = g /\ Late(g) => g.all = reveal' /\ From(app'.cache, g.before)
    BY <2>1 DEF ListTells
  <2> QED
    BY <2>2, <2>3
<1> QED
  BY <1>2, <1>3

(* A message is written and then told of; nothing else comes of it before. *)
LEMMA PostsPursued ==
  ASSUME TalkInv, NEW k \in Jobs, WritePins(k) \/ WriteRow(k) \/ ReadAgain(k), jobs[k].op \in Posts
  PROVE  jobs'[k] # None /\ jobs'[k].stage # "answer"
<1>1. jobs[k] \in Job /\ JobShaped(jobs[k])
  BY JobIs DEF WritePins, WriteRow, ReadAgain, JobAt
<1>2. jobs[k].op \notin Edits /\ jobs[k].op \notin Pinning /\ jobs[k].op \notin {"delete", "restore", "harddelete"}
  BY DEF Posts, Edits, Pinning
<1>3. WriteRow(k)
  BY <1>1, <1>2 DEF WritePins, ReadAgain, JobAt, JobShaped
<1>4. PICK copy \in Row \cup {None} : StagedAs(k, "tell", copy)
  <2>1. PICK copy : copy = IF rows[jobs[k].m] = None /\ jobs[k].op \notin {"post", "send"} THEN None
                           ELSE Written(jobs[k].op, rows[jobs[k].m])
    OBVIOUS
  <2>2. copy = Posted
    <3>1. jobs[k].op \in {"post", "send"} /\ jobs[k].op \notin {"update", "embed", "clear"}
      BY <1>2 DEF Posts, Edits
    <3>2. Written(jobs[k].op, rows[jobs[k].m]) = Posted
      BY <1>2, <3>1 DEF Written
    <3> QED
      BY <2>1, <3>1, <3>2
  <2>3. Posted \in Row
    BY DEF Posted, Row
  <2>4. StagedAs(k, "tell", copy)
    BY <1>2, <1>3, <2>1 DEF WriteRow, StagedAs, Posts
  <2> QED
    BY <2>2, <2>3, <2>4
<1>5. PICK stage \in {"pins", "write", "read", "tell", "answer"} : stage = "tell" /\ StagedAs(k, stage, copy)
  BY <1>4
<1>6. PICK i \in Job : jobs' = [jobs EXCEPT ![k] = i] /\ i.stage = stage
  BY <1>3, <1>5, JobForm DEF WriteRow, JobAt
<1> QED
  BY <1>5, <1>6, MessageRecords DEF TalkInv, TalkTypeOK

LEMMA PursuitKeeps ==
  ASSUME TalkInv, CacheInv, NEW k \in Jobs, WritePins(k) \/ WriteRow(k) \/ ReadAgain(k) PROVE CacheInv'
<1>1. PICK j \in Job, i \in Job \cup {None}, r \in Versions, s \in Versions : Pursues(k, j, r, i, s)
  BY PinsMoves, WriteMoves, ReadMoves
<1>2. UNCHANGED <<clock, fetches, reveal, app, log>>
  BY DEF WritePins, WriteRow, ReadAgain
<1>3. due' = due \/ due' = due \cup {jobs[k].m}
  BY DEF WritePins, WriteRow, ReadAgain
<1>4. /\ jobs[k] = j /\ rows[j.m] = r /\ Moved(j, r, i, s)
      /\ jobs' = [jobs EXCEPT ![k] = i] /\ rows' = [rows EXCEPT ![j.m] = s]
  BY <1>1 DEF Pursues
<1>5. j # None /\ j.m \in Messages /\ (i # None => i \in Job /\ i.m = j.m /\ i.op = j.op)
  BY <1>4, MessageRecords DEF Moved, Job
<1>6. /\ jobs'[k] = i /\ \A l \in Jobs \ {k} : jobs'[l] = jobs[l]
      /\ rows'[j.m] = s /\ \A m \in Messages \ {j.m} : rows'[m] = rows[m]
      /\ rows' \in [Messages -> Versions] /\ \A m \in Messages : rows[m] \in Versions
  BY <1>4, <1>5 DEF TalkInv, TalkTypeOK, Versions
<1>7. Numbered /\ Collide /\ AllRely /\ PagesTell /\ ListTells /\ Orderly /\ Ahead
  BY DEF CacheInv
<1>8. Numbered'
  <2>1. j.m <= clock
    BY <1>4, <1>7 DEF Numbered
  <2>2. \A m \in Messages : rows'[m] # None => m <= clock
    BY <1>6, <1>7, <2>1 DEF Numbered
  <2>3. \A m \in due' : m <= clock
    BY <1>3, <1>4, <1>7, <2>1 DEF Numbered
  <2>4. \A l \in Jobs, h \in Job : jobs'[l] = h => h.m <= clock
    <3> SUFFICES ASSUME NEW l \in Jobs, NEW h \in Job, jobs'[l] = h PROVE h.m <= clock
      OBVIOUS
    <3>1. CASE l = k
      <4>1. h = i /\ i # None
        BY <1>6, <3>1, MessageRecords
      <4> QED
        BY <1>5, <2>1, <4>1
    <3>2. CASE l # k
      BY <1>6, <1>7, <3>2 DEF Numbered
    <3> QED
      BY <3>1, <3>2
  <2> QED
    BY <1>2, <1>7, <2>2, <2>3, <2>4 DEF Numbered
<1>9. Collide'
  <2> SUFFICES ASSUME NEW l \in Jobs, NEW n \in Jobs, NEW h \in Job, NEW g \in Job,
                      jobs'[l] = h, jobs'[n] = g, l # n, g.m = h.m
               PROVE  h.m \in log.suspect
    BY <1>2 DEF Collide
  <2>1. \E o \in Job : jobs[l] = o /\ o.m = h.m
    <3>1. CASE l = k
      BY <1>4, <1>5, <1>6, <3>1, MessageRecords
    <3>2. CASE l # k
      BY <1>6, <3>2
    <3> QED
      BY <3>1, <3>2
  <2>2. \E o \in Job : jobs[n] = o /\ o.m = g.m
    <3>1. CASE n = k
      BY <1>4, <1>5, <1>6, <3>1, MessageRecords
    <3>2. CASE n # k
      BY <1>6, <3>2
    <3> QED
      BY <3>1, <3>2
  <2> QED
    BY <1>7, <2>1, <2>2, Zenon DEF Collide
<1>10. AllRely'
  <2> SUFFICES ASSUME NEW l \in Jobs, NEW h \in Job, NEW x \in Versions, jobs'[l] = h, rows'[h.m] = x, h.m \notin log.suspect
               PROVE  Relies(h, x)
    BY <1>2, Zenon DEF AllRely
  <2>1. CASE l = k
    <3>1. h = i /\ i # None /\ h.m = j.m /\ x = s
      BY <1>5, <1>6, <2>1, MessageRecords
    <3>2. Relies(j, r)
      BY <1>4, <1>7, <3>1, Zenon DEF AllRely
    <3> QED
      BY <1>4, <3>1, <3>2, Zenon DEF Moved
  <2>2. CASE l # k
    <3>1. jobs[l] = h
      BY <1>6, <2>2
    <3>2. h.m # j.m
      BY <1>4, <1>7, <2>2, <3>1, Zenon DEF Collide
    <3>3. rows[h.m] = x
      BY <1>6, <3>2 DEF Job
    <3> QED
      BY <1>7, <3>1, <3>3, Zenon DEF AllRely
  <2> QED
    BY <2>1, <2>2
<1>11. PagesTell' /\ ListTells'
  <2>1. ASSUME NEW m \in Messages, NEW x \in Versions, NEW y \in Versions, rows[m] = x, rows'[m] = y,
               NEW all \in BOOLEAN, NEW v \in Versions, NEW cov \in BOOLEAN
        PROVE  /\ m \notin log'.suspect /\ Fit(x, all, m, v, cov) => Fit(y, all, m, v, cov)'
               /\ UpToDate(x, all, m, v, cov) => UpToDate(y, all, m, v, cov)'
    <3>1. Collide /\ AllRely /\ Pursues(k, j, r, i, s)
      BY <1>1, <1>7
    <3>2. /\ m \notin log.suspect /\ Fit(x, all, m, v, cov) => Fit(y, all, m, v, cov)'
          /\ UpToDate(x, all, m, v, cov) => UpToDate(y, all, m, v, cov)'
      BY ONLY TalkInv, <2>1, <3>1, k \in Jobs, j \in Job, i \in Job \cup {None}, r \in Versions, s \in Versions,
              m \in Messages, x \in Versions, y \in Versions, all \in BOOLEAN, v \in Versions, cov \in BOOLEAN, PursuitFits
    <3>3. log' = log
      BY <1>2
    <3> QED
      BY <3>2, <3>3, Zenon
  <2>2. log'.crossed = log.crossed /\ (log.rivals => log'.rivals) /\ log.suspect \subseteq log'.suspect
    BY <1>2
  <2> QED
    BY <1>2, <1>6, <1>7, <2>1, <2>2, ViewsStay
<1>12. j.op \in Posts => i # None /\ i.stage # "answer"
  BY <1>4, <1>6, PostsPursued
<1>13. ASSUME NEW l \in Jobs, NEW h \in Job, PostsAt(l, h)'
       PROVE  \E o \in Job : PostsAt(l, o) /\ o.m = h.m /\ (h.stage = "answer" => o.stage = "answer")
  <2>1. CASE l = k
    BY <1>4, <1>5, <1>6, <1>12, <1>13, <2>1, MessageRecords DEF PostsAt
  <2>2. CASE l # k
    BY <1>6, <1>13, <2>2 DEF PostsAt
  <2> QED
    BY <2>1, <2>2
<1>14. ASSUME NEW m \in Messages, Untold(m) PROVE Untold(m)'
  <2>1. PICK l \in Jobs, o \in Job : On(m, l, o) /\ o.op \in Posts /\ o.stage # "answer"
    BY <1>14 DEF Untold
  <2>2. CASE l = k
    <3>1. o = j
      BY <1>4, <2>1, <2>2 DEF On
    <3>2. i \in Job /\ i.op \in Posts /\ i.stage # "answer" /\ i.m = m /\ jobs'[k] = i
      BY <1>5, <1>6, <1>12, <2>1, <3>1 DEF On
    <3> QED
      BY <3>2 DEF Untold, On
  <2>3. CASE l # k
    BY <1>6, <2>1, <2>3 DEF Untold, On
  <2> QED
    BY <2>2, <2>3
<1>15. Orderly'
  <2> SUFFICES ASSUME ~log.rivals, NEW l \in Jobs, NEW h \in Job, PostsAt(l, h)' PROVE
        /\ \A m \in Messages : h.m < m /\ m <= clock => m \in log.suspect \/ Untold(m)'
        /\ \A n \in Jobs, g \in Job : PostsAt(n, g)' /\ g.stage = "answer" => g.m <= h.m
    BY <1>2 DEF Orderly
  <2>1. PICK o \in Job : PostsAt(l, o) /\ o.m = h.m
    BY <1>13
  <2>2. /\ \A m \in Messages : o.m < m /\ m <= clock => m \in log.suspect \/ Untold(m)
        /\ \A n \in Jobs, g \in Job : PostsAt(n, g) /\ g.stage = "answer" => g.m <= o.m
    BY <1>7, <2>1, Zenon DEF Orderly
  <2>3. ASSUME NEW n \in Jobs, NEW g \in Job, PostsAt(n, g)', g.stage = "answer" PROVE g.m <= h.m
    <3>1. PICK q \in Job : PostsAt(n, q) /\ q.m = g.m /\ q.stage = "answer"
      BY <1>13, <2>3
    <3> QED
      BY <2>1, <2>2, <3>1
  <2> QED
    BY <1>14, <2>1, <2>2, <2>3
<1>16. Ahead'
  <2>1. Sound' => Sound
    BY <1>2 DEF Sound
  <2> QED
    BY <1>2, <1>7, <1>13, <2>1 DEF Ahead, Late
<1> QED
  BY <1>8, <1>9, <1>10, <1>11, <1>15, <1>16 DEF CacheInv

LEMMA CopiesAre ==
  ASSUME NEW s \in Seq(Copy)
  PROVE  /\ Len(s) \in Nat /\ DOMAIN s = 1..Len(s)
         /\ \A i \in DOMAIN s : /\ s[i] \in Copy /\ s[i].id \in Messages /\ s[i].id \in Nat
                               /\ s[i].row \in Row /\ s[i].row \in Versions /\ s[i].row # None
<1>1. \A m \in Messages : m \in Nat
  BY PageBounds DEF Messages
<1>2. \A c \in Copy : c.id \in Messages /\ c.row \in Row
  BY DEF Copy
<1>3. \A i \in DOMAIN s : s[i] \in Copy
  OBVIOUS
<1> QED
  BY <1>1, <1>2, <1>3, MessageRecords DEF Versions

(* What is begun may count on what it needs, and takes what is said as it  *)
(* is.                                                                     *)
LEMMA BegunFits ==
  ASSUME NEW j \in Job, ~Done(j), j.stage # "tell", NEW r, NEW all, NEW v, NEW cov,
         j.op \in Posts => r = None, j.op \in {"delete", "restore"} => r # None
  PROVE  Relies(j, r) /\ (Exact(r, all, v, cov) => Permits(j, r, all, v, cov))
BY DEF Relies, Permits, Exact, See

LEMMA AtWorkIs == ASSUME TalkInv, NEW m PROVE m \in AtWork <=> \E k \in Jobs, j \in Job : On(m, k, j)
BY JobIn DEF AtWork, On

LEMMA BegunKeeps ==
  ASSUME TalkInv, CacheInv, NEW k \in Jobs, NEW op \in Ops, NEW m \in Messages, NEW more \in Log,
         Begin(k, op, m, more), UNCHANGED <<rows, fetches, reveal, app>>, due' \subseteq due,
         clock' \in Nat, clock <= clock', m <= clock', op \notin Posts => clock' = clock,
         more.suspect = log.suspect, more.crossed = log.crossed, more.rivals = log.rivals,
         op \in Posts => rows[m] = None /\ m = clock' /\ clock' = clock + 1,
         op \in {"delete", "restore"} => rows[m] # None
  PROVE  CacheInv'
<1>1. PICK j : j = [op |-> op, m |-> m, stage |-> FirstStage(op), copy |-> None]
  OBVIOUS
<1>2. j \in Job /\ ~Done(j) /\ j.stage # "tell" /\ j.op = op /\ j.m = m
  <2>1. FirstStage(op) = "pins" \/ FirstStage(op) = "write"
    BY DEF FirstStage
  <2> QED
    BY <1>1, <2>1 DEF Job, Done
<1>3. jobs[k] = None /\ jobs' = [jobs EXCEPT ![k] = j]
  BY <1>1 DEF Begin
<1>4. jobs'[k] = j /\ \A l \in Jobs \ {k} : jobs'[l] = jobs[l]
  BY <1>3 DEF TalkInv, TalkTypeOK
<1>5. /\ log'.crossed = log.crossed /\ log'.rivals = log.rivals
      /\ IF m \in AtWork THEN log'.suspect = log.suspect \cup {m} ELSE log'.suspect = log.suspect
  BY DEF Begin, Log
<1>6. m \notin log'.suspect => \A l \in Jobs, h \in Job : ~On(m, l, h)
  BY <1>5, AtWorkIs
<1>7. Numbered /\ Collide /\ AllRely /\ PagesTell /\ ListTells /\ Orderly /\ Ahead
  BY DEF CacheInv
<1>8. \A x \in Messages : rows[x] \in Versions
  BY DEF TalkInv, TalkTypeOK, Versions
<1>9. clock \in Nat /\ \A x \in Messages : x \in Nat
  BY PageBounds DEF TalkInv, TalkTypeOK, Messages
<1>10. Numbered'
  <2>1. \A x \in Messages : rows[x] # None => x <= clock'
    BY <1>7, <1>9 DEF Numbered
  <2>2. \A x \in due' : x <= clock'
    BY <1>7, <1>9 DEF Numbered, TalkInv, TalkTypeOK
  <2>3. ASSUME NEW l \in Jobs, NEW h \in Job, jobs'[l] = h
        PROVE  h.m <= clock'
    <3>1. CASE l = k
      BY <1>2, <1>4, <2>3, <3>1
    <3>2. CASE l # k
      <4>1. jobs[l] = h /\ h.m \in Nat
        BY <1>4, <1>9, <2>3, <3>2 DEF Job
      <4>2. h.m <= clock
        BY <1>7, <4>1 DEF Numbered
      <4> QED
        BY <1>5, <1>9, <4>1, <4>2
    <3> QED
      BY <3>1, <3>2
  <2>4. Upto(app.cache, clock')
    <3>1. \A i \in DOMAIN app.cache : app.cache[i].id \in Nat
      BY AppIs, CopiesAre
    <3> QED
      BY <1>7, <1>9, <3>1 DEF Numbered, Upto
  <2>5. ASSUME NEW f \in Fetches, NEW g \in Fetch, fetches[f] = g PROVE Counts(g, clock')
    <3>1. Counts(g, clock)
      BY <1>7, <2>5 DEF Numbered
    <3>2. g.before \in Nat /\ \A i \in DOMAIN g.page : g.page[i].id \in Nat
      <4>1. g.page \in Seq(Copy) /\ g.before \in Nat
        BY PageBounds DEF Fetch
      <4> QED
        BY <4>1, CopiesAre
    <3> QED
      BY <1>9, <3>1, <3>2 DEF Counts, Upto
  <2> QED
    BY <2>1, <2>2, <2>3, <2>4, <2>5 DEF Numbered
<1>11. Collide'
  <2> SUFFICES ASSUME NEW l \in Jobs, NEW n \in Jobs, NEW h \in Job, NEW g \in Job,
                      jobs'[l] = h, jobs'[n] = g, l # n, g.m = h.m, h.m \notin log'.suspect
               PROVE  FALSE
    BY DEF Collide
  <2>1. h.m \notin log.suspect
    BY <1>5
  <2>2. CASE l = k
    BY <1>2, <1>4, <1>6, <2>2 DEF On
  <2>3. CASE n = k
    BY <1>2, <1>4, <1>6, <2>3 DEF On
  <2>4. CASE l # k /\ n # k
    <3>1. jobs[l] = h /\ jobs[n] = g
      BY <1>4, <2>4
    <3> QED
      BY <1>7, <2>1, <3>1, Zenon DEF Collide
  <2> QED
    BY <2>2, <2>3, <2>4
<1>12. AllRely'
  <2> SUFFICES ASSUME NEW l \in Jobs, NEW h \in Job, NEW x \in Versions, jobs'[l] = h, rows[h.m] = x, h.m \notin log'.suspect
               PROVE  Relies(h, x)
    BY Zenon DEF AllRely
  <2>1. CASE l = k
    <3>1. h = j /\ (j.op \in Posts => x = None) /\ (j.op \in {"delete", "restore"} => x # None)
      BY <1>2, <1>4, <2>1
    <3> QED
      BY <1>2, <3>1, BegunFits
  <2>2. CASE l # k
    <3>1. jobs[l] = h /\ h.m \notin log.suspect
      BY <1>4, <1>5, <2>2
    <3> QED
      BY <1>7, <3>1, Zenon DEF AllRely
  <2> QED
    BY <2>1, <2>2
<1>13. PagesTell' /\ ListTells'
  <2>1. ASSUME NEW n \in Messages, NEW x \in Versions, NEW y \in Versions, rows[n] = x, rows'[n] = y,
               NEW all \in BOOLEAN, NEW v \in Versions, NEW cov \in BOOLEAN
        PROVE  /\ n \notin log'.suspect /\ Fit(x, all, n, v, cov) => Fit(y, all, n, v, cov)'
               /\ UpToDate(x, all, n, v, cov) => UpToDate(y, all, n, v, cov)'
    <3>1. x = y
      BY <2>1
    <3>2. CASE n # m
      BY <1>2, <1>3, <3>1, <3>2, Elsewhere
    <3>3. CASE n = m
      <4>1. ASSUME n \notin log'.suspect, Fit(x, all, n, v, cov) PROVE Fit(y, all, n, v, cov)'
        <5>1. Exact(x, all, v, cov)
          BY <1>6, <3>3, <4>1, Zenon DEF Fit
        <5>2. (j.op \in Posts => x = None) /\ (j.op \in {"delete", "restore"} => x # None)
          BY <1>2, <2>1, <3>3
        <5>3. Permits(j, x, all, v, cov)
          BY <1>2, <5>1, <5>2, BegunFits
        <5>4. ASSUME NEW l \in Jobs, NEW h \in Job, On(m, l, h)' PROVE l = k /\ h = j
          BY <1>4, <1>6, <3>3, <4>1, <5>4 DEF On
        <5>5. On(m, k, j)'
          BY <1>2, <1>4 DEF On
        <5> QED
          BY <1>2, <3>1, <3>3, <5>3, <5>4, <5>5, Zenon DEF Fit
      <4>2. ASSUME UpToDate(x, all, n, v, cov) PROVE UpToDate(y, all, n, v, cov)'
        <5>1. \A l \in Jobs, h \in Job : On(n, l, h) => On(n, l, h)'
          BY <1>3, <1>4, MessageRecords DEF On
        <5> QED
          BY <3>1, <4>2, <5>1, Zenon DEF UpToDate
      <4> QED
        BY <4>1, <4>2
    <3> QED
      BY <3>2, <3>3
  <2>2. log'.crossed = log.crossed /\ (log.rivals => log'.rivals) /\ log.suspect \subseteq log'.suspect
    BY <1>5
  <2>3. rows' \in [Messages -> Versions]
    BY DEF TalkInv, TalkTypeOK, Versions
  <2> QED
    BY <1>7, <2>1, <2>2, <2>3, ViewsStay
<1>14. ASSUME NEW l \in Jobs, NEW h \in Job, PostsAt(l, h)'
       PROVE  \/ l # k /\ PostsAt(l, h)
              \/ l = k /\ h = j /\ op \in Posts /\ h.m = m /\ h.stage # "answer"
  <2>1. j.op \in Posts => j.stage = "write"
    BY <1>1, <1>2 DEF FirstStage, Posts, Pinning
  <2> QED
    BY <1>2, <1>4, <1>14, <2>1 DEF PostsAt
<1>15. Orderly'
  <2> SUFFICES ASSUME ~log.rivals, NEW l \in Jobs, NEW h \in Job, PostsAt(l, h)' PROVE
        /\ \A x \in Messages : h.m < x /\ x <= clock' => x \in log'.suspect \/ Untold(x)'
        /\ \A n \in Jobs, g \in Job : PostsAt(n, g)' /\ g.stage = "answer" => g.m <= h.m
    BY <1>5 DEF Orderly
  <2>1. log.suspect \subseteq log'.suspect
    BY <1>5
  <2>2. \A x \in Messages : Untold(x) => Untold(x)'
    BY <1>3, <1>4, MessageRecords DEF Untold, On
  <2>3. CASE l # k /\ PostsAt(l, h)
    <3>1. /\ \A x \in Messages : h.m < x /\ x <= clock => x \in log.suspect \/ Untold(x)
          /\ \A n \in Jobs, g \in Job : PostsAt(n, g) /\ g.stage = "answer" => g.m <= h.m
      BY <1>7, <2>3, Zenon DEF Orderly
    <3>2. ASSUME NEW x \in Messages, ~(x <= clock), x <= clock' PROVE Untold(x)'
      <4>1. op \in Posts /\ x = m
        BY <1>9, <3>2
      <4>2. On(m, k, j)' /\ j.stage # "answer" /\ j.op \in Posts
        BY <1>1, <1>2, <1>4, <4>1 DEF On, FirstStage, Posts, Pinning
      <4> QED
        BY <1>2, <4>1, <4>2 DEF Untold
    <3>3. ASSUME NEW n \in Jobs, NEW g \in Job, PostsAt(n, g)', g.stage = "answer" PROVE g.m <= h.m
      <4>1. PostsAt(n, g)
        BY <1>14, <3>3
      <4> QED
        BY <3>1, <3>3, <4>1
    <3>4. ASSUME NEW x \in Messages, h.m < x, x <= clock' PROVE x \in log'.suspect \/ Untold(x)'
      BY <2>1, <2>2, <3>1, <3>2, <3>4
    <3> QED
      BY <3>3, <3>4
  <2>4. CASE h = j /\ op \in Posts /\ h.m = m
    <3>1. m = clock'
      BY <2>4
    <3>2. \A n \in Jobs, g \in Job : PostsAt(n, g) => g.m <= clock /\ g.m \in Nat
      <4> SUFFICES ASSUME NEW n \in Jobs, NEW g \in Job, PostsAt(n, g) PROVE g.m <= clock /\ g.m \in Nat
        OBVIOUS
      <4>1. g.m \in Nat
        BY <1>9 DEF Job
      <4>2. g.m <= clock
        BY <1>7 DEF Numbered, PostsAt
      <4> QED
        BY <4>1, <4>2
    <3>3. \A x \in Messages : h.m < x /\ x <= clock' => x \in log'.suspect \/ Untold(x)'
      BY <1>9, <2>4, <3>1
    <3>4. ASSUME NEW n \in Jobs, NEW g \in Job, PostsAt(n, g)', g.stage = "answer" PROVE g.m <= h.m
      <4>1. PostsAt(n, g)
        BY <1>14, <3>4
      <4>2. g.m <= clock /\ g.m \in Nat
        BY <3>2, <4>1
      <4> QED
        BY ONLY <1>9, <2>4, <3>1, <4>2, clock' \in Nat, clock <= clock'
    <3> QED
      BY <3>3, <3>4
  <2> QED
    BY <1>14, <2>3, <2>4
<1>16. Ahead'
  <2> SUFFICES ASSUME Sound, NEW l \in Jobs, NEW h \in Job, PostsAt(l, h)' PROVE
        Upto(app.cache, h.m) /\ \A f \in Fetches, g \in Fetch : fetches[f] = g /\ Late(g) => g.before <= h.m
    BY <1>5 DEF Ahead, Sound, Late
  <2>1. CASE PostsAt(l, h)
    BY <1>7, <2>1, Zenon DEF Ahead
  <2>2. CASE op \in Posts /\ h.m = m
    <3>1. m = clock'
      BY <2>2
    <3> QED
      BY <1>10, <2>2, <3>1 DEF Numbered, Counts
  <2> QED
    BY <1>14, <2>1, <2>2
<1> QED
  BY <1>10, <1>11, <1>12, <1>13, <1>15, <1>16 DEF CacheInv

LEMMA PostKeeps == ASSUME TalkInv, CacheInv, NEW k \in Jobs, NEW op, Post(k, op) PROVE CacheInv'
<1>1. /\ op \in {"post", "send"} /\ clock < MaxPosts /\ clock' = clock + 1
      /\ Begin(k, op, clock + 1, log) /\ UNCHANGED <<rows, pins, due, fetches, reveal, app>>
  BY DEF Post
<1>2. log \in Log /\ clock \in 0..MaxPosts /\ MaxPosts \in Nat
  BY PageBounds DEF TalkInv, TalkTypeOK
<1>3. PICK m \in Messages : m = clock + 1
  BY <1>1, <1>2 DEF Messages
<1>4. rows[m] = None
  <2>1. m > clock
    BY <1>2, <1>3
  <2> QED
    BY <1>2, <1>3, <2>1 DEF CacheInv, Numbered
<1>5. op \in Ops /\ op \in Posts /\ op \notin {"delete", "restore"} /\ due' \subseteq due
  BY <1>1 DEF Ops, Posts
<1>6. clock' \in Nat /\ clock <= clock' /\ m <= clock' /\ m = clock'
  BY <1>1, <1>2, <1>3
<1>7. Begin(k, op, m, log) /\ UNCHANGED <<rows, fetches, reveal, app>>
  BY <1>1, <1>3
<1> QED
  BY <1>1, <1>2, <1>4, <1>5, <1>6, <1>7, BegunKeeps

LEMMA ResolveKeeps ==
  ASSUME TalkInv, CacheInv, NEW k \in Jobs, NEW m \in Messages, ResolveEmbeds(k, m) PROVE CacheInv'
<1>1. m \in due /\ due' = due \ {m} /\ Begin(k, "embed", m, log) /\ UNCHANGED <<rows, clock, fetches, reveal, app>>
  BY DEF ResolveEmbeds
<1>2. PICK op \in Ops : op = "embed" /\ op \notin Posts /\ op \notin {"delete", "restore"}
  BY DEF Ops, Edits, Posts
<1>3. PICK more \in Log : more = log
  BY DEF TalkInv, TalkTypeOK
<1>4. clock \in Nat /\ m <= clock
  BY <1>1, PageBounds DEF CacheInv, Numbered, TalkInv, TalkTypeOK
<1>5. Begin(k, op, m, more) /\ due' \subseteq due /\ clock <= clock' /\ clock' \in Nat /\ m <= clock'
  BY <1>1, <1>2, <1>3, <1>4
<1> QED
  BY <1>1, <1>2, <1>3, <1>5, BegunKeeps

LEMMA RequestKeeps ==
  ASSUME TalkInv, CacheInv, NEW k \in Jobs, NEW op \in Ops, NEW m \in Messages, Request(k, op, m) PROVE CacheInv'
<1>1. /\ op \notin Posts /\ m <= clock /\ log.jobs < MaxJobs /\ (op \notin Pinning => rows[m] # None)
      /\ Begin(k, op, m, [log EXCEPT !.jobs = log.jobs + 1])
      /\ UNCHANGED <<rows, pins, clock, due, fetches, reveal, app>>
  BY DEF Request, Posts
<1>2. PICK more \in Log : more = [log EXCEPT !.jobs = log.jobs + 1]
  BY <1>1, LogTypes DEF TalkInv, TalkTypeOK
<1>3. more.suspect = log.suspect /\ more.crossed = log.crossed /\ more.rivals = log.rivals
  BY <1>2 DEF TalkInv, TalkTypeOK, Log
<1>4. op \in {"delete", "restore"} => rows[m] # None
  BY <1>1 DEF Pinning
<1>5. clock \in Nat /\ clock <= clock' /\ clock' \in Nat /\ m <= clock' /\ due' \subseteq due
  BY <1>1, PageBounds DEF TalkInv, TalkTypeOK
<1>6. Begin(k, op, m, more)
  BY <1>1, <1>2
<1> QED
  BY <1>1, <1>3, <1>4, <1>5, <1>6, BegunKeeps

-----------------------------------------------------------------------------
(* What an event does to the list.                                         *)
SameBut(s, t, m) ==
  /\ \A x \in Messages, v \in Versions : x # m /\ Holds(t, x, v) => Holds(s, x, v)
  /\ Rising(s) => Rising(t)
  /\ \A i \in DOMAIN t : \E n \in DOMAIN s : s[n].id = t[i].id

LEMMA WithoutIs ==
  ASSUME TalkInv, NEW m \in Messages
  PROVE  SameBut(app.cache, Without(m), m) /\ \A v \in Versions : Holds(Without(m), m, v) => v = None
<1>1. PICK s \in Seq(Copy) : s = app.cache
  BY AppIs
<1>2. Len(s) \in Nat /\ DOMAIN s = 1..Len(s)
  BY CopiesAre
<1> DEFINE S == {i \in DOMAIN s : s[i].id # m}
<1>3. S \in SUBSET (1..Len(s))
  BY <1>2
<1>4. PICK o, q : PickedBy(s, S, o, q)
  BY <1>2, <1>3, PickedIs
<1>5. PICK t : t = [n \in 1..q |-> s[o[n]]]
  OBVIOUS
<1>6. Without(m) = t
  BY <1>1, <1>4, <1>5 DEF Without, PickedBy
<1>7. /\ q \in Nat /\ DOMAIN t = 1..q /\ o \in [1..q -> S] /\ \A n \in 1..q : t[n] = s[o[n]]
      /\ \A n, l \in 1..q : n < l => o[n] < o[l]
      /\ \A i \in S : \E n \in 1..q : o[n] = i
  BY <1>4, <1>5 DEF PickedBy
<1>8. \A n \in 1..q : o[n] \in DOMAIN s /\ s[o[n]].id # m
  BY <1>7
<1>9. Rising(s) => Rising(t)
  BY <1>7, <1>8 DEF Rising
<1>10. ASSUME NEW x \in Messages, NEW v \in Versions, x # m, Holds(t, x, v) PROVE Holds(s, x, v)
  <2>1. CASE v = None
    <3>1. ASSUME NEW i \in DOMAIN s, s[i].id = x PROVE FALSE
      <4>1. i \in S
        BY <1>10, <3>1
      <4>2. PICK n \in 1..q : o[n] = i
        BY <1>7, <4>1
      <4> QED
        BY <1>7, <1>10, <2>1, <3>1, <4>2 DEF Holds
    <3> QED
      BY <2>1, <3>1 DEF Holds
  <2>2. CASE v # None
    BY <1>7, <1>8, <1>10, <2>2 DEF Holds
  <2> QED
    BY <2>1, <2>2
<1>11. ASSUME NEW v \in Versions, Holds(t, m, v) PROVE v = None
  BY <1>7, <1>8, <1>11 DEF Holds
<1>12. \A i \in DOMAIN t : \E n \in DOMAIN s : s[n].id = t[i].id
  BY <1>7, <1>8
<1> QED
  BY <1>1, <1>6, <1>9, <1>10, <1>11, <1>12 DEF SameBut

(* The same places, the same ids, and another row for one of them.         *)
LEMMA RowsChange ==
  ASSUME NEW s \in Seq(Copy), NEW t, DOMAIN t = DOMAIN s, NEW m \in Messages,
         \A i \in DOMAIN s : t[i].id = s[i].id /\ (s[i].id # m => t[i] = s[i])
  PROVE  /\ SameBut(s, t, m)
         /\ \A v \in Versions : Holds(t, m, v) =>
              IF v = None THEN Holds(s, m, None)
              ELSE \E i \in DOMAIN s : s[i].id = m /\ t[i].row = v /\ Holds(s, m, s[i].row)
<1>1. Rising(s) => Rising(t)
  BY DEF Rising
<1>2. ASSUME NEW x \in Messages, NEW v \in Versions, x # m, Holds(t, x, v) PROVE Holds(s, x, v)
  BY <1>2 DEF Holds
<1>3. ASSUME NEW v \in Versions, Holds(t, m, v)
      PROVE  IF v = None THEN Holds(s, m, None)
             ELSE \E i \in DOMAIN s : s[i].id = m /\ t[i].row = v /\ Holds(s, m, s[i].row)
  <2>1. CASE v = None
    BY <1>3, <2>1 DEF Holds
  <2>2. CASE v # None
    <3>1. PICK i \in DOMAIN s : s[i].id = m /\ t[i].row = v
      BY <1>3, <2>2 DEF Holds
    <3>2. Holds(s, m, s[i].row)
      BY <3>1, CopiesAre DEF Holds
    <3> QED
      BY <2>2, <3>1, <3>2
  <2> QED
    BY <2>1, <2>2
<1> QED
  BY <1>1, <1>2, <1>3 DEF SameBut

LEMMA PatchedIs ==
  ASSUME TalkInv, NEW m \in Messages, NEW row \in Row
  PROVE  /\ SameBut(app.cache, Patched(m, row), m)
         /\ \A v \in Versions : Holds(Patched(m, row), m, v) =>
              \E w \in Versions : Holds(app.cache, m, w) /\ v = IF w = None THEN None ELSE row
<1>1. PICK s \in Seq(Copy) : s = app.cache
  BY AppIs
<1>2. PICK t : t = Patched(m, row)
  OBVIOUS
<1>3. DOMAIN t = DOMAIN s /\ \A i \in DOMAIN s : t[i] = IF s[i].id = m THEN [id |-> m, row |-> row] ELSE s[i]
  BY <1>1, <1>2 DEF Patched
<1>4. \A i \in DOMAIN s : t[i].id = s[i].id /\ (s[i].id # m => t[i] = s[i]) /\ (s[i].id = m => t[i].row = row)
  BY <1>3
<1>5. /\ SameBut(s, t, m)
      /\ \A v \in Versions : Holds(t, m, v) =>
           IF v = None THEN Holds(s, m, None)
           ELSE \E i \in DOMAIN s : s[i].id = m /\ t[i].row = v /\ Holds(s, m, s[i].row)
  BY <1>3, <1>4, RowsChange
<1>6. ASSUME NEW v \in Versions, Holds(t, m, v)
      PROVE  \E w \in Versions : Holds(s, m, w) /\ v = IF w = None THEN None ELSE row
  <2>1. CASE v = None
    BY <1>5, <1>6, <2>1 DEF Versions
  <2>2. CASE v # None
    <3>1. PICK i \in DOMAIN s : s[i].id = m /\ t[i].row = v /\ Holds(s, m, s[i].row)
      BY <1>5, <1>6, <2>2
    <3>2. s[i].row \in Versions /\ s[i].row # None /\ v = row
      BY <1>4, <3>1, CopiesAre
    <3> QED
      BY <3>1, <3>2
  <2> QED
    BY <2>1, <2>2
<1> QED
  BY <1>1, <1>2, <1>5, <1>6

LEMMA RePinnedIs ==
  ASSUME TalkInv, NEW m \in Messages, NEW flag \in BOOLEAN
  PROVE  /\ SameBut(app.cache, RePinned(m, flag), m)
         /\ \A v \in Versions : Holds(RePinned(m, flag), m, v) =>
              \E w \in Versions : Holds(app.cache, m, w) /\ v = IF w = None THEN None ELSE [w EXCEPT !.pinned = flag]
<1>1. PICK s \in Seq(Copy) : s = app.cache
  BY AppIs
<1>2. PICK t : t = RePinned(m, flag)
  OBVIOUS
<1>3. DOMAIN t = DOMAIN s
        /\ \A i \in DOMAIN s : t[i] = IF s[i].id = m THEN [s[i] EXCEPT !.row.pinned = flag] ELSE s[i]
  BY <1>1, <1>2 DEF RePinned
<1>4. ASSUME NEW i \in DOMAIN s
      PROVE  /\ t[i].id = s[i].id /\ (s[i].id # m => t[i] = s[i])
             /\ s[i].id = m => t[i].row = [s[i].row EXCEPT !.pinned = flag]
  <2>1. PICK c \in Copy : c = s[i]
    BY CopiesAre
  <2>2. PICK d : d = [c EXCEPT !.row.pinned = flag]
    OBVIOUS
  <2>3. d.id = c.id /\ d.row = [c.row EXCEPT !.pinned = flag]
    BY <2>2 DEF Copy
  <2> QED
    BY <1>3, <2>1, <2>2, <2>3
<1>5. /\ SameBut(s, t, m)
      /\ \A v \in Versions : Holds(t, m, v) =>
           IF v = None THEN Holds(s, m, None)
           ELSE \E i \in DOMAIN s : s[i].id = m /\ t[i].row = v /\ Holds(s, m, s[i].row)
  <2>1. DOMAIN t = DOMAIN s
    BY <1>3
  <2>2. \A i \in DOMAIN s : t[i].id = s[i].id /\ (s[i].id # m => t[i] = s[i])
    BY <1>4
  <2> QED
    BY <2>1, <2>2, RowsChange
<1>6. ASSUME NEW v \in Versions, Holds(t, m, v)
      PROVE  \E w \in Versions : Holds(s, m, w) /\ v = IF w = None THEN None ELSE [w EXCEPT !.pinned = flag]
  <2>1. CASE v = None
    BY <1>5, <1>6, <2>1 DEF Versions
  <2>2. CASE v # None
    <3>1. PICK i \in DOMAIN s : s[i].id = m /\ t[i].row = v /\ Holds(s, m, s[i].row)
      BY <1>5, <1>6, <2>2
    <3>2. PICK w \in Versions : w = s[i].row /\ w # None
      BY CopiesAre
    <3>3. v = [w EXCEPT !.pinned = flag]
      BY <1>4, <3>1, <3>2
    <3> QED
      BY <3>1, <3>2, <3>3
  <2> QED
    BY <2>1, <2>2
<1> QED
  BY <1>1, <1>2, <1>5, <1>6

LEMMA AddedIs ==
  ASSUME TalkInv, NEW m \in Messages, NEW row \in Row
  PROVE  /\ \A x \in Messages, v \in Versions : x # m /\ Holds(Added(m, row), x, v) => Holds(app.cache, x, v)
         /\ Rising(app.cache) /\ Upto(app.cache, m) => Rising(Added(m, row))
         /\ \A i \in DOMAIN Added(m, row) :
              Added(m, row)[i].id = m \/ \E n \in DOMAIN app.cache : app.cache[n].id = Added(m, row)[i].id
         /\ \A v \in Versions : Holds(Added(m, row), m, v) =>
              \E w \in Versions : Holds(app.cache, m, w) /\ v = IF w = None THEN row ELSE w
<1>1. PICK s \in Seq(Copy) : s = app.cache
  BY AppIs
<1>2. Len(s) \in Nat /\ DOMAIN s = 1..Len(s) /\ \A i \in DOMAIN s : s[i].id \in Nat
  BY CopiesAre
<1>3. CASE InCache(m)
  <2>1. Added(m, row) = s
    BY <1>1, <1>3 DEF Added
  <2>2. \A v \in Versions : Holds(s, m, v) => v # None
    BY <1>1, <1>3 DEF InCache, Holds
  <2> QED
    BY <1>1, <2>1, <2>2
<1>4. CASE ~InCache(m)
  <2>1. PICK c \in Copy : c = [id |-> m, row |-> row]
    BY CopyIs
  <2>2. PICK t : t = Append(s, c)
    OBVIOUS
  <2>3. Added(m, row) = t
    BY <1>1, <1>4, <2>1, <2>2 DEF Added
  <2>4. /\ DOMAIN t = 1..(Len(s) + 1) /\ t[Len(s) + 1] = c /\ c.id = m /\ c.row = row /\ m \in Nat
        /\ \A i \in DOMAIN s : i \in DOMAIN t /\ t[i] = s[i] /\ s[i].id # m
        /\ \A i \in DOMAIN t : i \in DOMAIN s \/ i = Len(s) + 1
    BY <1>1, <1>2, <1>4, <2>1, <2>2, PageBounds DEF InCache, Messages
  <2>5. ASSUME NEW x \in Messages, NEW v \in Versions, x # m, Holds(t, x, v) PROVE Holds(s, x, v)
    BY <2>4, <2>5 DEF Holds
  <2>6. ASSUME NEW v \in Versions, Holds(t, m, v) PROVE v = row /\ Holds(s, m, None)
    <3>1. Len(s) + 1 \in DOMAIN t
      BY <1>2, <2>4
    <3> QED
      BY <2>4, <2>6, <3>1 DEF Holds
  <2>7. Rising(s) /\ Upto(s, m) => Rising(t)
    <3> SUFFICES ASSUME Rising(s), Upto(s, m), NEW i \in DOMAIN t, NEW n \in DOMAIN t, i < n PROVE t[i].id < t[n].id
      BY DEF Rising
    <3>1. i \in DOMAIN s
      BY <1>2, <2>4
    <3>2. CASE n \in DOMAIN s
      BY <2>4, <3>1, <3>2 DEF Rising
    <3>3. CASE n = Len(s) + 1
      BY <1>2, <2>4, <3>1, <3>3 DEF Upto
    <3> QED
      BY <2>4, <3>2, <3>3
  <2>8. \A i \in DOMAIN t : t[i].id = m \/ \E n \in DOMAIN s : s[n].id = t[i].id
    BY <2>4
  <2> QED
    BY <1>1, <2>3, <2>5, <2>6, <2>7, <2>8 DEF Versions
<1> QED
  BY <1>3, <1>4

LEMMA HoldsSome == ASSUME NEW s \in Seq(Copy), NEW m PROVE \E w \in Versions : Holds(s, m, w)
<1>1. CASE \A i \in DOMAIN s : s[i].id # m
  BY <1>1 DEF Holds, Versions
<1>2. CASE \E i \in DOMAIN s : s[i].id = m
  <2>1. PICK i \in DOMAIN s : s[i].id = m
    BY <1>2
  <2>2. s[i].row \in Versions /\ s[i].row # None
    BY CopiesAre
  <2> QED
    BY <2>1, <2>2 DEF Holds
<1> QED
  BY <1>1, <1>2

(* What becomes of a version.                                              *)
After(op, w, copy, all) ==
  IF op \in Posts THEN IF w = None THEN copy ELSE w
  ELSE IF w = None \/ op = "harddelete" THEN None
  ELSE IF op \in Pinning THEN [w EXCEPT !.pinned = op = "pin"]
  ELSE IF op = "delete" /\ all /\ copy = None THEN w
  ELSE IF ~all /\ (op = "delete" \/ copy.deleted) THEN None ELSE copy

LEMMA CacheAfterIs ==
  ASSUME TalkInv, NEW op \in Ops, NEW m \in Messages, NEW copy \in Versions,
         op \in Posts \cup Edits \cup {"restore"} => copy # None, NEW t, t = CacheAfter(op, m, copy)
  PROVE  /\ \A x \in Messages, v \in Versions : x # m /\ Holds(t, x, v) => Holds(app.cache, x, v)
         /\ Rising(app.cache) /\ (op \in Posts => Upto(app.cache, m)) => Rising(t)
         /\ \A i \in DOMAIN t :
              (op \in Posts /\ t[i].id = m) \/ \E n \in DOMAIN app.cache : app.cache[n].id = t[i].id
         /\ \A v \in Versions : Holds(t, m, v) =>
              \E w \in Versions : Holds(app.cache, m, w) /\ v = After(op, w, copy, reveal)
<1>1. copy # None => copy \in Row
  BY DEF Versions
<1>2. PICK s \in Seq(Copy) : s = app.cache
  BY AppIs
<1>3. CASE op \in Posts
  <2>3. op \notin Edits \cup {"restore"} /\ op # "delete" /\ op # "harddelete" /\ op \notin Pinning
    BY <1>3 DEF Posts, Edits, Pinning
  <2>1. t = Added(m, copy) /\ copy \in Row
    <3>1. t = Added(m, copy)
      BY <1>3, <2>3, Zenon DEF CacheAfter, Posts
    <3> QED
      BY <1>1, <1>3, <3>1
  <2>2. \A w : After(op, w, copy, reveal) = IF w = None THEN copy ELSE w
    BY <1>3, Zenon DEF After
  <2> QED
    BY <1>3, <2>1, <2>2, AddedIs
<1>4. ASSUME op \notin Posts, SameBut(s, t, m),
             \A v \in Versions : Holds(t, m, v) =>
               \E w \in Versions : Holds(s, m, w) /\ v = After(op, w, copy, reveal)
      PROVE  /\ \A x \in Messages, v \in Versions : x # m /\ Holds(t, x, v) => Holds(app.cache, x, v)
             /\ Rising(app.cache) /\ (op \in Posts => Upto(app.cache, m)) => Rising(t)
             /\ \A i \in DOMAIN t :
                  (op \in Posts /\ t[i].id = m) \/ \E n \in DOMAIN app.cache : app.cache[n].id = t[i].id
             /\ \A v \in Versions : Holds(t, m, v) =>
                  \E w \in Versions : Holds(app.cache, m, w) /\ v = After(op, w, copy, reveal)
  BY <1>2, <1>4, Zenon DEF SameBut
<1>5. ASSUME t = Without(m), \A w \in Versions : After(op, w, copy, reveal) = None
      PROVE  /\ SameBut(s, t, m)
             /\ \A v \in Versions : Holds(t, m, v) =>
                  \E w \in Versions : Holds(s, m, w) /\ v = After(op, w, copy, reveal)
  <2>1. PICK w \in Versions : Holds(s, m, w)
    BY HoldsSome
  <2> QED
    BY <1>2, <1>5, <2>1, WithoutIs
<1>6. ASSUME t = Patched(m, copy), copy \in Row,
             \A w \in Versions : After(op, w, copy, reveal) = IF w = None THEN None ELSE copy
      PROVE  /\ SameBut(s, t, m)
             /\ \A v \in Versions : Holds(t, m, v) =>
                  \E w \in Versions : Holds(s, m, w) /\ v = After(op, w, copy, reveal)
  BY <1>2, <1>6, PatchedIs
<1>7. CASE op \in Edits \cup {"restore"}
  <2>1. op \notin Posts /\ op # "delete" /\ op # "harddelete" /\ op \notin Pinning /\ copy \in Row /\ copy # None
    BY <1>1, <1>7 DEF Edits, Posts, Pinning
  <2>2. t = IF copy.deleted /\ ~reveal THEN Without(m) ELSE Patched(m, copy)
    BY <1>7, <2>1, Zenon DEF CacheAfter, Updated, Posts
  <2>3. \A w : After(op, w, copy, reveal) = IF w = None \/ (copy.deleted /\ ~reveal) THEN None ELSE copy
    BY <2>1 DEF After
  <2>4. CASE copy.deleted /\ ~reveal
    BY <1>4, <1>5, <2>1, <2>2, <2>3, <2>4
  <2>5. CASE ~(copy.deleted /\ ~reveal)
    BY <1>4, <1>6, <2>1, <2>2, <2>3, <2>5
  <2> QED
    BY <2>4, <2>5
<1>8. CASE op = "delete"
  <2>1. op \notin Posts /\ op \notin Edits \cup {"restore"} /\ op # "harddelete" /\ op \notin Pinning
    BY <1>8 DEF Edits, Posts, Pinning
  <2>2. t = IF ~reveal THEN Without(m) ELSE IF copy = None THEN s ELSE Updated(m, copy)
    BY <1>2, <1>8, <2>1, Zenon DEF CacheAfter, Posts
  <2>3. CASE ~reveal
    <3>1. \A w : After(op, w, copy, reveal) = None
      BY <1>8, <2>1, <2>3 DEF After
    <3> QED
      BY <1>4, <1>5, <2>1, <2>2, <2>3, <3>1
  <2>4. CASE reveal /\ copy = None
    <3>1. \A w : After(op, w, copy, reveal) = w
      BY <1>8, <2>1, <2>4 DEF After
    <3>2. t = s /\ SameBut(s, s, m)
      BY <2>2, <2>4 DEF SameBut
    <3> QED
      BY <1>4, <2>1, <3>1, <3>2
  <2>5. CASE reveal /\ copy # None
    <3>1. t = Patched(m, copy) /\ copy \in Row
      BY <1>1, <2>2, <2>5 DEF Updated
    <3>2. \A w : After(op, w, copy, reveal) = IF w = None THEN None ELSE copy
      BY <1>8, <2>1, <2>5 DEF After
    <3> QED
      BY <1>4, <1>6, <2>1, <3>1, <3>2
  <2> QED
    BY <2>3, <2>4, <2>5
<1>9. CASE op = "harddelete"
  <2>1. op \notin Posts /\ op \notin Edits \cup {"restore"} /\ op # "delete" /\ op \notin Pinning
    BY <1>9 DEF Edits, Posts, Pinning
  <2>2. t = Without(m)
    BY <1>9, <2>1, Zenon DEF CacheAfter, Posts
  <2>3. \A w : After(op, w, copy, reveal) = None
    BY <1>9, <2>1 DEF After
  <2> QED
    BY <1>4, <1>5, <2>1, <2>2, <2>3
<1>10. CASE op \in Pinning
  <2>1. op \notin Posts /\ op \notin Edits \cup {"restore"} /\ op # "delete" /\ op # "harddelete"
    BY <1>10 DEF Edits, Posts, Pinning
  <2>2. PICK flag \in BOOLEAN : flag = (op = "pin")
    OBVIOUS
  <2>3. t = RePinned(m, flag)
    BY <1>10, <2>1, <2>2, Zenon DEF CacheAfter, Posts
  <2>4. \A w : After(op, w, copy, reveal) = IF w = None THEN None ELSE [w EXCEPT !.pinned = flag]
    BY <1>10, <2>1, <2>2 DEF After
  <2> QED
    BY <1>2, <1>4, <2>1, <2>3, <2>4, RePinnedIs
<1> QED
  BY <1>3, <1>7, <1>8, <1>9, <1>10 DEF Ops, Posts

(* What was told fits: it is what the row says.                            *)
LEMMA ToldIs ==
  ASSUME NEW j \in Job, JobShaped(j), j.stage \in {"tell", "answer"}, NEW r \in Versions, NEW w \in Versions,
         NEW all \in BOOLEAN, NEW cov \in BOOLEAN, NEW old \in BOOLEAN,
         Relies(j, r), Permits(j, r, all, w, old), j.op \notin Posts /\ cov => old, j.op = "restore" => w # None,
         NEW v, v = After(j.op, w, j.copy, all)
  PROVE  Exact(r, all, v, cov) /\ (j.op \in Posts => v = r)
<1>1. Done(j) /\ j.op \in Ops /\ (j.stage = "answer" => j.op \in Posts)
  BY DEF Done, Job, JobShaped, Posts
<1>2. None \notin Row /\ Posted \in Row /\ Posted.deleted = FALSE
  BY MessageRecords, PostedIsRow DEF Posted
<1>3. CASE j.op \in Posts
  <2>1. r = Posted /\ j.copy = r /\ (w = None \/ w = r)
    BY <1>1, <1>3, Zenon DEF Relies, Permits
  <2>2. v = r
    BY <1>3, <2>1 DEF After
  <2> QED
    BY <1>2, <2>1, <2>2 DEF Exact, See
<1>4. CASE j.op \in Edits
  <2>1. j.op \notin Posts /\ j.op \notin Pinning /\ j.op \notin {"delete", "harddelete"}
    BY <1>4 DEF Posts, Edits, Pinning
  <2>2. r # None /\ j.copy = r /\ (See(r, all) /\ old => w # None)
    BY <1>1, <1>4, Zenon DEF Relies, Permits
  <2>3. v = IF w = None \/ (~all /\ r.deleted) THEN None ELSE r
    BY <2>1, <2>2 DEF After
  <2> QED
    BY <2>1, <2>2, <2>3 DEF Exact, See
<1>5. CASE j.op = "restore"
  <2>1. j.op \notin Posts /\ j.op \notin Pinning /\ j.op \notin {"delete", "harddelete"} /\ j.stage = "tell"
    BY <1>1, <1>5 DEF Posts, Edits, Pinning
  <2>2. r # None /\ j.copy = r /\ ~r.deleted
    BY <1>1, <1>5, <2>1 DEF Relies
  <2>3. v = r
    BY <1>5, <2>1, <2>2 DEF After
  <2> QED
    BY <2>1, <2>2, <2>3 DEF Exact, See
<1>6. CASE j.op = "delete"
  <2>1. j.op \notin Posts /\ j.op \notin Pinning /\ j.op # "harddelete" /\ j.stage = "tell"
    BY <1>1, <1>6 DEF Posts, Edits, Pinning
  <2>2. r # None /\ j.copy = r /\ r.deleted /\ (See(r, all) /\ old => w # None)
    BY <1>1, <1>6, <2>1 DEF Relies, Permits
  <2>3. v = IF w = None \/ ~all THEN None ELSE r
    BY <1>6, <2>1, <2>2 DEF After
  <2> QED
    BY <2>1, <2>2, <2>3 DEF Exact, See
<1>7. CASE j.op = "harddelete"
  <2>1. j.op \notin Posts /\ j.op \notin Pinning
    BY <1>7 DEF Posts, Edits, Pinning
  <2>2. r = None
    BY <1>1, <1>7 DEF Relies
  <2>3. v = None
    BY <1>7, <2>1 DEF After
  <2> QED
    BY <2>1, <2>2, <2>3 DEF Exact, See
<1>8. CASE j.op \in Pinning
  <2>1. j.op \notin Posts /\ j.op \notin {"delete", "harddelete"}
    BY <1>8 DEF Posts, Edits, Pinning
  <2>2. (See(r, all) /\ old => w # None) /\ (w # None => See(r, all) /\ [w EXCEPT !.pinned = j.op = "pin"] = r)
    BY <1>1, <1>8, Zenon DEF Permits
  <2>3. v = IF w = None THEN None ELSE [w EXCEPT !.pinned = j.op = "pin"]
    BY <1>8, <2>1 DEF After
  <2> QED
    BY <2>1, <2>2, <2>3 DEF Exact, See
<1> QED
  BY <1>1, <1>3, <1>4, <1>5, <1>6, <1>7, <1>8 DEF Ops, Posts

-----------------------------------------------------------------------------
(* The end of a request.                                                   *)
Concludes(k, j, i) ==
  /\ jobs[k] = j /\ jobs' = [jobs EXCEPT ![k] = i]
  /\ i # None => i.m = j.m /\ i.op = j.op /\ i.op \in Posts /\ \A r : Relies(j, r) => Relies(i, r)
  /\ fetches' = Overtaken(j.m) /\ UNCHANGED <<rows, clock, due, reveal>>
  /\ log.suspect \subseteq log'.suspect /\ (log.rivals => log'.rivals) /\ log'.crossed = log.crossed
  /\ j.op \in Posts => \/ log'.rivals
                       \/ j.m \in log'.suspect /\ i = None /\ app'.cache = app.cache
                       \/ \A l \in Jobs, h \in Job : PostsAt(l, h) => j.m <= h.m

Alike(g, h) ==
  /\ g.kind = h.kind /\ g.before = h.before /\ g.all = h.all /\ g.old = h.old /\ g.read = h.read /\ g.page = h.page
  /\ h.stale \subseteq g.stale

LEMMA OvertakenIs ==
  ASSUME TalkInv, NEW m \in Messages, NEW f \in Fetches
  PROVE  \/ fetches[f] = None /\ Overtaken(m)[f] = None
         \/ \E g, h \in Fetch : /\ fetches[f] = h /\ Overtaken(m)[f] = g /\ Alike(g, h)
                                /\ g.read => m \in g.stale
<1>1. CASE fetches[f] = None
  BY <1>1 DEF Overtaken
<1>2. CASE fetches[f] # None
  <2>1. PICK h \in Fetch : h = fetches[f]
    BY <1>2 DEF TalkInv, TalkTypeOK
  <2>2. PICK g : g = IF h.read THEN [h EXCEPT !.stale = h.stale \cup {m}] ELSE h
    OBVIOUS
  <2>3. Overtaken(m)[f] = g
    BY <1>2, <2>1, <2>2 DEF Overtaken
  <2>4. g \in Fetch /\ Alike(g, h) /\ (g.read => m \in g.stale)
    BY <2>2 DEF Fetch, Alike
  <2> QED
    BY <2>1, <2>3, <2>4
<1> QED
  BY <1>1, <1>2

LEMMA SettledKeeps ==
  ASSUME TalkInv, CacheInv, NEW k \in Jobs, NEW j \in Job, NEW i \in Job \cup {None}, Concludes(k, j, i),
         Upto(app'.cache, clock)
  PROVE  Numbered' /\ Collide' /\ AllRely' /\ PagesTell' /\ Orderly'
<1>1. /\ jobs[k] = j /\ jobs' = [jobs EXCEPT ![k] = i]
      /\ fetches' = Overtaken(j.m) /\ UNCHANGED <<rows, clock, due, reveal>>
      /\ log.suspect \subseteq log'.suspect /\ (log.rivals => log'.rivals)
  BY DEF Concludes
<1>2. /\ j # None /\ j.m \in Messages
      /\ i # None => i \in Job /\ i.m = j.m /\ i.op = j.op /\ \A r : Relies(j, r) => Relies(i, r)
  BY MessageRecords DEF Concludes, Job
<1>3. jobs'[k] = i /\ \A l \in Jobs \ {k} : jobs'[l] = jobs[l]
  BY <1>1 DEF TalkInv, TalkTypeOK
<1>4. Numbered /\ Collide /\ AllRely /\ PagesTell /\ Orderly
  BY DEF CacheInv
<1>5. ASSUME NEW l \in Jobs, NEW h \in Job, jobs'[l] = h
      PROVE  \E o \in Job : jobs[l] = o /\ o.m = h.m /\ o.op = h.op /\ \A r : Relies(o, r) => Relies(h, r)
  <2>1. CASE l = k
    BY <1>1, <1>2, <1>3, <1>5, <2>1, MessageRecords
  <2>2. CASE l # k
    BY <1>3, <1>5, <2>2
  <2> QED
    BY <2>1, <2>2
<1>6. ASSUME NEW f \in Fetches, NEW g \in Fetch, fetches'[f] = g
      PROVE  \E h \in Fetch : fetches[f] = h /\ Alike(g, h) /\ (g.read => j.m \in g.stale)
  BY <1>1, <1>2, <1>6, OvertakenIs, MessageRecords
<1>7. Numbered'
  <2>1. \A l \in Jobs, h \in Job : jobs'[l] = h => h.m <= clock
    BY <1>4, <1>5 DEF Numbered
  <2>2. \A f \in Fetches, g \in Fetch : fetches'[f] = g => Counts(g, clock)
    <3> SUFFICES ASSUME NEW f \in Fetches, NEW g \in Fetch, fetches'[f] = g PROVE Counts(g, clock)
      OBVIOUS
    <3>1. PICK h \in Fetch : fetches[f] = h /\ Alike(g, h)
      BY <1>6
    <3>2. Counts(h, clock)
      BY <1>4, <3>1, Zenon DEF Numbered
    <3> QED
      BY <3>1, <3>2 DEF Alike, Counts
  <2> QED
    BY <1>1, <1>4, <2>1, <2>2 DEF Numbered
<1>8. Collide'
  <2> SUFFICES ASSUME NEW l \in Jobs, NEW n \in Jobs, NEW h \in Job, NEW g \in Job,
                      jobs'[l] = h, jobs'[n] = g, l # n, g.m = h.m
               PROVE  h.m \in log'.suspect
    BY DEF Collide
  <2>1. PICK o \in Job : jobs[l] = o /\ o.m = h.m
    BY <1>5
  <2>2. PICK p \in Job : jobs[n] = p /\ p.m = g.m
    BY <1>5
  <2>3. o.m \in log.suspect
    BY <1>4, <2>1, <2>2, Zenon DEF Collide
  <2> QED
    BY <1>1, <2>1, <2>3
<1>9. AllRely'
  <2> SUFFICES ASSUME NEW l \in Jobs, NEW h \in Job, NEW x \in Versions, jobs'[l] = h, rows'[h.m] = x, h.m \notin log'.suspect
               PROVE  Relies(h, x)
    BY Zenon DEF AllRely
  <2>1. PICK o \in Job : jobs[l] = o /\ o.m = h.m /\ \A r : Relies(o, r) => Relies(h, r)
    BY <1>5
  <2>2. Relies(o, x)
    BY <1>1, <1>4, <2>1 DEF AllRely
  <2> QED
    BY <2>1, <2>2
<1>10. PagesTell'
  <2> SUFFICES ASSUME NEW f \in Fetches, NEW g \in Fetch, fetches'[f] = g, g.read PROVE PageFits(g)'
    BY Zenon DEF PagesTell
  <2>1. PICK h \in Fetch : fetches[f] = h /\ Alike(g, h) /\ j.m \in g.stale
    BY <1>6
  <2>2. PageFits(h)
    BY <1>4, <2>1 DEF PagesTell, Alike
  <2>3. ASSUME NEW m \in Messages, NEW r \in Versions, NEW all \in BOOLEAN, NEW cov \in BOOLEAN, NEW v \in Versions,
               rows'[m] = r, Viewed(g, m, all, v, cov)
        PROVE  UpToDate(r, all, m, v, cov)' /\ (m \notin log'.suspect => Fit(r, all, m, v, cov)')
    <3>1. m # j.m /\ Viewed(h, m, all, v, cov)
      BY <2>1, <2>3 DEF Viewed, Alike
    <3>2. UpToDate(r, all, m, v, cov) /\ (m \notin log.suspect => Fit(r, all, m, v, cov))
      BY <1>1, <2>2, <2>3, <3>1 DEF PageFits
    <3>3. (jobs[k] # None => jobs[k].m # m) /\ (i # None => i.m # m)
      BY <1>1, <1>2, <3>1
    <3>4. /\ Fit(r, all, m, v, cov) => Fit(r, all, m, v, cov)'
          /\ UpToDate(r, all, m, v, cov) => UpToDate(r, all, m, v, cov)'
      BY <1>1, <3>3, Elsewhere
    <3> QED
      BY <1>1, <3>2, <3>4
  <2>4. Rising(g.page) /\ \A n \in DOMAIN g.page : g.before = 0 \/ g.page[n].id < g.before
    BY <2>1, <2>2 DEF PageFits, Alike
  <2> QED
    BY <2>3, <2>4, Zenon DEF PageFits
<1>11. Orderly'
  <2> SUFFICES ASSUME ~log'.rivals, NEW l \in Jobs, NEW h \in Job, PostsAt(l, h)' PROVE
        /\ \A m \in Messages : h.m < m /\ m <= clock => m \in log'.suspect \/ Untold(m)'
        /\ \A n \in Jobs, g \in Job : PostsAt(n, g)' /\ g.stage = "answer" => g.m <= h.m
    BY <1>1 DEF Orderly
  <2>1. PICK o \in Job : PostsAt(l, o) /\ o.m = h.m
    BY <1>5 DEF PostsAt
  <2>2. /\ \A m \in Messages : o.m < m /\ m <= clock => m \in log.suspect \/ Untold(m)
        /\ \A n \in Jobs, g \in Job : PostsAt(n, g) /\ g.stage = "answer" => g.m <= o.m
    BY <1>1, <1>4, <2>1, Zenon DEF Orderly
  <2>3. o.m \in Nat /\ \A m \in Messages : m \in Nat
    BY PageBounds DEF Job, Messages
  <2>4. j.op \in Posts => (j.m \in log'.suspect /\ i = None) \/ j.m <= h.m
    BY <2>1, Zenon DEF Concludes
  <2>5. ASSUME NEW m \in Messages, h.m < m, m <= clock, m \notin log'.suspect PROVE Untold(m)'
    <3>1. PICK n \in Jobs, q \in Job : On(m, n, q) /\ q.op \in Posts /\ q.stage # "answer"
      BY <1>1, <2>1, <2>2, <2>5 DEF Untold
    <3>2. n # k
      BY <1>1, <2>1, <2>3, <2>4, <2>5, <3>1 DEF On
    <3>3. On(m, n, q)'
      BY <1>3, <3>1, <3>2 DEF On
    <3> QED
      BY <3>1, <3>3 DEF Untold
  <2>6. ASSUME NEW n \in Jobs, NEW g \in Job, PostsAt(n, g)', g.stage = "answer" PROVE g.m <= h.m
    <3>1. CASE n = k
      <4>1. i # None /\ g.m = j.m /\ j.op \in Posts
        BY <1>2, <1>3, <2>6, <3>1, MessageRecords DEF PostsAt
      <4> QED
        BY <2>4, <4>1
    <3>2. CASE n # k
      <4>1. PostsAt(n, g)
        BY <1>3, <2>6, <3>2 DEF PostsAt
      <4> QED
        BY <2>1, <2>2, <2>6, <4>1
    <3> QED
      BY <3>1, <3>2
  <2> QED
    BY <2>5, <2>6
<1> QED
  BY <1>7, <1>8, <1>9, <1>10, <1>11

LEMMA SettledList ==
  ASSUME TalkInv, CacheInv, NEW k \in Jobs, NEW j \in Job, NEW i \in Job \cup {None}, Concludes(k, j, i),
         JobShaped(j), app'.open = app.open, app'.more = app.more,
         \/ app'.cache = app.cache /\ (j.m \in log'.suspect \/ ~app.open)
         \/ /\ app'.cache = CacheAfter(j.op, j.m, j.copy) /\ j.stage \in {"tell", "answer"}
            /\ j.op = "restore" /\ ~InCache(j.m) => j.m \in log'.suspect
  PROVE  ListTells' /\ Ahead' /\ Upto(app'.cache, clock)
<1>1. /\ jobs[k] = j /\ jobs' = [jobs EXCEPT ![k] = i]
      /\ fetches' = Overtaken(j.m) /\ rows' = rows /\ clock' = clock /\ reveal' = reveal
      /\ log.suspect \subseteq log'.suspect /\ (log.rivals => log'.rivals) /\ log'.crossed = log.crossed
  BY DEF Concludes
<1>2. /\ j # None /\ j.m \in Messages /\ j.op \in Ops /\ j.copy \in Versions
      /\ i # None => i \in Job /\ i.m = j.m /\ i.op = j.op /\ i.op \in Posts
  BY MessageRecords DEF Concludes, Job, Versions
<1>3. jobs'[k] = i
  BY <1>1 DEF TalkInv, TalkTypeOK
<1>4. Numbered /\ Collide /\ AllRely /\ ListTells /\ Orderly /\ Ahead
  BY DEF CacheInv
<1>9. ASSUME NEW l \in Jobs, NEW h \in Job, jobs[l] = h, l # k, h.m = j.m PROVE j.m \in log.suspect
  BY <1>1, <1>4, <1>9, Zenon DEF Collide
<1>0. PICK t : t = app'.cache
  OBVIOUS
<1>5. PICK s \in Seq(Copy) : s = app.cache /\ t = app'.cache
  BY <1>0, AppIs
<1>6. /\ clock \in Nat /\ \A m \in Messages : m \in Nat
      /\ \A n \in DOMAIN s : s[n].id \in Nat /\ s[n].id <= clock
      /\ j.m <= clock
  <2>1. clock \in Nat /\ \A m \in Messages : m \in Nat
    BY PageBounds DEF TalkInv, TalkTypeOK, Messages
  <2> QED
    BY <1>1, <1>4, <1>5, <2>1, CopiesAre DEF Numbered, Upto
<1>10. ASSUME NEW f \in Fetches, NEW g \in Fetch, fetches'[f] = g PROVE \E h \in Fetch : fetches[f] = h /\ Alike(g, h)
  BY <1>1, <1>2, <1>10, OvertakenIs, MessageRecords
<1>11. Sound' => Sound
  <2> SUFFICES ASSUME Sound' PROVE Sound
    OBVIOUS
  <2>1. ASSUME NEW f \in Fetches, NEW h \in Fetch, fetches[f] = h PROVE h.kind # "refetch"
    <3>1. PICK g \in Fetch : fetches'[f] = g /\ Alike(g, h)
      BY <1>1, <1>2, <2>1, OvertakenIs, MessageRecords
    <3> QED
      BY <3>1 DEF Sound, Alike
  <2> QED
    BY <1>1, <2>1 DEF Sound
(* A message of a post is not newer than any that is being posted.         *)
<1>12. ASSUME Sound', NEW l \in Jobs, NEW h \in Job, PostsAt(l, h)'
       PROVE  /\ Upto(s, h.m) /\ \A f \in Fetches, g \in Fetch : fetches'[f] = g /\ Late(g) => g.before <= h.m
              /\ j.op \in Posts => t = s \/ j.m <= h.m
  <2>1. \E o \in Job : PostsAt(l, o) /\ o.m = h.m
    <3>1. CASE l = k
      BY <1>1, <1>2, <1>3, <1>12, <3>1, MessageRecords DEF PostsAt
    <3>2. CASE l # k
      BY <1>1, <1>12, <3>2 DEF PostsAt, TalkInv, TalkTypeOK
    <3> QED
      BY <3>1, <3>2
  <2>2. PICK o \in Job : PostsAt(l, o) /\ o.m = h.m
    BY <2>1
  <2>3. Upto(s, h.m) /\ \A f \in Fetches, g \in Fetch : fetches[f] = g /\ Late(g) => g.before <= h.m
    BY <1>4, <1>5, <1>11, <1>12, <2>2, Zenon DEF Ahead
  <2>4. \A f \in Fetches, g \in Fetch : fetches'[f] = g /\ Late(g) => g.before <= h.m
    BY <1>10, <2>3 DEF Alike, Late
  <2>5. ~log'.rivals
    BY <1>12 DEF Sound
  <2>6. j.op \in Posts => t = s \/ j.m <= h.m
    BY <1>0, <1>5, <2>2, <2>5, Zenon DEF Concludes
  <2> QED
    BY <2>3, <2>4, <2>6
<1>7. CASE t = s /\ (j.m \in log'.suspect \/ ~app.open)
  <2>1. Upto(app'.cache, clock)
    BY <1>4, <1>5, <1>7 DEF Numbered
  <2>2. ListTells'
    <3> SUFFICES ASSUME Sound' PROVE
          /\ Rising(app'.cache)
          /\ \A f \in Fetches, g \in Fetch : fetches'[f] = g /\ Late(g) => g.all = reveal' /\ From(app'.cache, g.before)
          /\ \A m \in Messages, r \in Versions, all, cov \in BOOLEAN, v \in Versions :
               rows'[m] = r /\ m \notin log'.suspect /\ Displayed(m, all, v, cov)' => Fit(r, all, m, v, cov)'
      BY Zenon DEF ListTells
    <3>3. Sound /\ app.open
      BY <1>11 DEF Sound
    <3>4. Rising(app'.cache)
      BY <1>4, <1>5, <1>7, <3>3 DEF ListTells
    <3>5. ASSUME NEW f \in Fetches, NEW g \in Fetch, fetches'[f] = g, Late(g)
          PROVE  g.all = reveal' /\ From(app'.cache, g.before)
      <4>1. PICK h \in Fetch : fetches[f] = h /\ Alike(g, h)
        BY <1>10, <3>5
      <4>2. h.all = reveal /\ From(app.cache, h.before)
        BY <1>4, <3>3, <3>5, <4>1 DEF ListTells, Late, Alike
      <4> QED
        BY <1>1, <1>5, <1>7, <4>1, <4>2 DEF Alike
    <3>6. ASSUME NEW m \in Messages, NEW r \in Versions, NEW all \in BOOLEAN, NEW cov \in BOOLEAN, NEW v \in Versions,
                 rows'[m] = r, m \notin log'.suspect, Displayed(m, all, v, cov)'
          PROVE  Fit(r, all, m, v, cov)'
      <4>1. Spanned(m)' => Spanned(m)
        <5>1. ASSUME NEW f \in Fetches, NEW g \in Fetch, fetches'[f] = g, Late(g), m >= g.before PROVE Spanned(m)
          BY <1>10, <5>1 DEF Alike, Late, Spanned
        <5>2. Below(app'.cache, m) => Below(app.cache, m)
          BY <1>5, <1>7
        <5> QED
          BY <1>1, <5>1, <5>2 DEF Spanned
      <4>2. Displayed(m, all, v, cov)
        BY <1>1, <1>5, <1>7, <3>6, <4>1 DEF Displayed
      <4>3. Fit(r, all, m, v, cov)
        BY <1>1, <1>4, <3>3, <3>6, <4>2 DEF ListTells
      <4>4. (jobs[k] # None => jobs[k].m # m) /\ (i # None => i.m # m)
        BY <1>1, <1>2, <1>7, <3>3, <3>6
      <4> QED
        BY <1>1, <4>3, <4>4, Elsewhere
    <3> QED
      BY <3>4, <3>5, <3>6
  <2>3. Ahead'
    BY <1>1, <1>5, <1>7, <1>12 DEF Ahead
  <2> QED
    BY <2>1, <2>2, <2>3
<1>8. CASE /\ t = CacheAfter(j.op, j.m, j.copy) /\ j.stage \in {"tell", "answer"}
           /\ j.op = "restore" /\ ~InCache(j.m) => j.m \in log'.suspect
  <2>1. j.op \in Posts \cup Edits \cup {"restore"} => j.copy # None
    BY <1>8 DEF JobShaped, Posts, Edits
  <2>2. /\ \A x \in Messages, v \in Versions : x # j.m /\ Holds(t, x, v) => Holds(s, x, v)
        /\ Rising(s) /\ (j.op \in Posts => Upto(s, j.m)) => Rising(t)
        /\ \A n \in DOMAIN t : (j.op \in Posts /\ t[n].id = j.m) \/ \E l \in DOMAIN s : s[l].id = t[n].id
        /\ \A v \in Versions : Holds(t, j.m, v) =>
             \E w \in Versions : Holds(s, j.m, w) /\ v = After(j.op, w, j.copy, reveal)
    BY <1>2, <1>5, <1>8, <2>1, CacheAfterIs
  <2>3. Upto(app'.cache, clock)
    BY <1>5, <1>6, <2>2 DEF Upto
  <2>4. ListTells'
    <3> SUFFICES ASSUME Sound' PROVE
          /\ Rising(app'.cache)
          /\ \A f \in Fetches, g \in Fetch : fetches'[f] = g /\ Late(g) => g.all = reveal' /\ From(app'.cache, g.before)
          /\ \A m \in Messages, r \in Versions, all, cov \in BOOLEAN, v \in Versions :
               rows'[m] = r /\ m \notin log'.suspect /\ Displayed(m, all, v, cov)' => Fit(r, all, m, v, cov)'
      BY Zenon DEF ListTells
    <3>3. Sound
      BY <1>11 DEF Sound
    <3>40. \A m \in Messages, r \in Versions, all, cov \in BOOLEAN, v \in Versions :
             rows[m] = r /\ m \notin log.suspect /\ Displayed(m, all, v, cov) => Fit(r, all, m, v, cov)
      BY <1>4, <3>3 DEF ListTells
    <3>4. j.op \in Posts =>
            Upto(s, j.m) /\ \A f \in Fetches, g \in Fetch : fetches[f] = g /\ Late(g) => g.before <= j.m
      BY <1>1, <1>4, <1>5, <3>3 DEF Ahead, PostsAt
    <3>5. Rising(app'.cache)
      <4>1. j.op \in Posts => Upto(s, j.m)
        BY <3>4
      <4>2. Rising(s)
        BY <1>4, <1>5, <3>3 DEF ListTells
      <4> QED
        BY <1>5, <2>2, <4>1, <4>2
    <3>6. ASSUME NEW f \in Fetches, NEW g \in Fetch, fetches'[f] = g, Late(g)
          PROVE  g.all = reveal' /\ From(app'.cache, g.before)
      <4>1. PICK h \in Fetch : fetches[f] = h /\ Alike(g, h)
        BY <1>10, <3>6
      <4>2. h.all = reveal /\ From(s, h.before)
        BY <1>4, <1>5, <3>3, <3>6, <4>1 DEF ListTells, Late, Alike
      <4>3. h.before \in Nat /\ (j.op \in Posts => h.before <= j.m)
        BY <3>4, <3>6, <4>1, PageBounds DEF Fetch, Late, Alike
      <4>4. From(t, h.before)
        <5> SUFFICES ASSUME NEW n \in DOMAIN t PROVE t[n].id >= h.before
          BY DEF From
        <5>1. CASE j.op \in Posts /\ t[n].id = j.m
          BY <1>6, <4>3, <5>1
        <5>2. CASE \E l \in DOMAIN s : s[l].id = t[n].id
          BY <4>2, <5>2 DEF From
        <5> QED
          BY <2>2, <5>1, <5>2
      <4> QED
        BY <1>1, <1>5, <4>1, <4>2, <4>4 DEF Alike
    <3>7. ASSUME NEW m \in Messages, j.op \in Posts => m < j.m, Spanned(m)' PROVE Spanned(m)
      <4>1. ASSUME NEW f \in Fetches, NEW g \in Fetch, fetches'[f] = g, Late(g), m >= g.before PROVE Spanned(m)
        BY <1>10, <4>1 DEF Alike, Late, Spanned
      <4>2. Below(app'.cache, m) => Below(app.cache, m)
        <5> SUFFICES ASSUME NEW n \in DOMAIN t, t[n].id <= m PROVE \E l \in DOMAIN s : s[l].id <= m
          BY <1>5 DEF Below
        <5>1. CASE j.op \in Posts /\ t[n].id = j.m
          <6>1. m \in Nat /\ j.m \in Nat
            BY PageBounds DEF Job, Messages
          <6> QED
            BY <3>7, <5>1, <6>1
        <5>2. CASE \E l \in DOMAIN s : s[l].id = t[n].id
          BY <5>2
        <5> QED
          BY <2>2, <5>1, <5>2
      <4> QED
        BY <1>1, <3>7, <4>1, <4>2 DEF Spanned
    <3>8. ASSUME NEW m \in Messages, NEW r \in Versions, NEW all \in BOOLEAN, NEW cov \in BOOLEAN, NEW v \in Versions,
                 rows'[m] = r, m \notin log'.suspect, Displayed(m, all, v, cov)'
          PROVE  Fit(r, all, m, v, cov)'
      <4>1. all = reveal /\ (cov => Spanned(m)') /\ Holds(t, m, v) /\ rows[m] = r /\ m \notin log.suspect
        BY <1>1, <1>5, <3>8 DEF Displayed
      <4>2. CASE m # j.m
        <5>1. (jobs[k] # None => jobs[k].m # m) /\ (i # None => i.m # m)
          BY <1>1, <1>2, <4>2
        <5>2. Holds(s, m, v)
          BY <2>2, <4>1, <4>2
        <5>3. Fit(r, all, m, v, cov)
          <6>1. CASE j.op \in Posts /\ m > clock
            <7>1. r = None
              BY <1>4, <1>6, <4>1, <6>1 DEF Numbered
            <7>2. v = None
              BY <1>6, <5>2, <6>1 DEF Holds
            <7>3. \A l \in Jobs, h \in Job : ~On(m, l, h)
              BY <1>4, <1>6, <6>1 DEF On, Numbered
            <7> QED
              BY <7>1, <7>2, <7>3, Zenon DEF Fit, Exact, See
          <6>3. CASE j.op \in Posts /\ j.m < m /\ m <= clock
            <7>1. v = None
              BY <1>2, <1>6, <3>4, <5>2, <6>3 DEF Holds, Upto
            <7>2. Untold(m)
              BY <1>1, <1>4, <3>3, <4>1, <6>3 DEF Orderly, PostsAt, Sound
            <7>3. PICK l \in Jobs, h \in Job : On(m, l, h) /\ h.op \in Posts
              BY <7>2 DEF Untold
            <7>4. ASSUME NEW n \in Jobs, NEW g \in Job, On(m, n, g) PROVE g = h
              BY <1>4, <4>1, <7>3, <7>4 DEF Collide, On
            <7>5. Permits(h, r, all, v, cov)
              BY <7>1, <7>3 DEF Permits, Posts, Edits, Pinning
            <7> QED
              BY <7>3, <7>4, <7>5, Zenon DEF Fit
          <6>2. CASE j.op \in Posts => m < j.m
            <7>1. j.op \in Posts => m < j.m
              BY <6>2
            <7>2. Spanned(m)' => Spanned(m)
              BY <3>7, <7>1
            <7>3. Displayed(m, all, v, cov)
              BY <1>5, <4>1, <5>2, <7>2 DEF Displayed
            <7> QED
              BY <3>40, <4>1, <7>3
          <6> QED
            BY <1>2, <1>6, <4>2, <6>1, <6>2, <6>3
        <5> QED
          BY <1>1, <5>1, <5>3, Elsewhere
      <4>3. CASE m = j.m
        <5>1. PICK w \in Versions : Holds(s, m, w) /\ v = After(j.op, w, j.copy, all)
          BY <2>2, <4>1, <4>3
        <5>2. PICK old \in BOOLEAN : old <=> Spanned(m)
          BY Zenon
        <5>3. Displayed(m, all, w, old)
          BY <1>5, <4>1, <5>1, <5>2 DEF Displayed
        <5>4. Fit(r, all, m, w, old)
          BY <3>40, <4>1, <5>3
        <5>5. Permits(j, r, all, w, old)
          BY <1>1, <4>3, <5>4, Zenon DEF Fit, On
        <5>6. Relies(j, r)
          BY <1>1, <1>4, <4>1, <4>3, Zenon DEF AllRely
        <5>7. j.op \notin Posts /\ cov => old
          BY <3>7, <4>1, <5>2
        <5>8. j.op = "restore" => w # None
          <6> SUFFICES ASSUME j.op = "restore" PROVE w # None
            OBVIOUS
          <6>1. InCache(m)
            BY <1>8, <3>8, <4>3
          <6> QED
            BY <1>5, <5>1, <6>1 DEF InCache, Holds
        <5>9. Exact(r, all, v, cov) /\ (j.op \in Posts => v = r)
          <6>1. j.stage \in {"tell", "answer"}
            BY <1>8
          <6> QED
            BY <5>1, <5>5, <5>6, <5>7, <5>8, <6>1, ToldIs
        <5>10. ASSUME NEW l \in Jobs, NEW h \in Job, On(m, l, h)' PROVE l = k /\ h = i
          <6>1. CASE l = k
            BY <1>3, <5>10, <6>1 DEF On
          <6>2. CASE l # k
            <7>1. jobs[l] = h /\ h.m = m
              BY <1>1, <5>10, <6>2 DEF On, TalkInv, TalkTypeOK
            <7>2. Collide /\ jobs[k] = j /\ j.m = m /\ m \notin log.suspect
              BY <1>1, <1>4, <4>1, <4>3
            <7> QED
              BY <1>9, <6>2, <7>1, <7>2
          <6> QED
            BY <6>1, <6>2
        <5>11. CASE i = None
          <6>1. \A l \in Jobs, h \in Job : ~On(m, l, h)'
            BY <5>10, <5>11, MessageRecords
          <6> QED
            BY <5>9, <6>1, Zenon DEF Fit
        <5>12. CASE i # None
          <6>1. i \in Job /\ On(m, k, i)' /\ i.op \in Posts /\ v = r
            BY <1>2, <1>3, <4>3, <5>9, <5>12 DEF On
          <6>2. Permits(i, r, all, v, cov)
            BY <6>1 DEF Permits, Posts, Edits, Pinning
          <6> QED
            BY <5>10, <6>1, <6>2, Zenon DEF Fit
        <5> QED
          BY <5>11, <5>12
      <4> QED
        BY <4>2, <4>3
    <3> QED
      BY <3>5, <3>6, <3>8
  <2>5. Ahead'
    <3> SUFFICES ASSUME Sound', NEW l \in Jobs, NEW h \in Job, PostsAt(l, h)' PROVE Upto(t, h.m)
      BY <1>5, <1>12 DEF Ahead
    <3>1. Upto(s, h.m) /\ (j.op \in Posts => t = s \/ j.m <= h.m)
      BY <1>12
    <3> QED
      BY <2>2, <3>1 DEF Upto
  <2> QED
    BY <2>3, <2>4, <2>5
<1> QED
  BY <1>5, <1>7, <1>8

LEMMA TellKeeps == ASSUME TalkInv, CacheInv, NEW k \in Jobs, Tell(k) PROVE CacheInv'
<1>1. PICK j \in Job : j = jobs[k] /\ JobShaped(j) /\ j.stage = "tell" /\ j.m \in Messages /\ j.op \in Ops
  <2>1. jobs[k] # None /\ jobs[k].stage = "tell"
    BY DEF Tell, JobAt
  <2> QED
    BY <2>1, JobIs DEF Job
<1>2. /\ app' = IF app.open /\ Hears THEN [app EXCEPT !.cache = CacheAfter(j.op, j.m, j.copy)] ELSE app
      /\ log' = [log EXCEPT !.suspect = IF LostOn(j.op, j.m) THEN log.suspect \cup {j.m} ELSE log.suspect,
                            !.rivals = log.rivals \/ Outruns(k)]
      /\ fetches' = Overtaken(j.m) /\ UNCHANGED <<rows, clock, due, reveal>>
      /\ IF j.op = "send" THEN JobTo(k, "answer") ELSE JobOver(k)
  BY <1>1, Zenon DEF Tell
<1>3. log \in Log /\ app \in App
  BY DEF TalkInv, TalkTypeOK
<1>4. /\ log.suspect \subseteq log'.suspect /\ log'.crossed = log.crossed
      /\ LostOn(j.op, j.m) => j.m \in log'.suspect
      /\ (log.rivals => log'.rivals) /\ (Outruns(k) => log'.rivals)
  <2>1. PICK b : b = (log.rivals \/ Outruns(k))
    OBVIOUS
  <2>2. log' = [log EXCEPT !.suspect = IF LostOn(j.op, j.m) THEN log.suspect \cup {j.m} ELSE log.suspect, !.rivals = b]
    BY <1>2, <2>1
  <2>3. /\ log'.suspect = IF LostOn(j.op, j.m) THEN log.suspect \cup {j.m} ELSE log.suspect
        /\ log'.crossed = log.crossed /\ log'.rivals = b
    BY <1>3, <2>2 DEF Log
  <2> QED
    BY <2>1, <2>3
<1>40. j.op \in Posts => log'.rivals \/ \A l \in Jobs, h \in Job : PostsAt(l, h) => j.m <= h.m
  <2> SUFFICES ASSUME j.op \in Posts, ~Outruns(k), NEW l \in Jobs, NEW h \in Job, PostsAt(l, h) PROVE j.m <= h.m
    BY <1>4
  <2>1. Posting(k) /\ Posting(l)
    BY <1>1, MessageRecords DEF Posting, Posts, PostsAt
  <2>2. ~(h.m < j.m)
    BY <1>1, <2>1 DEF Outruns, PostsAt
  <2>3. h.m \in Nat /\ j.m \in Nat
    BY PageBounds DEF Job, Messages
  <2> QED
    BY <2>2, <2>3
<1>5. PICK i \in Job \cup {None} : Concludes(k, j, i)
  <2>1. CASE j.op = "send"
    <3> DEFINE i == [j EXCEPT !.stage = "answer"]
    <3>1. i \in Job /\ i.m = j.m /\ i.op = j.op /\ i.copy = j.copy /\ i.stage = "answer"
      BY DEF Job
    <3>2. jobs' = [jobs EXCEPT ![k] = i]
      BY <1>1, <1>2, <2>1 DEF JobTo, TalkInv, TalkTypeOK
    <3> HIDE DEF i
    <3>3. \A r : Relies(j, r) => Relies(i, r)
      BY <1>1, <2>1, <3>1 DEF Relies, Done, Posts, Edits, Pinning
    <3>4. i.op \in Posts
      BY <2>1, <3>1 DEF Posts
    <3>5. Concludes(k, j, i)
      BY <1>1, <1>2, <1>4, <1>40, <3>1, <3>2, <3>3, <3>4 DEF Concludes
    <3> QED
      BY <3>1, <3>5
  <2>2. CASE j.op # "send"
    <3>1. jobs' = [jobs EXCEPT ![k] = None]
      BY <1>2, <2>2 DEF JobOver
    <3>2. Concludes(k, j, None)
      BY <1>1, <1>2, <1>4, <1>40, <3>1 DEF Concludes
    <3> QED
      BY <3>2
  <2> QED
    BY <2>1, <2>2
<1>6. app'.open = app.open /\ app'.more = app.more
  BY <1>2, <1>3 DEF App
<1>7. \/ app'.cache = app.cache /\ (j.m \in log'.suspect \/ ~app.open)
      \/ /\ app'.cache = CacheAfter(j.op, j.m, j.copy)
         /\ j.op = "restore" /\ ~InCache(j.m) => j.m \in log'.suspect
  <2>1. CASE app.open /\ Hears
    <3>1. app'.cache = CacheAfter(j.op, j.m, j.copy)
      BY <1>2, <1>3, <2>1 DEF App
    <3>2. j.op = "restore" /\ ~InCache(j.m) => LostOn(j.op, j.m)
      BY DEF LostOn
    <3> QED
      BY <1>4, <3>1, <3>2
  <2>2. CASE ~app.open
    BY <1>2, <2>2
  <2>3. CASE ~Hears
    <3>1. LostOn(j.op, j.m)
      BY <2>3 DEF LostOn
    <3> QED
      BY <1>2, <1>4, <2>3, <3>1
  <2> QED
    BY <2>1, <2>2, <2>3
<1>8. ListTells' /\ Ahead' /\ Upto(app'.cache, clock)
  BY <1>1, <1>5, <1>6, <1>7, SettledList
<1> QED
  BY <1>5, <1>8, SettledKeeps DEF CacheInv

LEMMA AnswerKeeps == ASSUME TalkInv, CacheInv, NEW k \in Jobs, SendAnswered(k) PROVE CacheInv'
<1>1. PICK j \in Job : j = jobs[k] /\ JobShaped(j) /\ j.stage = "answer"
  <2>1. jobs[k] # None /\ jobs[k].stage = "answer"
    BY DEF SendAnswered, JobAt
  <2> QED
    BY <2>1, JobIs
<1>2. /\ app' = IF app.open THEN [app EXCEPT !.cache = Added(j.m, j.copy)] ELSE app
      /\ fetches' = Overtaken(j.m) /\ UNCHANGED <<rows, clock, due, reveal, log>>
      /\ jobs' = [jobs EXCEPT ![k] = None]
  BY <1>1, Zenon DEF SendAnswered, JobOver
<1>3. app \in App
  BY DEF TalkInv, TalkTypeOK
<1>40. j.op \in Posts => log'.rivals \/ \A l \in Jobs, h \in Job : PostsAt(l, h) => j.m <= h.m
  BY <1>1, <1>2 DEF CacheInv, Orderly, PostsAt
<1>4. Concludes(k, j, None)
  BY <1>1, <1>2, <1>40 DEF Concludes
<1>5. app'.open = app.open /\ app'.more = app.more
  BY <1>2, <1>3 DEF App
<1>6. j.op = "send"
  BY <1>1 DEF JobShaped
<1>7. Added(j.m, j.copy) = CacheAfter(j.op, j.m, j.copy)
  BY <1>6 DEF CacheAfter, Edits, Pinning
<1>8. \/ app'.cache = app.cache /\ ~app.open
      \/ app'.cache = CacheAfter(j.op, j.m, j.copy) /\ ~(j.op = "restore" /\ ~InCache(j.m))
  <2>1. app.open => app'.cache = Added(j.m, j.copy)
    BY <1>2, <1>3 DEF App
  <2> QED
    BY <1>2, <1>6, <1>7, <2>1
<1>9. ListTells' /\ Ahead' /\ Upto(app'.cache, clock)
  BY <1>1, <1>4, <1>5, <1>8, SettledList
<1> QED
  BY <1>4, <1>9, SettledKeeps DEF CacheInv

LEMMA JobFailsKeeps == ASSUME TalkInv, CacheInv, NEW k \in Jobs, JobFails(k) PROVE CacheInv'
<1>1. PICK j \in Job : j = jobs[k] /\ JobShaped(j) /\ j.m \in Messages
  <2>1. jobs[k] # None
    BY DEF JobFails
  <2> QED
    BY <2>1, JobIs
<1>2. /\ log' = [log EXCEPT !.faults = log.faults + 1, !.suspect = log.suspect \cup {j.m}]
      /\ fetches' = Overtaken(j.m) /\ UNCHANGED <<rows, clock, due, reveal, app>>
      /\ jobs' = [jobs EXCEPT ![k] = None]
  BY <1>1 DEF JobFails, JobOver
<1>3. /\ log.suspect \subseteq log'.suspect /\ log'.rivals = log.rivals /\ log'.crossed = log.crossed
      /\ j.m \in log'.suspect
  BY <1>2 DEF TalkInv, TalkTypeOK, Log
<1>4. Concludes(k, j, None)
  BY <1>1, <1>2, <1>3 DEF Concludes
<1>5. ListTells' /\ Ahead' /\ Upto(app'.cache, clock)
  BY <1>1, <1>2, <1>3, <1>4, SettledList
<1> QED
  BY <1>4, <1>5, SettledKeeps DEF CacheInv

-----------------------------------------------------------------------------
(* The loads.  They leave the rows and the requests alone.                 *)
Same(g, h) ==
  /\ g.kind = h.kind /\ g.before = h.before /\ g.all = h.all /\ g.read = h.read /\ g.page = h.page
  /\ g.stale = h.stale

(* No message but the newest is being posted.                              *)
PostsNewest == \A k \in Jobs, j \in Job : jobs[k] = j /\ j.op \in Posts => j.m = clock
LEMMA LoadsKeep ==
  ASSUME TalkInv, CacheInv, UNCHANGED <<rows, clock, due, jobs>>,
         \/ log'.rivals = log.rivals /\ log.suspect \subseteq log'.suspect
         \/ log'.rivals
         \/ PostsNewest,
         \A m \in AtWork : m \in log.suspect => m \in log'.suspect, Upto(app'.cache, clock),
         ASSUME NEW f \in Fetches, NEW g \in Fetch, fetches'[f] = g
         PROVE  (\E h \in Fetch : fetches[f] = h /\ Same(g, h)) \/ (Counts(g, clock) /\ (g.read => PageFits(g)))
  PROVE  Numbered' /\ Collide' /\ AllRely' /\ PagesTell' /\ Orderly'
<1>1. Numbered /\ Collide /\ AllRely /\ PagesTell /\ Orderly
  BY DEF CacheInv
<1>2. ASSUME NEW f \in Fetches, NEW g \in Fetch, fetches'[f] = g
      PROVE  Counts(g, clock) /\ (g.read => PageFits(g))
  <2>1. CASE \E h \in Fetch : fetches[f] = h /\ Same(g, h)
    <3>1. PICK h \in Fetch : fetches[f] = h /\ Same(g, h)
      BY <2>1
    <3>2. Counts(h, clock) /\ (h.read => PageFits(h))
      BY <1>1, <3>1, Zenon DEF Numbered, PagesTell
    <3>3. Counts(g, clock)
      BY <3>1, <3>2 DEF Same, Counts
    <3>4. g.read => PageFits(g)
      <4> SUFFICES ASSUME g.read PROVE PageFits(g)
        OBVIOUS
      <4>1. PageFits(h) /\ g.page = h.page /\ g.before = h.before /\ g.all = h.all /\ g.stale = h.stale
        BY <3>1, <3>2 DEF Same
      <4>2. \A m, all, v, cov : Viewed(g, m, all, v, cov) => Viewed(h, m, all, v, cov)
        BY <4>1 DEF Viewed
      <4>3. Rising(g.page) /\ \A i \in DOMAIN g.page : g.before = 0 \/ g.page[i].id < g.before
        BY <4>1, Zenon DEF PageFits
      <4> QED
        BY <4>1, <4>2, <4>3, Zenon DEF PageFits
    <3> QED
      BY <3>3, <3>4
  <2> QED
    BY <1>2, <2>1
<1>3. Numbered'
  BY <1>1, <1>2 DEF Numbered
<1>4. \A k \in Jobs, j \in Job : jobs[k] = j => j.m \in AtWork
  BY MessageRecords DEF AtWork
<1>5. Collide'
  <2> SUFFICES ASSUME NEW k \in Jobs, NEW l \in Jobs, NEW i \in Job, NEW j \in Job,
                      jobs[k] = j, jobs[l] = i, k # l, i.m = j.m
               PROVE  j.m \in log'.suspect
    BY DEF Collide
  <2>1. j.m \in log.suspect
    BY <1>1, Zenon DEF Collide
  <2> QED
    BY <1>4, <2>1
<1>6. AllRely'
  <2> SUFFICES ASSUME NEW k \in Jobs, NEW j \in Job, NEW r \in Versions, jobs[k] = j, rows[j.m] = r
               PROVE  j.m \in log'.suspect \/ Relies(j, r)
    BY DEF AllRely
  <2>1. j.m \in log.suspect \/ Relies(j, r)
    BY <1>1, Zenon DEF AllRely
  <2> QED
    BY <1>4, <2>1
<1>7. PagesTell'
  <2> SUFFICES ASSUME NEW f \in Fetches, NEW g \in Fetch, fetches'[f] = g, g.read PROVE PageFits(g)'
    BY Zenon DEF PagesTell
  <2>1. PageFits(g)
    BY <1>2
  <2>2. ASSUME NEW m \in Messages, NEW r \in Versions, NEW all \in BOOLEAN, NEW cov \in BOOLEAN, NEW v \in Versions,
               rows'[m] = r, Viewed(g, m, all, v, cov)
        PROVE  UpToDate(r, all, m, v, cov)' /\ (m \notin log'.suspect => Fit(r, all, m, v, cov)')
    <3>1. UpToDate(r, all, m, v, cov) /\ (m \notin log.suspect => Fit(r, all, m, v, cov))
      BY <2>1, <2>2 DEF PageFits
    <3>2. UpToDate(r, all, m, v, cov)' /\ (Fit(r, all, m, v, cov) => Fit(r, all, m, v, cov)')
      BY <3>1 DEF UpToDate, Fit, On
    <3>3. ASSUME m \notin log'.suspect PROVE Fit(r, all, m, v, cov)
      <4>1. CASE m \in AtWork
        BY <3>1, <3>3, <4>1
      <4>2. CASE m \notin AtWork
        <5>1. \A k \in Jobs, j \in Job : ~On(m, k, j)
          BY <4>2, AtWorkIs
        <5>2. Exact(r, all, v, cov)
          BY <3>1, <5>1, Zenon DEF UpToDate
        <5> QED
          BY <5>1, <5>2, Zenon DEF Fit
      <4> QED
        BY <4>1, <4>2
    <3> QED
      BY <3>2, <3>3
  <2>3. Rising(g.page) /\ \A i \in DOMAIN g.page : g.before = 0 \/ g.page[i].id < g.before
    BY <2>1, Zenon DEF PageFits
  <2> QED
    BY <2>2, <2>3, Zenon DEF PageFits
<1>8. Orderly'
  <2>0. \A k, j : PostsAt(k, j)' <=> PostsAt(k, j)
    BY DEF PostsAt
  <2>1. \A m : Untold(m)' <=> Untold(m)
    BY DEF Untold, On
  <2>2. CASE log'.rivals = log.rivals /\ log.suspect \subseteq log'.suspect
    BY <1>1, <2>0, <2>1, <2>2 DEF Orderly
  <2>3. CASE log'.rivals
    BY <2>3 DEF Orderly
  <2>4. CASE PostsNewest
    <3>1. clock \in Nat /\ \A m \in Messages : m \in Nat
      BY PageBounds DEF TalkInv, TalkTypeOK, Messages
    <3>2. \A k \in Jobs, j \in Job : PostsAt(k, j) => j.m = clock
      BY <2>4 DEF PostsNewest, PostsAt
    <3> QED
      BY <2>0, <3>1, <3>2 DEF Orderly
  <2> QED
    BY <2>2, <2>3, <2>4
<1> QED
  BY <1>3, <1>5, <1>6, <1>7, <1>8

LEMMA ListStays ==
  ASSUME TalkInv, CacheInv, UNCHANGED <<rows, jobs, reveal>>, app'.cache = app.cache, app'.more = app.more,
         log.suspect \subseteq log'.suspect, Sound' => Sound,
         ASSUME NEW f \in Fetches, NEW g \in Fetch, fetches'[f] = g, Late(g), Sound
         PROVE  /\ g.all = reveal
                /\ \/ \E h \in Fetch : fetches[f] = h /\ Late(h) /\ h.before = g.before
                   \/ app.cache # <<>> /\ g.before = Oldest
  PROVE  ListTells' /\ Ahead'
<1> SUFFICES ASSUME Sound' PROVE
      /\ Rising(app'.cache)
      /\ \A f \in Fetches, g \in Fetch : fetches'[f] = g /\ Late(g) => g.all = reveal' /\ From(app'.cache, g.before)
      /\ \A m \in Messages, r \in Versions, all, cov \in BOOLEAN, v \in Versions :
           rows'[m] = r /\ m \notin log'.suspect /\ Displayed(m, all, v, cov)' => Fit(r, all, m, v, cov)'
      /\ \A k \in Jobs, j \in Job : PostsAt(k, j)' =>
           /\ Upto(app'.cache, j.m)
           /\ \A f \in Fetches, g \in Fetch : fetches'[f] = g /\ Late(g) => g.before <= j.m
  BY Zenon DEF ListTells, Ahead
<1>1. /\ Rising(app.cache)
      /\ \A f \in Fetches, g \in Fetch : fetches[f] = g /\ Late(g) => g.all = reveal /\ From(app.cache, g.before)
      /\ \A m \in Messages, r \in Versions, all, cov \in BOOLEAN, v \in Versions :
           rows[m] = r /\ m \notin log.suspect /\ Displayed(m, all, v, cov) => Fit(r, all, m, v, cov)
  BY Zenon DEF CacheInv, ListTells
<1>2. PICK s \in Seq(Copy) : s = app.cache
  BY AppIs
<1>3. s # <<>> => 1 \in DOMAIN s /\ Oldest = s[1].id /\ From(s, Oldest)
  <2> SUFFICES ASSUME s # <<>> PROVE 1 \in DOMAIN s /\ Oldest = s[1].id /\ From(s, Oldest)
    OBVIOUS
  <2>1. 1 \in DOMAIN s /\ Oldest = s[1].id /\ \A i \in DOMAIN s : i \in Nat /\ (i = 1 \/ 1 < i) /\ s[i].id \in Nat
    <3>1. \A i \in DOMAIN s : s[i].id \in Nat
      BY PageBounds, CopiesAre DEF Messages
    <3> QED
      BY <1>2, <3>1 DEF Oldest
  <2>2. \A i \in DOMAIN s : s[1].id <= s[i].id
    BY <1>1, <1>2, <2>1 DEF Rising
  <2> QED
    BY <2>1, <2>2 DEF From
<1>4. Sound
  OBVIOUS
<1>5. ASSUME NEW f \in Fetches, NEW g \in Fetch, fetches'[f] = g, Late(g)
      PROVE  g.all = reveal /\ From(s, g.before) /\ \A m \in Messages : m >= g.before => Spanned(m)
  <2>1. CASE \E h \in Fetch : fetches[f] = h /\ Late(h) /\ h.before = g.before
    BY <1>1, <1>2, <1>4, <1>5, <2>1 DEF Spanned
  <2>2. CASE app.cache # <<>> /\ g.before = Oldest
    <3>1. \A m \in Messages : m >= Oldest => Spanned(m)
      BY <1>2, <1>3, <2>2 DEF Spanned, Below
    <3> QED
      BY <1>2, <1>3, <1>4, <1>5, <2>2, <3>1
  <2> QED
    BY <1>4, <1>5, <2>1, <2>2
<1>6. ASSUME NEW m \in Messages, NEW r \in Versions, NEW all \in BOOLEAN, NEW cov \in BOOLEAN, NEW v \in Versions,
             rows'[m] = r, m \notin log'.suspect, Displayed(m, all, v, cov)'
      PROVE  Fit(r, all, m, v, cov)'
  <2>1. Spanned(m)' => Spanned(m)
    BY <1>5 DEF Spanned, Below
  <2>2. Displayed(m, all, v, cov)
    BY <1>6, <2>1 DEF Displayed
  <2>3. Fit(r, all, m, v, cov)
    BY <1>1, <1>6, <2>2
  <2> QED
    BY <2>3 DEF Fit, On
<1>7. ASSUME NEW k \in Jobs, NEW j \in Job, PostsAt(k, j)'
      PROVE  Upto(s, j.m) /\ \A f \in Fetches, g \in Fetch : fetches'[f] = g /\ Late(g) => g.before <= j.m
  <2>1. PostsAt(k, j)
    BY <1>7 DEF PostsAt
  <2>2. Upto(s, j.m) /\ \A f \in Fetches, g \in Fetch : fetches[f] = g /\ Late(g) => g.before <= j.m
    BY <1>2, <1>4, <2>1, Zenon DEF CacheInv, Ahead
  <2>3. s # <<>> => Oldest <= j.m
    BY <1>3, <2>2 DEF Upto
  <2> QED
    BY <1>2, <1>4, <2>2, <2>3
<1> QED
  BY <1>1, <1>2, <1>5, <1>6, <1>7

(* A list that shows nothing and reaches nowhere.                          *)
LEMMA NothingFits == ASSUME NEW r, NEW all \in BOOLEAN, NEW m, NEW v, v = None PROVE Fit(r, all, m, v, FALSE)
BY DEF Fit, Permits, Exact

LEMMA AgedIs ==
  ASSUME NEW fs \in [Fetches -> Fetch \cup {None}], NEW f \in Fetches, NEW g \in Fetch, Aged(fs)[f] = g
  PROVE  g.old /\ \E h \in Fetch : fs[f] = h /\ Same(g, h)
<1>1. fs[f] # None
  BY MessageRecords DEF Aged
<1>2. PICK h \in Fetch : h = fs[f]
  BY <1>1
<1>3. g = [h EXCEPT !.old = TRUE]
  BY <1>1, <1>2 DEF Aged
<1> QED
  BY <1>2, <1>3 DEF Fetch, Same

LEMMA AskIs ==
  ASSUME TalkInv, NEW f \in Fetches, NEW kind \in {"load", "refetch", "scroll", "jump"}, NEW before \in 0..MaxPosts,
         NEW want \in 0..MaxPosts, before <= clock, before = 0 <=> kind \in {"load", "refetch"}
  PROVE  \E g \in Fetch : /\ g = Ask(f, kind, before, want) /\ g.kind = kind /\ g.before = before /\ g.all = reveal
                          /\ ~g.read /\ ~g.old /\ Counts(g, clock)
<1>1. reveal \in BOOLEAN
  BY DEF TalkInv, TalkTypeOK
<1>2. PICK g \in Fetch : g = Ask(f, kind, before, want)
  <2>1. Ask(0, kind, before, want) \in Fetch
    BY <1>1, AskTypes
  <2>2. Ask(f, kind, before, want) = Ask(0, kind, before, want)
    BY Zenon DEF Ask
  <2> QED
    BY <2>1, <2>2, Zenon
<1>3. /\ g.kind = kind /\ g.before = before /\ g.all = reveal /\ g.read = FALSE /\ g.old = FALSE /\ g.page = <<>>
  BY <1>2, Zenon DEF Ask
<1>4. Counts(g, clock)
  BY <1>3 DEF Counts, Upto
<1> QED
  BY <1>2, <1>3, <1>4

LEMMA OpenedKeeps == ASSUME TalkInv, CacheInv, NEW f \in Fetches, Open(f) PROVE CacheInv'
<1>1. /\ UNCHANGED <<rows, clock, due, jobs, reveal>> /\ fetches[f] = None
      /\ fetches' = [Aged(fetches) EXCEPT ![f] = Ask(f, "load", 0, 0)]
      /\ log' = [log EXCEPT !.loads = log.loads + 1, !.crossed = FALSE]
      /\ app' = [app EXCEPT !.open = TRUE, !.cache = <<>>, !.more = TRUE]
  BY DEF Open, Counted
<1>2. log \in Log /\ app \in App /\ fetches \in [Fetches -> Fetch \cup {None}] /\ 0 \in 0..MaxPosts /\ 0 <= clock
  BY PageBounds DEF TalkInv, TalkTypeOK
<1>3. PICK a \in Fetch : a = Ask(f, "load", 0, 0) /\ a.kind = "load" /\ ~a.read /\ Counts(a, clock)
  BY <1>2, AskIs
<1>4. fetches'[f] = a /\ \A e \in Fetches \ {f} : fetches'[e] = Aged(fetches)[e]
  BY <1>1, <1>2, <1>3, AgedTypes
<1>5. ASSUME NEW e \in Fetches, NEW g \in Fetch, fetches'[e] = g
      PROVE  (e = f /\ g = a) \/ (g.old /\ \E h \in Fetch : fetches[e] = h /\ Same(g, h))
  BY <1>2, <1>4, <1>5, AgedIs
<1>6. log'.rivals = log.rivals /\ log'.suspect = log.suspect /\ app'.cache = <<>> /\ app'.more
  BY <1>1, <1>2 DEF Log, App
<1>7. Upto(app'.cache, clock)
  BY <1>6 DEF Upto
<1>8. ASSUME NEW e \in Fetches, NEW g \in Fetch, fetches'[e] = g
      PROVE  (\E h \in Fetch : fetches[e] = h /\ Same(g, h)) \/ (Counts(g, clock) /\ (g.read => PageFits(g)))
  BY <1>3, <1>5, <1>8
<1>9. Numbered' /\ Collide' /\ AllRely' /\ PagesTell' /\ Orderly'
  BY <1>1, <1>6, <1>7, <1>8, LoadsKeep
<1>10. \A e \in Fetches, g \in Fetch : fetches'[e] = g => ~Late(g)
  BY <1>3, <1>5 DEF Late
<1>11. ListTells'
  <2> SUFFICES ASSUME Sound' PROVE
        /\ Rising(app'.cache)
        /\ \A e \in Fetches, g \in Fetch : fetches'[e] = g /\ Late(g) => g.all = reveal' /\ From(app'.cache, g.before)
        /\ \A m \in Messages, r \in Versions, all, cov \in BOOLEAN, v \in Versions :
             rows'[m] = r /\ m \notin log'.suspect /\ Displayed(m, all, v, cov)' => Fit(r, all, m, v, cov)'
    BY Zenon DEF ListTells
  <2>1. Rising(app'.cache)
    BY <1>6 DEF Rising
  <2>2. ASSUME NEW m \in Messages, NEW r \in Versions, NEW all \in BOOLEAN, NEW cov \in BOOLEAN, NEW v \in Versions,
               rows'[m] = r, m \notin log'.suspect, Displayed(m, all, v, cov)'
        PROVE  Fit(r, all, m, v, cov)'
    <3>1. ~Spanned(m)'
      BY <1>6, <1>10 DEF Spanned, Below
    <3>2. v = None
      BY <1>6, <2>2 DEF Displayed, Holds
    <3>3. cov = FALSE
      BY <2>2, <3>1 DEF Displayed
    <3>4. Fit(r, all, m, v, cov)
      BY <3>2, <3>3, NothingFits
    <3> QED
      BY <1>1, <3>4 DEF Fit, On
  <2> QED
    BY <1>10, <2>1, <2>2
<1>12. Ahead'
  BY <1>6, <1>10 DEF Ahead, Upto
<1> QED
  BY <1>9, <1>11, <1>12 DEF CacheInv

LEMMA LeaveKeeps == ASSUME TalkInv, CacheInv, Leave PROVE CacheInv'
<1>1. /\ UNCHANGED <<rows, clock, due, jobs, fetches, reveal, log>>
      /\ app' = [app EXCEPT !.open = FALSE, !.cache = <<>>]
  BY DEF Leave
<1>2. app'.cache = <<>> /\ ~app'.open
  BY <1>1 DEF TalkInv, TalkTypeOK, App
<1>3. Upto(app'.cache, clock)
  BY <1>2 DEF Upto
<1>4. ASSUME NEW e \in Fetches, NEW g \in Fetch, fetches'[e] = g PROVE \E h \in Fetch : fetches[e] = h /\ Same(g, h)
  BY <1>1, <1>4 DEF Same
<1>5. Numbered' /\ Collide' /\ AllRely' /\ PagesTell' /\ Orderly'
  BY <1>1, <1>3, <1>4, LoadsKeep
<1>6. ListTells' /\ Ahead'
  BY <1>2 DEF ListTells, Ahead, Sound
<1> QED
  BY <1>5, <1>6 DEF CacheInv

LEMMA OldestCounts ==
  ASSUME TalkInv, CacheInv, app.cache # <<>> PROVE Oldest \in 0..MaxPosts /\ Oldest <= clock /\ Oldest # 0
<1>1. PICK s \in Seq(Copy) : s = app.cache
  BY AppIs
<1>2. Oldest = s[1].id /\ 1 \in DOMAIN s
  BY <1>1 DEF Oldest
<1>3. s[1].id \in Messages /\ s[1].id <= clock
  BY <1>1, <1>2, CopiesAre DEF CacheInv, Numbered, Upto
<1> QED
  BY <1>2, <1>3, PageBounds DEF Messages

(* A load of older messages begins.                                        *)
LEMMA AskKeeps ==
  ASSUME TalkInv, CacheInv, NEW f \in Fetches, NEW kind \in {"scroll", "jump"}, NEW want \in 0..MaxPosts,
         UNCHANGED <<rows, clock, due, jobs, reveal>>, app.cache # <<>>,
         fetches' = [fetches EXCEPT ![f] = Ask(f, kind, Oldest, want)],
         log' = [log EXCEPT !.loads = log.loads + 1],
         app'.cache = app.cache, app'.more = app.more, app'.open = app.open, fetches[f] = None
  PROVE  CacheInv'
<1>1. Oldest \in 0..MaxPosts /\ Oldest <= clock /\ Oldest # 0
  BY OldestCounts
<1>2. PICK older \in 0..MaxPosts : older = Oldest
  BY <1>1
<1>3. PICK a \in Fetch : /\ a = Ask(f, kind, Oldest, want) /\ a.kind = kind /\ a.before = Oldest /\ a.all = reveal
                         /\ ~a.read /\ Counts(a, clock)
  <2>1. kind \in {"load", "refetch", "scroll", "jump"} /\ older <= clock
          /\ (older = 0 <=> kind \in {"load", "refetch"})
    BY <1>1, <1>2
  <2>2. \E a \in Fetch : /\ a = Ask(f, kind, older, want) /\ a.kind = kind /\ a.before = older /\ a.all = reveal
                         /\ ~a.read /\ ~a.old /\ Counts(a, clock)
    BY ONLY TalkInv, f \in Fetches, want \in 0..MaxPosts, older \in 0..MaxPosts, <2>1, AskIs
  <2> QED
    BY <1>2, <2>2
<1>4. fetches'[f] = a /\ \A e \in Fetches \ {f} : fetches'[e] = fetches[e]
  BY <1>3 DEF TalkInv, TalkTypeOK
<1>5. log'.rivals = log.rivals /\ log'.suspect = log.suspect /\ log'.crossed = log.crossed
  BY DEF TalkInv, TalkTypeOK, Log
<1>6. ASSUME NEW e \in Fetches, NEW g \in Fetch, fetches'[e] = g
      PROVE  (e = f /\ g = a) \/ fetches[e] = g
  BY <1>4, <1>6
<1>7. \A g : Same(g, g)
  BY DEF Same
<1>8. Upto(app'.cache, clock)
  BY DEF CacheInv, Numbered
<1>9. Numbered' /\ Collide' /\ AllRely' /\ PagesTell' /\ Orderly'
  <2>1. ASSUME NEW e \in Fetches, NEW g \in Fetch, fetches'[e] = g
        PROVE  (\E h \in Fetch : fetches[e] = h /\ Same(g, h)) \/ (Counts(g, clock) /\ (g.read => PageFits(g)))
    BY <1>3, <1>6, <1>7, <2>1
  <2> QED
    BY <1>5, <1>8, <2>1, LoadsKeep
<1>10. Sound' => Sound
  <2> SUFFICES ASSUME Sound' PROVE Sound
    OBVIOUS
  <2>1. \A e \in Fetches \ {f}, g \in Fetch : fetches[e] = g => g.kind # "refetch"
    BY <1>4 DEF Sound
  <2>2. \A g \in Fetch : fetches[f] # g
    BY MessageRecords
  <2> QED
    BY <1>5, <2>1, <2>2 DEF Sound
<1>11. ASSUME NEW e \in Fetches, NEW g \in Fetch, fetches'[e] = g, Late(g), Sound
       PROVE  /\ g.all = reveal
              /\ \/ \E h \in Fetch : fetches[e] = h /\ Late(h) /\ h.before = g.before
                 \/ app.cache # <<>> /\ g.before = Oldest
  <2>1. CASE e = f /\ g = a
    BY <1>3, <2>1
  <2>2. CASE fetches[e] = g
    BY <1>11, <2>2, Zenon DEF CacheInv, ListTells
  <2> QED
    BY <1>6, <1>11, <2>1, <2>2
<1>12. ListTells' /\ Ahead'
  BY <1>5, <1>10, <1>11, ListStays
<1> QED
  BY <1>9, <1>12 DEF CacheInv

LEMMA ScrollKeeps == ASSUME TalkInv, CacheInv, NEW f \in Fetches, ScrollUp(f) PROVE CacheInv'
<1>1. /\ app.cache # <<>> /\ UNCHANGED <<rows, clock, due, jobs, reveal>> /\ fetches[f] = None
      /\ fetches' = [fetches EXCEPT ![f] = Ask(f, "scroll", Oldest, 0)]
      /\ log' = [log EXCEPT !.loads = log.loads + 1]
      /\ app' = [app EXCEPT !.busy = TRUE]
  BY DEF ScrollUp, Counted
<1>2. app'.cache = app.cache /\ app'.more = app.more /\ app'.open = app.open /\ 0 \in 0..MaxPosts
  BY <1>1, PageBounds DEF TalkInv, TalkTypeOK, App
<1> QED
  BY <1>1, <1>2, AskKeeps

LEMMA JumpKeeps == ASSUME TalkInv, CacheInv, NEW f \in Fetches, NEW m \in Messages, Jump(f, m) PROVE CacheInv'
<1>1. /\ app.cache # <<>> /\ UNCHANGED <<rows, clock, due, jobs, reveal, app>> /\ fetches[f] = None
      /\ fetches' = [fetches EXCEPT ![f] = Ask(f, "jump", Oldest, m)]
      /\ log' = [log EXCEPT !.loads = log.loads + 1]
  BY DEF Jump, Counted
<1>2. m \in 0..MaxPosts
  BY PageBounds DEF Messages
<1> QED
  BY <1>1, <1>2, AskKeeps

(* The permission changes.                                                 *)
LEMMA FlipKeeps == ASSUME TalkInv, CacheInv, NEW f \in Fetches, Flip(f) PROVE CacheInv'
<1> DEFINE a == [Ask(f, "refetch", 0, 0) EXCEPT !.all = ~reveal]
<1>1. /\ UNCHANGED <<rows, clock, due, jobs, app>> /\ fetches[f] = None
      /\ fetches' = IF app.open THEN [fetches EXCEPT ![f] = a] ELSE fetches
      /\ log' = [log EXCEPT !.flips = log.flips + 1]
  BY DEF Flip
<1>2. 0 \in 0..MaxPosts /\ 0 <= clock /\ reveal \in BOOLEAN
  BY PageBounds DEF TalkInv, TalkTypeOK
<1>3. a \in Fetch /\ a.kind = "refetch" /\ ~a.read /\ Counts(a, clock)
  <2>1. PICK b \in Fetch : b = Ask(f, "refetch", 0, 0) /\ b.kind = "refetch" /\ ~b.read /\ Counts(b, clock)
    BY <1>2, AskIs
  <2>2. PICK d \in BOOLEAN : d = ~reveal
    OBVIOUS
  <2>3. a = [b EXCEPT !.all = d]
    BY <2>1, <2>2
  <2> HIDE DEF a
  <2> QED
    BY <2>1, <2>3 DEF Fetch, Counts
<1> HIDE DEF a
<1>4. log'.rivals = log.rivals /\ log'.suspect = log.suspect
  BY <1>1 DEF TalkInv, TalkTypeOK, Log
<1>5. ASSUME NEW e \in Fetches, NEW g \in Fetch, fetches'[e] = g PROVE g = a \/ fetches[e] = g
  BY <1>1, <1>5 DEF TalkInv, TalkTypeOK
<1>6. \A g : Same(g, g)
  BY DEF Same
<1>7. Upto(app'.cache, clock)
  BY <1>1 DEF CacheInv, Numbered
<1>8. Numbered' /\ Collide' /\ AllRely' /\ PagesTell' /\ Orderly'
  <2>1. ASSUME NEW e \in Fetches, NEW g \in Fetch, fetches'[e] = g
        PROVE  (\E h \in Fetch : fetches[e] = h /\ Same(g, h)) \/ (Counts(g, clock) /\ (g.read => PageFits(g)))
    BY <1>3, <1>5, <1>6, <2>1
  <2> QED
    BY <1>1, <1>4, <1>7, <2>1, LoadsKeep
<1>9. ListTells' /\ Ahead'
  <2>1. app.open => fetches'[f] = a
    BY <1>1 DEF TalkInv, TalkTypeOK
  <2>2. ~Sound'
    BY <1>1, <1>3, <2>1 DEF Sound
  <2> QED
    BY <2>2 DEF ListTells, Ahead
<1> QED
  BY <1>8, <1>9 DEF CacheInv

LEMMA FetchFailsKeeps == ASSUME TalkInv, CacheInv, NEW f \in Fetches, FetchFails(f) PROVE CacheInv'
<1>1. /\ UNCHANGED <<rows, clock, due, jobs, reveal>> /\ fetches[f] # None
      /\ fetches' = [fetches EXCEPT ![f] = None]
      /\ app' = [app EXCEPT !.busy = app.busy /\ fetches[f].kind # "scroll"]
      /\ log' = [log EXCEPT !.faults = log.faults + 1, !.crossed = log.crossed \/ fetches[f].kind = "refetch"]
  BY DEF FetchFails
<1>2. app'.cache = app.cache /\ app'.more = app.more /\ app'.open = app.open
  BY <1>1 DEF TalkInv, TalkTypeOK, App
<1>3. /\ log'.rivals = log.rivals /\ log'.suspect = log.suspect
      /\ log.crossed \/ fetches[f].kind = "refetch" => log'.crossed
  <2>1. PICK b : b = (log.crossed \/ fetches[f].kind = "refetch")
    OBVIOUS
  <2>2. log' = [log EXCEPT !.faults = log.faults + 1, !.crossed = b]
    BY <1>1, <2>1
  <2>3. log'.rivals = log.rivals /\ log'.suspect = log.suspect /\ log'.crossed = b
    BY <2>2 DEF TalkInv, TalkTypeOK, Log
  <2> QED
    BY <2>1, <2>3
<1>4. fetches'[f] = None /\ \A e \in Fetches \ {f} : fetches'[e] = fetches[e]
  BY <1>1 DEF TalkInv, TalkTypeOK
<1>5. ASSUME NEW e \in Fetches, NEW g \in Fetch, fetches'[e] = g PROVE fetches[e] = g
  BY <1>4, <1>5, MessageRecords
<1>6. \A g : Same(g, g)
  BY DEF Same
<1>7. Numbered' /\ Collide' /\ AllRely' /\ PagesTell' /\ Orderly'
  <2>1. Upto(app'.cache, clock)
    BY <1>2 DEF CacheInv, Numbered
  <2> QED
    BY <1>1, <1>3, <1>5, <1>6, <2>1, LoadsKeep
<1>8. Sound' => Sound
  <2> SUFFICES ASSUME Sound' PROVE Sound
    OBVIOUS
  <2>1. fetches[f].kind # "refetch" /\ ~log.crossed /\ ~log.rivals /\ app.open
    BY <1>2, <1>3 DEF Sound
  <2>2. \A e \in Fetches, g \in Fetch : fetches[e] = g => g.kind # "refetch"
    BY <1>4, <2>1 DEF Sound
  <2> QED
    BY <2>1, <2>2 DEF Sound
<1>9. ASSUME NEW e \in Fetches, NEW g \in Fetch, fetches'[e] = g, Late(g), Sound
      PROVE  g.all = reveal /\ \E h \in Fetch : fetches[e] = h /\ Late(h) /\ h.before = g.before
  BY <1>5, <1>9 DEF CacheInv, ListTells
<1>10. ListTells' /\ Ahead'
  BY <1>1, <1>2, <1>3, <1>8, <1>9, ListStays
<1> QED
  BY <1>7, <1>10 DEF CacheInv

LEMMA CacheStands == ASSUME TalkInv, CacheInv, UNCHANGED channelVars PROVE CacheInv'
<1>1. UNCHANGED <<rows, clock, due, jobs, fetches, reveal, app, log>>
  BY DEF channelVars
<1>2. Numbered' /\ Collide' /\ AllRely' /\ Orderly'
  BY <1>1 DEF CacheInv, Numbered, Collide, AllRely, Orderly, PostsAt, Untold, On
<1>3. \A g : PageFits(g)' <=> PageFits(g)
  BY <1>1 DEF PageFits, UpToDate, Fit, On
<1>4. PagesTell'
  BY <1>1, <1>3, Zenon DEF CacheInv, PagesTell
<1>5. ListTells' /\ Ahead'
  <2>1. Sound' => Sound
    BY <1>1 DEF Sound
  <2>2. ASSUME NEW e \in Fetches, NEW g \in Fetch, fetches'[e] = g, Late(g), Sound
        PROVE  g.all = reveal /\ \E h \in Fetch : fetches[e] = h /\ Late(h) /\ h.before = g.before
    BY <1>1, <2>2, Zenon DEF CacheInv, ListTells
  <2> QED
    BY <1>1, <2>1, <2>2, ListStays
<1> QED
  BY <1>2, <1>4, <1>5 DEF CacheInv

-----------------------------------------------------------------------------
(* A page is read: it tells what the rows say.                             *)
LEMMA NewestIs ==
  ASSUME NEW S \in SUBSET Messages, NEW n \in Nat
  PROVE  /\ Newest(S, n) \subseteq S
         /\ \A m \in S, o \in Newest(S, n) : o <= m => m \in Newest(S, n)
         /\ Cardinality(Newest(S, n)) < n => Newest(S, n) = S
<1>1. MaxPosts \in Nat /\ \A m \in S : m \in 1..MaxPosts
  BY PageBounds DEF Messages
<1>2. IsFiniteSet(S)
  <2>1. IsFiniteSet(1..MaxPosts)
    BY <1>1, FS_Interval
  <2> QED
    BY <2>1, FS_Subset DEF Messages
<1> DEFINE Over(m) == {o \in S : o > m}
<1>3. Newest(S, n) = {m \in S : Cardinality(Over(m)) < n}
  BY DEF Newest
<1>4. \A m : IsFiniteSet(Over(m)) /\ Cardinality(Over(m)) \in Nat
  <2> SUFFICES ASSUME NEW m PROVE IsFiniteSet(Over(m)) /\ Cardinality(Over(m)) \in Nat
    OBVIOUS
  <2>1. Over(m) \subseteq S
    OBVIOUS
  <2> QED
    BY <1>2, <2>1, FS_Subset, FS_CardinalityType
<1>5. ASSUME NEW m \in S, NEW o \in Newest(S, n), o <= m PROVE m \in Newest(S, n)
  <2>1. o \in S /\ Cardinality(Over(o)) < n
    BY <1>3
  <2>2. Over(m) \subseteq Over(o)
    BY <1>1, <1>5, <2>1
  <2>3. Cardinality(Over(m)) <= Cardinality(Over(o))
    BY <1>4, <2>2, FS_Subset
  <2> HIDE DEF Over
  <2> QED
    BY <1>3, <1>4, <2>1, <2>3
<1>6. ASSUME Cardinality(Newest(S, n)) < n, Newest(S, n) # S PROVE FALSE
  <2> DEFINE rest == S \ Newest(S, n)
  <2>1. rest # {} /\ \A m \in rest : m \in 1..MaxPosts
    BY <1>1, <1>3, <1>6
  <2>2. PICK m \in rest : \A o \in rest : o <= m
    <3> DEFINE key == [m \in rest |-> m]
    <3>1. \A m \in rest : key[m] = m /\ key[m] \in 0..MaxPosts
      BY <1>1, <2>1
    <3> HIDE DEF rest, key
    <3>2. \E m \in rest : \A o \in rest : key[o] <= key[m]
      BY <1>1, <2>1, <3>1, Greatest
    <3> QED
      BY <3>1, <3>2
  <2>3. Over(m) \subseteq Newest(S, n)
    BY <1>1, <2>1, <2>2
  <2>4. IsFiniteSet(Newest(S, n)) /\ Cardinality(Newest(S, n)) \in Nat
    BY <1>2, <1>3, FS_Subset, FS_CardinalityType
  <2>5. Cardinality(Over(m)) <= Cardinality(Newest(S, n))
    BY <2>3, <2>4, FS_Subset
  <2>6. ~(Cardinality(Over(m)) < n) /\ Cardinality(Over(m)) \in Nat
    BY <1>3, <1>4, <2>2
  <2> HIDE DEF Over
  <2> QED
    BY <1>6, <2>4, <2>5, <2>6
<1> QED
  BY <1>3, <1>5, <1>6

LEMMA ExactFits ==
  ASSUME NEW j \in Job, NEW r \in Versions, NEW all \in BOOLEAN, NEW v \in Versions, NEW cov \in BOOLEAN,
         Exact(r, all, v, cov), Relies(j, r)
  PROVE  Permits(j, r, all, v, cov)
<1>1. j.op \in Pinning /\ Done(j) /\ v # None => See(r, all) /\ [v EXCEPT !.pinned = j.op = "pin"] = r
  <2> SUFFICES ASSUME j.op \in Pinning, Done(j), v # None PROVE See(r, all) /\ [v EXCEPT !.pinned = j.op = "pin"] = r
    OBVIOUS
  <2>1. See(r, all) /\ v = r /\ r # None /\ r \in Row
    BY DEF Exact, See, Versions
  <2>2. PICK b \in BOOLEAN : b = (j.op = "pin")
    OBVIOUS
  <2>3. r.pinned = b
    BY <2>1, <2>2 DEF Relies
  <2>4. [r EXCEPT !.pinned = b] = r
    BY <2>1, <2>3 DEF Row
  <2> QED
    BY <2>1, <2>2, <2>4
<1> QED
  BY <1>1 DEF Permits, Exact

(* What is exact fits whatever is under way.                               *)
LEMMA ExactAll ==
  ASSUME TalkInv, AllRely, NEW m \in Messages, NEW r \in Versions, rows[m] = r,
         NEW all \in BOOLEAN, NEW v \in Versions, NEW cov \in BOOLEAN, Exact(r, all, v, cov), m \notin log.suspect
  PROVE  Fit(r, all, m, v, cov)
<1>1. ASSUME NEW k \in Jobs, NEW j \in Job, On(m, k, j) PROVE Permits(j, r, all, v, cov)
  <2>1. jobs[k] = j /\ j.m = m
    BY <1>1 DEF On
  <2>2. Relies(j, r)
    BY <2>1, Zenon DEF AllRely
  <2> QED
    BY <2>2, ExactFits
<1> QED
  BY <1>1, Zenon DEF Fit

LEMMA PageTells ==
  ASSUME TalkInv, NEW before \in 0..MaxPosts, NEW all \in BOOLEAN, NEW page, page = PageOf(before, all)
  PROVE  /\ page \in Seq(Copy) /\ Rising(page) /\ \A i \in DOMAIN page : before = 0 \/ page[i].id < before
         /\ \A i \in DOMAIN page : rows[page[i].id] # None
         /\ \A m \in Messages, r \in Versions, cov \in BOOLEAN, v \in Versions :
              /\ rows[m] = r /\ (before = 0 \/ m < before) /\ Holds(page, m, v)
              /\ cov => Below(page, m) \/ (all /\ Len(page) < Page)
              => Exact(r, all, v, cov)
<1>1. PICK ids : PageBy(before, all, ids)
  BY PageIs, Zenon
<1>2. PICK seen : seen = SeenOf(before, all)
  OBVIOUS
<1>3. PICK S \in SUBSET Messages : S = Older(before)
  BY DEF Older
<1>4. PICK new : new = Newest(S, Page)
  OBVIOUS
<1>5. /\ seen = {m \in new : all \/ ~rows[m].deleted}
      /\ \A m : m \in S <=> m \in Messages /\ rows[m] # None /\ (before = 0 \/ m < before)
  BY <1>2, <1>3, <1>4 DEF SeenOf, Older
<1>6. /\ ids \in Seq(seen) /\ ToSet(ids) = seen /\ DOMAIN ids = 1..Len(ids) /\ Len(ids) = Cardinality(seen)
      /\ \A i, j \in DOMAIN ids : i < j => ids[i] < ids[j]
      /\ page = [i \in DOMAIN ids |-> [id |-> ids[i], row |-> rows[ids[i]]]] /\ page \in Seq(Copy)
      /\ Len(ids) \in Nat
  BY <1>1, <1>2, Zenon DEF PageBy
<1>7. /\ new \subseteq S /\ \A m \in S, o \in new : o <= m => m \in new
      /\ Cardinality(new) < Page => new = S
  BY <1>4, PageBounds, NewestIs
<1>8. /\ DOMAIN page = DOMAIN ids /\ Len(page) = Len(ids)
      /\ \A i \in DOMAIN page : page[i].id = ids[i] /\ page[i].row = rows[ids[i]] /\ ids[i] \in seen
  <2>1. DOMAIN page = DOMAIN ids /\ \A i \in DOMAIN page : page[i] = [id |-> ids[i], row |-> rows[ids[i]]] /\ ids[i] \in seen
    BY <1>6
  <2>2. Len(page) = Len(ids)
    BY <1>6, <2>1
  <2> QED
    BY <2>1, <2>2
<1>9. Rising(page)
  BY <1>6, <1>8 DEF Rising
<1>10. \A m \in seen : \E i \in DOMAIN page : page[i].id = m
  BY <1>6, <1>8 DEF ToSet
<1>11. ASSUME NEW m \in Messages, NEW r \in Versions, NEW cov \in BOOLEAN, NEW v \in Versions,
              rows[m] = r, before = 0 \/ m < before, Holds(page, m, v),
              cov => Below(page, m) \/ (all /\ Len(page) < Page)
       PROVE  Exact(r, all, v, cov)
  <2>1. ASSUME v # None PROVE See(r, all) /\ v = r
    <3>1. PICK i \in DOMAIN page : page[i].id = m /\ page[i].row = v
      BY <1>11, <2>1 DEF Holds
    <3>2. m \in seen /\ v = rows[m]
      BY <1>8, <3>1
    <3> QED
      BY <1>5, <1>7, <1>11, <3>2 DEF See
  <2>2. ASSUME See(r, all), cov PROVE v # None
    <3>1. m \in S
      BY <1>5, <1>11, <2>2 DEF See
    <3>2. m \in new
      <4>1. CASE Below(page, m)
        <5>1. PICK i \in DOMAIN page : page[i].id <= m
          BY <4>1 DEF Below
        <5>2. ids[i] \in new /\ ids[i] <= m
          BY <1>5, <1>8, <5>1
        <5> QED
          BY <1>7, <3>1, <5>2
      <4>2. CASE all /\ Len(page) < Page
        <5>1. seen = new
          BY <1>5, <4>2
        <5>2. Cardinality(new) < Page
          BY <1>6, <1>8, <4>2, <5>1
        <5> QED
          BY <1>7, <3>1, <5>2
      <4> QED
        BY <1>11, <2>2, <4>1, <4>2
    <3>3. m \in seen
      BY <1>5, <1>11, <2>2, <3>2 DEF See
    <3> QED
      BY <1>10, <1>11, <3>3 DEF Holds
  <2> QED
    BY <2>1, <2>2 DEF Exact
<1>12. \A i \in DOMAIN page : (before = 0 \/ page[i].id < before) /\ rows[page[i].id] # None
  BY <1>5, <1>7, <1>8
<1> QED
  BY <1>6, <1>9, <1>11, <1>12

LEMMA QueryKeeps == ASSUME TalkInv, CacheInv, NEW f \in Fetches, Query(f) PROVE CacheInv'
<1>1. PICK all \in BOOLEAN : all = (fetches[f].all /\ reveal)
  OBVIOUS
<1>2. /\ fetches[f] # None /\ UNCHANGED <<rows, clock, due, jobs, reveal, app, log>>
      /\ fetches' = [fetches EXCEPT ![f].read = TRUE, ![f].all = all,
                                    ![f].page = PageOf(fetches[f].before, all)]
  BY <1>1, Zenon DEF Query
<1>3. PICK h \in Fetch : h = fetches[f] /\ h.before \in 0..MaxPosts
  BY <1>2, FetchIs
<1>4. PICK page : page = PageOf(h.before, all)
  OBVIOUS
<1>5. /\ page \in Seq(Copy) /\ Rising(page) /\ \A i \in DOMAIN page : h.before = 0 \/ page[i].id < h.before
      /\ \A i \in DOMAIN page : rows[page[i].id] # None
      /\ \A m \in Messages, r \in Versions, cov \in BOOLEAN, v \in Versions :
           /\ rows[m] = r /\ (h.before = 0 \/ m < h.before) /\ Holds(page, m, v)
           /\ cov => Below(page, m) \/ (all /\ Len(page) < Page)
           => Exact(r, all, v, cov)
  BY <1>3, <1>4, PageTells
<1> DEFINE a == [h EXCEPT !.read = TRUE, !.all = all, !.page = page]
<1>6. a \in Fetch /\ a.kind = h.kind /\ a.before = h.before /\ a.old = h.old /\ a.all = all /\ a.page = page
  BY <1>5 DEF Fetch
<1>7. fetches' = [fetches EXCEPT ![f] = a]
  BY <1>2, <1>3, <1>4 DEF TalkInv, TalkTypeOK
<1> HIDE DEF a
<1>8. fetches'[f] = a /\ \A e \in Fetches \ {f} : fetches'[e] = fetches[e]
  BY <1>7 DEF TalkInv, TalkTypeOK
<1>9. AllRely /\ Numbered
  BY DEF CacheInv
<1>10. PageFits(a)
  <2>1. ASSUME NEW m \in Messages, NEW r \in Versions, NEW seen \in BOOLEAN, NEW cov \in BOOLEAN, NEW v \in Versions,
               rows[m] = r, Viewed(a, m, seen, v, cov)
        PROVE  UpToDate(r, seen, m, v, cov) /\ (m \notin log.suspect => Fit(r, seen, m, v, cov))
    <3>1. Exact(r, seen, v, cov)
      BY <1>5, <1>6, <2>1 DEF Viewed
    <3> QED
      BY <1>9, <2>1, <3>1, ExactAll, Zenon DEF UpToDate
  <2>2. Rising(a.page) /\ \A i \in DOMAIN a.page : a.before = 0 \/ a.page[i].id < a.before
    BY <1>5, <1>6
  <2> QED
    BY <2>1, <2>2, Zenon DEF PageFits
<1>11. Counts(a, clock)
  <2>1. Counts(h, clock)
    BY <1>3, <1>9, Zenon DEF Numbered
  <2>2. Upto(page, clock)
    <3> SUFFICES ASSUME NEW i \in DOMAIN page PROVE page[i].id <= clock
      BY DEF Upto
    <3>1. page[i].id \in Messages /\ rows[page[i].id] # None
      BY <1>5, CopiesAre
    <3> QED
      BY <1>9, <3>1 DEF Numbered
  <2> QED
    BY <1>6, <2>1, <2>2 DEF Counts
<1>12. ASSUME NEW e \in Fetches, NEW g \in Fetch, fetches'[e] = g PROVE (e = f /\ g = a) \/ fetches[e] = g
  BY <1>8, <1>12
<1>13. \A g : Same(g, g)
  BY DEF Same
<1>14. Upto(app'.cache, clock)
  BY <1>2, <1>9 DEF Numbered
<1>15. Numbered' /\ Collide' /\ AllRely' /\ PagesTell' /\ Orderly'
  <2>1. ASSUME NEW e \in Fetches, NEW g \in Fetch, fetches'[e] = g
        PROVE  (\E n \in Fetch : fetches[e] = n /\ Same(g, n)) \/ (Counts(g, clock) /\ (g.read => PageFits(g)))
    BY <1>10, <1>11, <1>12, <1>13, <2>1
  <2> QED
    BY <1>2, <1>14, <2>1, LoadsKeep
<1>16. Sound' => Sound
  <2> SUFFICES ASSUME Sound' PROVE Sound
    OBVIOUS
  <2>1. \A e \in Fetches, g \in Fetch : fetches[e] = g => g.kind # "refetch"
    BY <1>3, <1>6, <1>8 DEF Sound
  <2> QED
    BY <1>2, <2>1 DEF Sound
<1>17. ASSUME NEW e \in Fetches, NEW g \in Fetch, fetches'[e] = g, Late(g), Sound
       PROVE  g.all = reveal /\ \E n \in Fetch : fetches[e] = n /\ Late(n) /\ n.before = g.before
  <2>1. CASE e = f /\ g = a
    <3>1. Late(h)
      BY <1>6, <1>17, <2>1 DEF Late
    <3>2. h.all = reveal
      BY <1>3, <1>17, <3>1, Zenon DEF CacheInv, ListTells
    <3>3. all = reveal
      BY <1>1, <1>3, <3>2 DEF TalkInv, TalkTypeOK
    <3> QED
      BY <1>3, <1>6, <2>1, <3>1, <3>3
  <2>2. CASE fetches[e] = g
    BY <1>17, <2>2, Zenon DEF CacheInv, ListTells
  <2> QED
    BY <1>12, <1>17, <2>1, <2>2
<1>18. ListTells' /\ Ahead'
  BY <1>2, <1>16, <1>17, ListStays
<1> QED
  BY <1>15, <1>18 DEF CacheInv

-----------------------------------------------------------------------------
(* A page is shown.                                                        *)
LEMMA ViewFits ==
  ASSUME TalkInv, NEW g \in Fetch, PageFits(g), NEW m \in Messages, NEW r \in Versions, rows[m] = r,
         NEW all \in BOOLEAN, NEW cov \in BOOLEAN, NEW v \in Versions, Viewed(g, m, all, v, cov),
         m \in AtWork => m \notin log.suspect
  PROVE  Fit(r, all, m, v, cov)
<1>1. UpToDate(r, all, m, v, cov) /\ (m \notin log.suspect => Fit(r, all, m, v, cov))
  BY Zenon DEF PageFits
<1>2. CASE m \in AtWork
  BY <1>1, <1>2
<1>3. CASE m \notin AtWork
  <2>1. \A k \in Jobs, j \in Job : ~On(m, k, j)
    BY <1>3, AtWorkIs
  <2>2. Exact(r, all, v, cov)
    BY <1>1, <2>1, Zenon DEF UpToDate
  <2> QED
    BY <2>1, <2>2, Zenon DEF Fit
<1> QED
  BY <1>2, <1>3

LEMMA ListReplacedKeeps == ASSUME TalkInv, CacheInv, NEW f \in Fetches, ListReplaced(f) PROVE CacheInv'
<1>1. /\ fetches[f] # None /\ fetches[f].read /\ fetches[f].kind \in {"load", "refetch"}
      /\ UNCHANGED <<rows, clock, due, jobs, reveal>>
  BY DEF ListReplaced
<1>2. PICK g \in Fetch : g = fetches[f] /\ g.page \in Seq(Copy) /\ g.all \in BOOLEAN
  BY <1>1, FetchIs
<1>3. Counts(g, clock) /\ PageFits(g) /\ Numbered
  BY <1>1, <1>2 DEF CacheInv, Numbered, PagesTell
<1>4. fetches \in [Fetches -> Fetch \cup {None}] /\ log \in Log /\ app \in App
  BY DEF TalkInv, TalkTypeOK
<1>5. PICK fs \in [Fetches -> Fetch \cup {None}] : fs = [fetches EXCEPT ![f] = None]
  BY <1>4
<1>6. ASSUME NEW e \in Fetches, NEW h \in Fetch, fs[e] = h PROVE fetches[e] = h
  BY <1>4, <1>5, <1>6, MessageRecords
<1>7. CASE ~app.open
  <2>1. UNCHANGED <<app, log>> /\ fetches' = fs
    BY <1>5, <1>7 DEF ListReplaced
  <2>2. ASSUME NEW e \in Fetches, NEW h \in Fetch, fetches'[e] = h PROVE \E n \in Fetch : fetches[e] = n /\ Same(h, n)
    <3>1. fetches[e] = h /\ Same(h, h)
      BY <1>6, <2>1, <2>2, Zenon DEF Same
    <3> QED
      BY <3>1
  <2>3. Upto(app'.cache, clock)
    BY <1>3, <2>1 DEF Numbered
  <2>4. Numbered' /\ Collide' /\ AllRely' /\ PagesTell' /\ Orderly'
    BY <1>1, <2>1, <2>2, <2>3, LoadsKeep
  <2>5. ListTells' /\ Ahead'
    BY <1>7, <2>1 DEF ListTells, Ahead, Sound
  <2> QED
    BY <2>4, <2>5 DEF CacheInv
<1>8. CASE app.open
  <2>0. Len(g.page) \in Nat /\ Page \in Nat
    BY <1>2, PageBounds
  <2>1. PICK b \in BOOLEAN : b = (Len(g.page) >= Page)
    <3>1. (Len(g.page) >= Page) \in BOOLEAN
      BY <2>0
    <3> QED
      BY <3>1, Zenon
  <2>2. /\ app' = [app EXCEPT !.cache = g.page, !.more = b]
        /\ fetches' = Aged(fs)
    BY <1>2, <1>5, <1>8, <2>1 DEF ListReplaced
  <2>3. PICK d \in BOOLEAN : d = (g.all # reveal)
    OBVIOUS
  <2>30. PICK c \in BOOLEAN : c = \E k \in Jobs : Posting(k) /\ jobs[k].m # clock
    OBVIOUS
  <2>4. log' = [log EXCEPT !.suspect = g.stale \cup (log.suspect \cap AtWork), !.crossed = d, !.rivals = c]
    BY <1>2, <1>8, <2>3, <2>30, Zenon DEF ListReplaced
  <2>5. /\ app'.cache = g.page /\ app'.more = b /\ log'.rivals = c /\ log'.crossed = d
        /\ log'.suspect = g.stale \cup (log.suspect \cap AtWork)
    BY <1>4, <2>2, <2>4 DEF App, Log
  <2>6. ASSUME NEW e \in Fetches, NEW h \in Fetch, fetches'[e] = h
        PROVE  h.old /\ \E n \in Fetch : fetches[e] = n /\ Same(h, n)
    <3>1. h.old /\ \E n \in Fetch : fs[e] = n /\ Same(h, n)
      BY <2>2, <2>6, AgedIs
    <3> QED
      BY <1>6, <3>1
  <2>7. Upto(app'.cache, clock)
    BY <1>3, <2>5 DEF Counts
  <2>8. \A m \in AtWork : m \in log.suspect => m \in log'.suspect
    BY <2>5
  <2>90. log'.rivals \/ PostsNewest
    BY <2>5, <2>30, MessageRecords DEF PostsNewest, Posting, Posts
  <2>9. Numbered' /\ Collide' /\ AllRely' /\ PagesTell' /\ Orderly'
    BY <1>1, <2>5, <2>6, <2>7, <2>8, <2>90, LoadsKeep
  <2>10. ListTells'
    <3> SUFFICES ASSUME Sound' PROVE
          /\ Rising(app'.cache)
          /\ \A e \in Fetches, h \in Fetch : fetches'[e] = h /\ Late(h) => h.all = reveal' /\ From(app'.cache, h.before)
          /\ \A m \in Messages, r \in Versions, all, cov \in BOOLEAN, v \in Versions :
               rows'[m] = r /\ m \notin log'.suspect /\ Displayed(m, all, v, cov)' => Fit(r, all, m, v, cov)'
      BY Zenon DEF ListTells
    <3>1. g.all = reveal
      BY <2>3, <2>5 DEF Sound
    <3>2. Rising(app'.cache)
      BY <1>3, <2>5 DEF PageFits
    <3>3. \A e \in Fetches, h \in Fetch : fetches'[e] = h => ~Late(h)
      BY <2>6 DEF Late
    <3>4. ASSUME NEW m \in Messages, NEW r \in Versions, NEW all \in BOOLEAN, NEW cov \in BOOLEAN, NEW v \in Versions,
                 rows'[m] = r, m \notin log'.suspect, Displayed(m, all, v, cov)'
          PROVE  Fit(r, all, m, v, cov)'
      <4>1. Spanned(m)' => Below(g.page, m) \/ (g.all /\ Len(g.page) < Page)
        <5>1. ~b => Len(g.page) < Page
          <6>1. ~b => ~(Len(g.page) >= Page)
            BY <2>1, Zenon
          <6> QED
            BY <2>0, <6>1
        <5>2. Spanned(m)' => Below(app'.cache, m) \/ (reveal' /\ ~app'.more)
          BY <3>3, Zenon DEF Spanned
        <5>3. reveal' = reveal
          BY <1>1
        <5> QED
          BY <2>5, <3>1, <5>1, <5>2, <5>3
      <4>2. g.before = 0
        BY <1>1, <1>2, <1>3 DEF Counts
      <4>3. Viewed(g, m, all, v, cov)
        BY <1>1, <2>5, <3>1, <3>4, <4>1, <4>2 DEF Displayed, Viewed
      <4>4. Fit(r, all, m, v, cov)
        BY <1>1, <1>3, <2>5, <3>4, <4>3, ViewFits
      <4> QED
        BY <1>1, <4>4 DEF Fit, On
    <3> QED
      BY <3>2, <3>3, <3>4
  <2>11. Ahead'
    <3> SUFFICES ASSUME Sound', NEW k \in Jobs, NEW j \in Job, PostsAt(k, j)' PROVE
          /\ Upto(app'.cache, j.m)
          /\ \A e \in Fetches, h \in Fetch : fetches'[e] = h /\ Late(h) => h.before <= j.m
      BY DEF Ahead
    <3>1. j.m = clock
      BY <1>1, <2>90 DEF PostsNewest, PostsAt, Sound
    <3> QED
      BY <2>6, <2>7, <3>1 DEF Late
  <2> QED
    BY <2>9, <2>10, <2>11 DEF CacheInv
<1> QED
  BY <1>7, <1>8

(* One list before another.                                                *)
LEMMA JoinIs ==
  ASSUME NEW p \in Seq(Copy), NEW s \in Seq(Copy), NEW t, t = p \o s
  PROVE  /\ t \in Seq(Copy) /\ (p # <<>> => t # <<>>)
         /\ \A i \in DOMAIN t : \/ i \in DOMAIN p /\ t[i] = p[i]
                                \/ i - Len(p) \in DOMAIN s /\ t[i] = s[i - Len(p)] /\ i \notin DOMAIN p
         /\ \A i \in DOMAIN p : i \in DOMAIN t /\ t[i] = p[i]
         /\ \A i \in DOMAIN s : Len(p) + i \in DOMAIN t /\ t[Len(p) + i] = s[i]
OBVIOUS

LEMMA JoinRises ==
  ASSUME NEW p \in Seq(Copy), NEW s \in Seq(Copy), NEW t, t = p \o s, Rising(p), Rising(s), NEW n \in Nat,
         \A i \in DOMAIN p : p[i].id < n, From(s, n)
  PROVE  Rising(t)
<1>1. \A i \in DOMAIN p : p[i].id \in Nat
  BY PageBounds, CopiesAre DEF Messages
<1>2. \A i \in DOMAIN s : s[i].id \in Nat
  BY PageBounds, CopiesAre DEF Messages
<1>3. DOMAIN p = 1..Len(p) /\ DOMAIN s = 1..Len(s) /\ DOMAIN t = 1..(Len(p) + Len(s)) /\ Len(p) \in Nat /\ Len(s) \in Nat
  OBVIOUS
<1> SUFFICES ASSUME NEW i \in DOMAIN t, NEW j \in DOMAIN t, i < j PROVE t[i].id < t[j].id
  BY DEF Rising
<1>4. i \in Nat /\ j \in Nat
  BY <1>3
<1>5. /\ (i \in DOMAIN p /\ t[i] = p[i]) \/ (i - Len(p) \in DOMAIN s /\ t[i] = s[i - Len(p)] /\ i \notin DOMAIN p)
      /\ (j \in DOMAIN p /\ t[j] = p[j]) \/ (j - Len(p) \in DOMAIN s /\ t[j] = s[j - Len(p)] /\ j \notin DOMAIN p)
  <2>1. \A r \in DOMAIN t : (r \in DOMAIN p /\ t[r] = p[r]) \/ (r - Len(p) \in DOMAIN s /\ t[r] = s[r - Len(p)] /\ r \notin DOMAIN p)
    BY JoinIs
  <2> QED
    BY ONLY <2>1, i \in DOMAIN t, j \in DOMAIN t
<1>6. CASE i \in DOMAIN p /\ j \in DOMAIN p
  BY <1>5, <1>6, <1>3 DEF Rising
<1>7. CASE i \in DOMAIN p /\ j \notin DOMAIN p
  BY <1>1, <1>2, <1>5, <1>7 DEF From
<1>8. CASE i \notin DOMAIN p /\ j \notin DOMAIN p
  <2>1. i - Len(p) < j - Len(p)
    BY <1>3, <1>4
  <2> QED
    BY <1>5, <1>8, <2>1 DEF Rising
<1>9. CASE i \notin DOMAIN p /\ j \in DOMAIN p
  BY <1>3, <1>4, <1>9
<1> QED
  BY <1>6, <1>7, <1>8, <1>9

LEMMA HeadLeast ==
  ASSUME NEW s \in Seq(Copy), Rising(s), s # <<>>
  PROVE  Head(s) = s[1] /\ 1 \in DOMAIN s /\ From(s, s[1].id) /\ s[1].id \in Messages
<1>1. Head(s) = s[1] /\ 1 \in DOMAIN s /\ \A i \in DOMAIN s : i \in Nat /\ (i = 1 \/ 1 < i)
  OBVIOUS
<1>2. \A i \in DOMAIN s : s[i].id \in Messages /\ s[i].id \in Nat
  BY PageBounds, CopiesAre DEF Messages
<1>3. \A i \in DOMAIN s : s[1].id <= s[i].id
  BY <1>1, <1>2 DEF Rising
<1> QED
  BY <1>1, <1>2, <1>3 DEF From

(* How far a list reaches matters only for what it does not show.          *)
LEMMA ShownFits ==
  ASSUME NEW r \in Versions, NEW all \in BOOLEAN, NEW m, NEW v \in Versions, v # None, Fit(r, all, m, v, FALSE),
         NEW cov \in BOOLEAN
  PROVE  Fit(r, all, m, v, cov)
<1>1. \A j : Permits(j, r, all, v, FALSE) => Permits(j, r, all, v, cov)
  BY DEF Permits, Exact
<1>2. Exact(r, all, v, FALSE) => Exact(r, all, v, cov)
  BY DEF Exact
<1> QED
  BY <1>1, <1>2, Zenon DEF Fit

LEMMA OlderShownKeeps == ASSUME TalkInv, CacheInv, NEW f \in Fetches, OlderShown(f) PROVE CacheInv'
<1>1. /\ fetches[f] # None /\ fetches[f].read /\ fetches[f].kind \in {"scroll", "jump"}
      /\ UNCHANGED <<rows, clock, due, jobs, reveal>>
      /\ fetches \in [Fetches -> Fetch \cup {None}] /\ app \in App /\ log \in Log
  BY DEF OlderShown, TalkInv, TalkTypeOK
<1>2. PICK g \in Fetch : /\ g = fetches[f] /\ g.page \in Seq(Copy) /\ g.all \in BOOLEAN /\ g.old \in BOOLEAN
                         /\ g.want \in 0..MaxPosts /\ g.stale \in SUBSET Messages /\ g.before \in 0..MaxPosts
  BY <1>1, FetchIs
<1>3. PICK s \in Seq(Copy) : s = app.cache
  BY AppIs
<1>4. PICK t : t = g.page \o s
  OBVIOUS
<1>5. PICK full \in BOOLEAN : full = (Len(g.page) >= Page) /\ (~full => Len(g.page) < Page) /\ (full => g.page # <<>>)
  <2>1. Len(g.page) \in Nat /\ Page \in Nat \ {0} /\ (g.page = <<>> => Len(g.page) = 0)
    BY <1>2, PageBounds
  <2>2. (Len(g.page) >= Page) \in BOOLEAN
    BY <2>1
  <2>3. PICK b \in BOOLEAN : b = (Len(g.page) >= Page)
    BY <2>2, Zenon
  <2>4. (~b => ~(Len(g.page) >= Page)) /\ (b => Len(g.page) >= Page)
    BY <2>3, Zenon
  <2>5. (~b => Len(g.page) < Page) /\ (b => g.page # <<>>)
    BY <2>1, <2>4
  <2> QED
    BY <2>3, <2>5, Zenon
<1> DEFINE onward == g.kind = "jump" /\ app.open /\ full /\ \A i \in DOMAIN t : t[i].id # g.want
           rest == [fetches EXCEPT ![f] = IF onward THEN Ask(f, "jump", Head(t).id, g.want) ELSE None]
           free == [app EXCEPT !.busy = app.busy /\ g.kind = "jump"]
           others == [h \in Fetches |-> IF h # f /\ fetches[h] # None /\ fetches[h].kind \in {"scroll", "jump"}
                              THEN [fetches[h] EXCEPT !.old = TRUE] ELSE rest[h]]
           S == log.suspect \cup {m \in g.stale : m < g.before}
<1>6. IF ~app.open THEN app' = free /\ fetches' = rest /\ UNCHANGED log
      ELSE /\ app' = [free EXCEPT !.cache = t, !.more = app.more /\ full]
           /\ fetches' = others
           /\ log' = [log EXCEPT !.crossed = log.crossed \/ g.old, !.suspect = S]
  <2> DEFINE shown == fetches[f].page \o app.cache
             more == Len(fetches[f].page) >= Page
             next == IF fetches[f].kind = "jump" /\ app.open /\ more /\ \A i \in DOMAIN shown : shown[i].id # fetches[f].want
                     THEN Ask(f, "jump", Head(shown).id, fetches[f].want) ELSE None
             now == [app EXCEPT !.busy = app.busy /\ fetches[f].kind = "jump"]
  <2> DEFINE fs == [fetches EXCEPT ![f] = next]
             far == app.more /\ more
             crossed == log.crossed \/ fetches[f].old
             suspects == log.suspect \cup {m \in fetches[f].stale : m < fetches[f].before}
             aged == [h \in Fetches |-> IF h # f /\ fetches[h] # None /\ fetches[h].kind \in {"scroll", "jump"}
                              THEN [fetches[h] EXCEPT !.old = TRUE] ELSE fs[h]]
  <2>1. \/ ~app.open /\ app' = now /\ fetches' = fs /\ UNCHANGED log
        \/ /\ app.open /\ app' = [now EXCEPT !.cache = shown, !.more = far]
           /\ fetches' = aged /\ log' = [log EXCEPT !.crossed = crossed, !.suspect = suspects]
    BY Zenon DEF OlderShown
  <2>2. shown = t /\ more = full /\ next = (IF onward THEN Ask(f, "jump", Head(t).id, g.want) ELSE None) /\ now = free
    <3>1. shown = t /\ more = full /\ now = free
      <4>1. shown = t /\ more = full
        BY <1>2, <1>3, <1>4, <1>5, Zenon
      <4>2. now = free
        BY <1>2
      <4> QED
        BY <4>1, <4>2
    <3>4. /\ fetches[f].kind = g.kind /\ fetches[f].want = g.want
      BY <1>2
    <3> HIDE DEF shown, more, now, free
    <3> QED
      BY <3>1, <3>4, Zenon DEF next, onward
  <2>3. fetches[f] = g
    BY <1>2
  <2> HIDE DEF shown, more, next, now, free, onward
  <2> QED
    BY <2>1, <2>2, <2>3
<1>7. Counts(g, clock) /\ PageFits(g) /\ Numbered
  BY <1>1, <1>2 DEF CacheInv, Numbered, PagesTell
<1>8. free \in App /\ free.cache = s /\ free.open = app.open /\ free.more = app.more
  <2>1. PICK b \in BOOLEAN : b = (app.busy /\ g.kind = "jump")
    BY AppIs
  <2>2. free = [app EXCEPT !.busy = b]
    BY <2>1
  <2> HIDE DEF free
  <2> QED
    BY <1>1, <1>3, <2>2 DEF App
<1> HIDE DEF free
<1>9. CASE ~app.open
  <2>1. app' = free /\ fetches' = rest /\ UNCHANGED log
    BY <1>6, <1>9, Zenon
  <2>2. fetches' = [fetches EXCEPT ![f] = None]
    BY <1>9, <2>1
  <2> HIDE DEF rest, others, S
  <2>3. ASSUME NEW e \in Fetches, NEW h \in Fetch, fetches'[e] = h PROVE \E n \in Fetch : fetches[e] = n /\ Same(h, n)
    <3>1. fetches[e] = h
      BY <1>1, <2>2, <2>3, MessageRecords
    <3> QED
      BY <3>1, Zenon DEF Same
  <2>4. Upto(app'.cache, clock)
    BY <1>3, <1>7, <1>8, <2>1 DEF Numbered
  <2>5. Numbered' /\ Collide' /\ AllRely' /\ PagesTell' /\ Orderly'
    BY <1>1, <2>1, <2>3, <2>4, LoadsKeep
  <2>6. ListTells' /\ Ahead'
    BY <1>8, <1>9, <2>1 DEF ListTells, Ahead, Sound
  <2> QED
    BY <2>5, <2>6 DEF CacheInv
<1>10. CASE app.open
  <2>1. /\ app' = [free EXCEPT !.cache = t, !.more = app.more /\ full]
        /\ fetches' = others
        /\ log' = [log EXCEPT !.crossed = log.crossed \/ g.old, !.suspect = S]
    BY <1>6, <1>10, Zenon
  <2>2. app'.cache = t /\ app'.open /\ app'.more = (app.more /\ full)
    BY <1>8, <1>10, <2>1 DEF App
  <2>3. /\ log'.rivals = log.rivals /\ log'.suspect = S
        /\ (log.crossed \/ g.old) => log'.crossed
    <3>1. PICK b : b = (log.crossed \/ g.old)
      OBVIOUS
    <3>2. log' = [log EXCEPT !.crossed = b, !.suspect = S]
      BY <2>1, <3>1
    <3> HIDE DEF S
    <3>3. log'.rivals = log.rivals /\ log'.suspect = S /\ log'.crossed = b
      BY <1>1, <3>2 DEF Log
    <3> QED
      BY <3>1, <3>3
  <2>4. log.suspect \subseteq log'.suspect /\ \A m \in g.stale : m < g.before => m \in log'.suspect
    BY <1>2, <2>3
  <2>5. fetches'[f] = IF onward THEN Ask(f, "jump", Head(t).id, g.want) ELSE None
    BY <1>1, <2>1
  <2>6. ASSUME NEW e \in Fetches, e # f, NEW h \in Fetch, fetches'[e] = h
        PROVE  \E n \in Fetch : fetches[e] = n /\ Same(h, n) /\ (h.kind \in {"scroll", "jump"} => h.old)
    <3>1. fetches[e] # None
      BY <1>1, <2>1, <2>6, MessageRecords
    <3>2. PICK n \in Fetch : n = fetches[e]
      BY <1>1, <3>1
    <3>3. CASE n.kind \in {"scroll", "jump"}
      <4>1. h = [n EXCEPT !.old = TRUE]
        BY <2>1, <2>6, <3>1, <3>2, <3>3
      <4> QED
        BY <3>2, <4>1 DEF Fetch, Same
    <3>4. CASE n.kind \notin {"scroll", "jump"}
      <4>1. h = n
        BY <1>1, <2>1, <2>6, <3>1, <3>2, <3>4
      <4> QED
        BY <3>2, <3>4, <4>1 DEF Same
    <3> QED
      BY <3>3, <3>4
  <2>7. onward => full
    OBVIOUS
  <2>8. app'.more => app.more /\ full
    BY <2>2
  <2>80. ~app'.more => ~app.more \/ ~full
    BY <2>2
  <2> HIDE DEF onward, rest, others, S
  <2>9. t \in Seq(Copy) /\ (full => t # <<>>)
    BY <1>2, <1>3, <1>4, <1>5, JoinIs
  <2>10. /\ \A i \in DOMAIN t : (\E l \in DOMAIN g.page : t[i] = g.page[l]) \/ (\E l \in DOMAIN s : t[i] = s[l])
         /\ \A i \in DOMAIN g.page : \E l \in DOMAIN t : t[l] = g.page[i]
         /\ \A i \in DOMAIN s : \E l \in DOMAIN t : t[l] = s[i]
    <3>1. /\ \A i \in DOMAIN t : \/ i \in DOMAIN g.page /\ t[i] = g.page[i]
                                 \/ i - Len(g.page) \in DOMAIN s /\ t[i] = s[i - Len(g.page)]
          /\ \A i \in DOMAIN g.page : i \in DOMAIN t /\ t[i] = g.page[i]
          /\ \A i \in DOMAIN s : Len(g.page) + i \in DOMAIN t /\ t[Len(g.page) + i] = s[i]
      <4>1. PICK p \in Seq(Copy) : p = g.page /\ t = p \o s
        BY <1>2, <1>4
      <4> QED
        BY <4>1, JoinIs
    <3> QED
      BY <3>1
  <2>11. Upto(t, clock)
    <3>1. Upto(g.page, clock) /\ Upto(s, clock)
      BY <1>3, <1>7 DEF Counts, Numbered
    <3> QED
      BY <2>10, <3>1 DEF Upto
  <2>12. ASSUME onward
         PROVE  \E a \in Fetch : /\ fetches'[f] = a /\ a.kind = "jump" /\ a.before = Head(t).id /\ a.all = reveal
                                 /\ ~a.read /\ ~a.old /\ Counts(a, clock)
    <3>1. Head(t) = t[1] /\ 1 \in DOMAIN t
      BY <2>7, <2>9, <2>12
    <3>2. PICK older \in 0..MaxPosts : older = Head(t).id /\ older <= clock /\ older # 0
      <4>1. t[1].id \in Messages /\ t[1].id <= clock
        BY <2>9, <2>11, <3>1, CopiesAre DEF Upto
      <4> QED
        BY <3>1, <4>1, PageBounds DEF Messages
    <3>3. fetches'[f] = Ask(f, "jump", older, g.want)
      BY <2>5, <2>12, <3>2
    <3>4. PICK want \in 0..MaxPosts : want = g.want
      BY <1>2
    <3>5. \E a \in Fetch : /\ a = Ask(f, "jump", older, want) /\ a.kind = "jump" /\ a.before = older /\ a.all = reveal
                           /\ ~a.read /\ ~a.old /\ Counts(a, clock)
      <4>1. PICK kind \in {"scroll", "jump"} : kind = "jump"
        OBVIOUS
      <4>2. older <= clock
        BY <3>2
      <4>3. \E a \in Fetch : /\ a = Ask(f, kind, older, want) /\ a.kind = kind /\ a.before = older /\ a.all = reveal
                             /\ ~a.read /\ ~a.old /\ Counts(a, clock)
        <5>1. kind \in {"load", "refetch", "scroll", "jump"} /\ older <= clock
                /\ (older = 0 <=> kind \in {"load", "refetch"})
          BY <3>2, <4>1, <4>2
        <5> QED
          BY ONLY TalkInv, f \in Fetches, want \in 0..MaxPosts, older \in 0..MaxPosts, <5>1, AskIs
      <4> QED
        BY <4>1, <4>3
    <3> QED
      BY <3>2, <3>3, <3>4, <3>5
  <2>13. ASSUME NEW h \in Fetch, fetches'[f] = h
         PROVE  /\ onward /\ h.kind = "jump" /\ h.before = Head(t).id /\ h.all = reveal
                /\ ~h.read /\ ~h.old /\ Counts(h, clock)
    BY <2>5, <2>12, <2>13, MessageRecords
  <2>14. Numbered' /\ Collide' /\ AllRely' /\ PagesTell' /\ Orderly'
    <3>1. ASSUME NEW e \in Fetches, NEW h \in Fetch, fetches'[e] = h
          PROVE  (\E n \in Fetch : fetches[e] = n /\ Same(h, n)) \/ (Counts(h, clock) /\ (h.read => PageFits(h)))
      <4>1. CASE e = f
        BY <2>13, <3>1, <4>1
      <4>2. CASE e # f
        BY <2>6, <3>1, <4>2
      <4> QED
        BY <4>1, <4>2
    <3>2. Upto(app'.cache, clock)
      BY <2>2, <2>11
    <3>3. \A m \in AtWork : m \in log.suspect => m \in log'.suspect
      BY <2>4
    <3> QED
      BY <1>1, <2>3, <2>4, <3>1, <3>2, <3>3, LoadsKeep
  <2>15. ASSUME Sound' PROVE Sound /\ Late(g)
    <3>1. ~log.crossed /\ ~g.old
      BY <2>3, <2>15 DEF Sound
    <3>2. ASSUME NEW e \in Fetches, NEW n \in Fetch, fetches[e] = n PROVE n.kind # "refetch"
      <4>1. CASE e = f
        BY <1>1, <1>2, <3>2, <4>1
      <4>2. CASE e # f /\ n.kind = "refetch"
        <5>1. fetches'[e] = n
          BY <1>1, <2>1, <3>2, <4>2, MessageRecords DEF others, rest
        <5> QED
          BY <2>15, <4>2, <5>1 DEF Sound
      <4> QED
        BY <4>1, <4>2
    <3> QED
      BY <1>1, <1>2, <1>10, <2>3, <2>15, <3>1, <3>2 DEF Sound, Late
  <2>16. ListTells'
    <3> SUFFICES ASSUME Sound' PROVE
          /\ Rising(app'.cache)
          /\ \A e \in Fetches, h \in Fetch : fetches'[e] = h /\ Late(h) => h.all = reveal' /\ From(app'.cache, h.before)
          /\ \A m \in Messages, r \in Versions, all, cov \in BOOLEAN, v \in Versions :
               rows'[m] = r /\ m \notin log'.suspect /\ Displayed(m, all, v, cov)' => Fit(r, all, m, v, cov)'
      BY Zenon DEF ListTells
    <3>2. Sound
      BY <2>15
    <3>3. /\ Rising(s)
          /\ \A m \in Messages, r \in Versions, all, cov \in BOOLEAN, v \in Versions :
               rows[m] = r /\ m \notin log.suspect /\ Displayed(m, all, v, cov) => Fit(r, all, m, v, cov)
      BY <1>3, <3>2, Zenon DEF CacheInv, ListTells
    <3>4. Late(g)
      BY <2>15
    <3>5. g.all = reveal /\ From(s, g.before)
      BY <1>2, <1>3, <3>2, <3>4, Zenon DEF CacheInv, ListTells
    <3>6. /\ g.before # 0 /\ g.before \in Nat /\ Rising(g.page)
          /\ \A i \in DOMAIN g.page : g.page[i].id < g.before
      <4>1. g.before # 0
        BY <1>1, <1>2, <1>7 DEF Counts
      <4> QED
        BY <1>2, <1>7, <4>1, PageBounds DEF PageFits
    <3>7. Rising(t)
      BY <1>2, <1>4, <3>3, <3>5, <3>6, JoinRises
    <3>8. ASSUME NEW e \in Fetches, NEW h \in Fetch, fetches'[e] = h, Late(h)
          PROVE  /\ h.all = reveal' /\ From(t, h.before)
                 /\ \A m \in Messages : m >= h.before => Below(t, m)
      <4>1. e = f
        BY <2>6, <3>8 DEF Late
      <4>2. onward /\ h.before = Head(t).id /\ h.all = reveal
        BY <2>13, <3>8, <4>1
      <4>3. Head(t) = t[1] /\ 1 \in DOMAIN t /\ From(t, t[1].id) /\ t[1].id \in Messages
        BY <2>7, <2>9, <3>7, <4>2, HeadLeast
      <4> QED
        BY <1>1, <4>2, <4>3 DEF Below
    <3>9. ASSUME NEW m \in Messages, NEW r \in Versions, NEW all \in BOOLEAN, NEW cov \in BOOLEAN, NEW v \in Versions,
                 rows'[m] = r, m \notin log'.suspect, Displayed(m, all, v, cov)'
          PROVE  Fit(r, all, m, v, cov)'
      <4>1. m \in Nat /\ rows[m] = r /\ m \notin log.suspect /\ all = reveal /\ all = g.all
        BY <1>1, <2>4, <3>5, <3>9, PageBounds DEF Displayed, Messages
      <4>2. Holds(t, m, v)
        BY <2>2, <3>9 DEF Displayed
      <4>3. cov => Below(t, m) \/ (reveal /\ (~app.more \/ ~full))
        <5>1. Spanned(m)' => Below(app'.cache, m) \/ (reveal' /\ ~app'.more)
                \/ \E e \in Fetches, h \in Fetch : fetches'[e] = h /\ Late(h) /\ m >= h.before
          BY Zenon DEF Spanned
        <5>2. (\E e \in Fetches, h \in Fetch : fetches'[e] = h /\ Late(h) /\ m >= h.before) => Below(t, m)
          BY <3>8
        <5>3. cov => Spanned(m)'
          BY <3>9, Zenon DEF Displayed
        <5>4. reveal' = reveal
          BY <1>1
        <5> QED
          BY <2>2, <2>80, <5>1, <5>2, <5>3, <5>4
      <4>4. Fit(r, all, m, v, cov)
        <5>1. CASE m < g.before
          <6>1. \A i \in DOMAIN s : s[i].id # m
            <7>1. \A i \in DOMAIN s : s[i].id >= g.before /\ s[i].id \in Nat
              BY <3>5, CopiesAre, PageBounds DEF From, Messages
            <7> QED
              BY <3>6, <4>1, <5>1, <7>1
          <6>2. Holds(g.page, m, v)
            BY <2>10, <4>2, <6>1 DEF Holds
          <6>3. Below(t, m) => Below(g.page, m)
            <7> SUFFICES ASSUME NEW i \in DOMAIN t, t[i].id <= m PROVE \E l \in DOMAIN g.page : g.page[l].id <= m
              BY DEF Below
            <7>1. \A l \in DOMAIN s : s[l].id >= g.before /\ s[l].id \in Nat
              BY <3>5, CopiesAre, PageBounds DEF From, Messages
            <7>2. \A l \in DOMAIN s : ~(s[l].id <= m)
              BY <3>6, <4>1, <5>1, <7>1
            <7> QED
              BY <2>10, <7>2
          <6>4. m \notin g.stale
            BY <2>4, <3>9, <5>1
          <6>5. ASSUME NEW b \in BOOLEAN, b => Below(g.page, m) \/ (g.all /\ Len(g.page) < Page)
                PROVE  Fit(r, all, m, v, b)
            <7>1. Viewed(g, m, all, v, b)
              BY <4>1, <5>1, <6>2, <6>4, <6>5 DEF Viewed
            <7> QED
              BY <1>7, <4>1, <7>1, ViewFits
          <6>6. CASE cov => Below(t, m) \/ (reveal /\ ~full)
            BY <1>5, <4>1, <6>3, <6>5, <6>6
          <6>7. CASE cov /\ reveal /\ ~app.more
            <7>1. CASE v = None
              <8>1. Holds(app.cache, m, v)
                BY <1>3, <6>1, <7>1 DEF Holds
              <8>2. Displayed(m, all, v, cov)
                BY <4>1, <6>7, <8>1 DEF Displayed, Spanned
              <8> QED
                BY <3>3, <4>1, <8>2
            <7>2. CASE v # None
              <8>1. Fit(r, all, m, v, FALSE)
                BY <6>5
              <8> QED
                BY <7>2, <8>1, ShownFits
            <7> QED
              BY <7>1, <7>2
          <6> QED
            BY <4>3, <6>6, <6>7
        <5>2. CASE m >= g.before
          <6>1. \A i \in DOMAIN g.page : g.page[i].id # m
            <7>1. \A i \in DOMAIN g.page : g.page[i].id < g.before /\ g.page[i].id \in Nat
              BY <1>2, <3>6, CopiesAre, PageBounds DEF Messages
            <7> QED
              BY <3>6, <4>1, <5>2, <7>1
          <6>2. Holds(app.cache, m, v)
            BY <1>3, <2>10, <4>2, <6>1 DEF Holds
          <6>3. Spanned(m)
            BY <1>2, <3>4, <5>2 DEF Spanned
          <6>4. Displayed(m, all, v, cov)
            BY <4>1, <6>2, <6>3 DEF Displayed
          <6> QED
            BY <3>3, <4>1, <6>4
        <5> QED
          BY <3>6, <4>1, <5>1, <5>2
      <4> QED
        BY <1>1, <4>4 DEF Fit, On
    <3> QED
      BY <2>2, <3>7, <3>8, <3>9
  <2>17. Ahead'
    <3> SUFFICES ASSUME Sound', NEW k \in Jobs, NEW j \in Job, PostsAt(k, j)' PROVE
          Upto(t, j.m) /\ \A e \in Fetches, h \in Fetch : fetches'[e] = h /\ Late(h) => h.before <= j.m
      BY <2>2 DEF Ahead
    <3>1. Upto(s, j.m) /\ g.before <= j.m
      <4>1. PostsAt(k, j) /\ Sound /\ Late(g)
        BY <1>1, <2>15 DEF PostsAt
      <4>2. /\ Upto(app.cache, j.m)
            /\ \A e \in Fetches, h \in Fetch : fetches[e] = h /\ Late(h) => h.before <= j.m
        BY <4>1, Zenon DEF CacheInv, Ahead
      <4> QED
        BY <1>2, <1>3, <4>1, <4>2
    <3>2. Upto(t, j.m)
      <4>1. g.before \in Nat /\ j.m \in Nat /\ (g.before = 0 <=> g.kind \in {"load", "refetch"})
        BY <1>2, <1>7, PageBounds DEF Counts, Job, Messages
      <4>2. \A i \in DOMAIN g.page : g.page[i].id < g.before /\ g.page[i].id \in Nat
        BY <1>1, <1>2, <1>7, <4>1, CopiesAre, PageBounds DEF PageFits, Messages
      <4>3. Upto(g.page, j.m)
        BY <3>1, <4>1, <4>2 DEF Upto
      <4> QED
        BY <2>10, <3>1, <4>3 DEF Upto
    <3>3. ASSUME NEW e \in Fetches, NEW h \in Fetch, fetches'[e] = h, Late(h) PROVE h.before <= j.m
      <4>1. e = f
        BY <2>6, <3>3 DEF Late
      <4>2. onward /\ h.before = Head(t).id
        BY <2>13, <3>3, <4>1
      <4>3. Head(t) = t[1] /\ 1 \in DOMAIN t
        BY <2>7, <2>9, <4>2
      <4> QED
        BY <3>2, <4>2, <4>3 DEF Upto
    <3> QED
      BY <3>2, <3>3
  <2> QED
    BY <2>14, <2>16, <2>17 DEF CacheInv
<1> QED
  BY <1>9, <1>10

-----------------------------------------------------------------------------
(* Every step keeps it.                                                    *)
LEMMA JobStepKeeps == ASSUME TalkInv, CacheInv, NEW k \in Jobs, JobStep(k) PROVE CacheInv'
<1>1. ASSUME NEW op \in Exercised, Post(k, op) PROVE CacheInv'
  BY <1>1, PostKeeps
<1>2. ASSUME NEW op \in Exercised, NEW m \in Messages, Request(k, op, m) PROVE CacheInv'
  BY <1>2, ExercisedOps, RequestKeeps
<1>3. ASSUME NEW m \in Messages, ResolveEmbeds(k, m) PROVE CacheInv'
  BY <1>3, ResolveKeeps
<1> QED
  BY <1>1, <1>2, <1>3, PursuitKeeps, TellKeeps, AnswerKeeps, JobFailsKeeps DEF JobStep

LEMMA PageStepKeeps == ASSUME TalkInv, CacheInv, NEW f \in Fetches, PageStep(f) PROVE CacheInv'
BY OpenedKeeps, ScrollKeeps, JumpKeeps, FlipKeeps, QueryKeeps, OlderShownKeeps, FetchFailsKeeps DEF PageStep

LEMMA CacheSteps == ASSUME TalkInv, CacheInv, ChannelNext \/ UNCHANGED channelVars PROVE CacheInv'
<1>1. ASSUME NEW k \in Jobs, JobStep(k) PROVE CacheInv'
  BY <1>1, JobStepKeeps
<1>2. ASSUME NEW f \in Fetches, PageStep(f) \/ LoadShown(f) PROVE CacheInv'
  BY <1>2, PageStepKeeps, ListReplacedKeeps DEF LoadShown
<1> QED
  BY <1>1, <1>2, LeaveKeeps, CacheStands DEF ChannelNext

LEMMA CacheStarts == ChannelInit => CacheInv
<1> SUFFICES ASSUME ChannelInit PROVE CacheInv
  OBVIOUS
<1>1. /\ \A m \in Messages : rows[m] = None
      /\ \A k \in Jobs, j \in Job : jobs[k] # j
      /\ \A f \in Fetches, g \in Fetch : fetches[f] # g
      /\ due = {} /\ app.cache = <<>> /\ ~app.open
  BY MessageRecords DEF ChannelInit
<1>2. Numbered
  BY <1>1 DEF Numbered, Upto
<1>3. Collide /\ AllRely /\ PagesTell /\ ListTells /\ Orderly /\ Ahead
  BY <1>1, Zenon DEF Collide, AllRely, PagesTell, ListTells, Orderly, Ahead, PostsAt, Sound
<1> QED
  BY <1>2, <1>3 DEF CacheInv

(* However many requests, loads, jumps, changes of the permission and      *)
(* failures overlap, and whatever becomes of the connection: from the      *)
(* oldest message it shows on, an open list that is not about to be        *)
(* replaced holds, in order and once each, what the user may see of the    *)
(* messages no request is at work on and no event was missed of.  Not,     *)
(* until a load, after a page was put before a list it was not asked for,  *)
(* or of two messages posted at once the newer one was told of first.      *)
THEOREM ListSafe == PageSpec => []CacheTells
<1> DEFINE Inv == SoundInv /\ CacheInv
<1>1. PageInit => Inv
  BY SoundStarts, CacheStarts DEF PageInit
<1>2. Inv /\ [PageNext]_pageVars => Inv'
  <2> SUFFICES ASSUME SoundInv, CacheInv, [PageNext]_pageVars PROVE SoundInv' /\ CacheInv'
    OBVIOUS
  <2>1. ChannelNext \/ UNCHANGED channelVars
    BY DEF PageNext, pageVars, allVars
  <2> QED
    BY <2>1, SoundSteps, CacheSteps DEF SoundInv
<1>3. Inv => CacheTells
  BY CacheSays DEF SoundInv
<1> HIDE DEF Inv
<1> QED
  BY <1>1, <1>2, <1>3, PTL DEF PageSpec
================================================================================

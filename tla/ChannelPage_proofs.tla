-------------------------- MODULE ChannelPage_proofs --------------------------
(***************************************************************************)
(* The page of a server for any number of sockets, reconnect loops, calls, *)
(* channels, categories, messages, requests and loads.                     *)
(***************************************************************************)
EXTENDS ChannelPage, FiniteSetTheorems, SequenceTheorems, WellFoundedInduction, TLAPS

(* A set of natural numbers has a least one.                               *)
LEMMA Least ==
  ASSUME NEW T \in SUBSET Nat, T # {}
  PROVE  \E n \in T : \A m \in T : n <= m
<1> DEFINE less == {p \in Nat \X Nat : p[1] < p[2]}
<1>1. IsWellFoundedOn(less, Nat)
  BY NatLessThanWellFounded, Zenon DEF less, OpToRel
<1>2. PICK n \in T : \A m \in T : <<m, n>> \notin less
  <2> HIDE DEF less
  <2> QED
    BY <1>1, WFMin
<1>3. \A m \in T : ~(m < n)
  BY <1>2
<1> QED
  BY <1>3

(* Induction, as a statement about a set.                                  *)
LEMMA Counting ==
  ASSUME NEW S, 0 \in S, \A n \in Nat : n \in S => n + 1 \in S
  PROVE  \A n \in Nat : n \in S
<1> DEFINE bad == {n \in Nat : n \notin S}
<1>1. SUFFICES ASSUME bad # {} PROVE FALSE
  OBVIOUS
<1>2. PICK n \in bad : \A m \in bad : n <= m
  <2>1. bad \in SUBSET Nat
    OBVIOUS
  <2> HIDE DEF bad
  <2> QED
    BY <1>1, <2>1, Least
<1>3. n # 0 /\ n - 1 \in Nat
  BY <1>2
<1>4. n - 1 \in S
  BY <1>2, <1>3
<1>5. (n - 1) + 1 = n
  BY <1>2
<1> QED
  BY <1>2, <1>3, <1>4, <1>5

-----------------------------------------------------------------------------
(* What frames amount to, one after the other.                             *)
Folds(after, topics, fs) ==
  /\ after[0] = topics
  /\ \A n \in 1..Len(fs) : after[n] = Amounts(after[n - 1], fs[n])

LEMMA AmountsTo ==
  ASSUME NEW topics, NEW f \in Frame, NEW t
  PROVE  t \in Amounts(topics, f) <=>
           IF f.op # "identify" /\ t \in f.topics THEN f.op = "subscribe" ELSE t \in topics
<1>1. f.op \in {"identify", "subscribe", "unsubscribe"}
  BY DEF Frame
<1>2. CASE f.op = "identify"
  BY <1>2 DEF Amounts
<1>3. CASE f.op = "subscribe"
  BY <1>3 DEF Amounts
<1>4. CASE f.op = "unsubscribe"
  BY <1>4 DEF Amounts
<1> QED
  BY <1>1, <1>2, <1>3, <1>4

LEMMA FoldUnfolds ==
  ASSUME NEW topics, NEW fs, Len(fs) \in Nat
  PROVE  \E after : Folds(after, topics, fs) /\ AllAmount(topics, fs) = after[Len(fs)]
<1> DEFINE N == Len(fs)
           Solves(f, m) == f = [n \in 0..m |-> IF n = 0 THEN topics ELSE Amounts(f[n - 1], fs[n])]
           S == {m \in Nat : \E f : Solves(f, m)}
<1>1. 0 \in S
  <2> DEFINE f == [n \in 0..0 |-> topics]
  <2>1. Solves(f, 0)
    OBVIOUS
  <2> QED
    BY <2>1
<1>2. ASSUME NEW m \in Nat, m \in S PROVE m + 1 \in S
  <2>1. PICK g : Solves(g, m)
    BY <1>2
  <2>2. PICK k \in Nat : k = m + 1 /\ k # 0
    BY <1>2
  <2> DEFINE f == [n \in 0..k |-> IF n = k THEN Amounts(g[m], fs[k]) ELSE g[n]]
  <2>3. \A n \in 0..k : f[n] = IF n = 0 THEN topics ELSE Amounts(f[n - 1], fs[n])
    <3> SUFFICES ASSUME NEW n \in 0..k
                 PROVE  f[n] = IF n = 0 THEN topics ELSE Amounts(f[n - 1], fs[n])
      OBVIOUS
    <3>1. CASE n = k
      <4>1. n # 0 /\ n - 1 = m /\ n - 1 \in 0..k /\ f[n - 1] = g[m]
        BY <1>2, <2>2, <3>1
      <4> QED
        BY <3>1, <4>1
    <3>2. CASE n # k
      <4>1. n \in 0..m /\ f[n] = g[n]
        BY <1>2, <2>2, <3>2
      <4>2. n # 0 => n - 1 \in 0..m /\ n - 1 # k /\ n - 1 \in 0..k
        BY <1>2, <2>2, <4>1
      <4>3. n # 0 => f[n - 1] = g[n - 1]
        BY <4>2
      <4>4. g[n] = IF n = 0 THEN topics ELSE Amounts(g[n - 1], fs[n])
        BY <2>1, <4>1
      <4> QED
        BY <4>1, <4>3, <4>4
    <3> QED
      BY <3>1, <3>2
  <2>4. Solves(f, k)
    BY <2>3
  <2>5. k \in S
    BY <2>4
  <2> QED
    BY <2>2, <2>5
<1>3. N \in S
  <2> HIDE DEF S
  <2> QED
    BY <1>1, <1>2, Counting
<1>4. \E f : Solves(f, N)
  BY <1>3
<1> DEFINE after == CHOOSE f : Solves(f, N)
<1>5. Solves(after, N)
  BY <1>4
<1>6. AllAmount(topics, fs) = after[N]
  BY DEF AllAmount
<1> HIDE DEF after
<1>7. Folds(after, topics, fs)
  <2>1. \A n \in 0..N : after[n] = IF n = 0 THEN topics ELSE Amounts(after[n - 1], fs[n])
    BY <1>5
  <2> QED
    BY <2>1 DEF Folds
<1> QED
  BY <1>6, <1>7

(* Where two foldings begin alike for a topic, and go through the same     *)
(* frames, they end alike.                                                 *)
LEMMA FoldsAlike ==
  ASSUME NEW a, NEW b, NEW S, NEW T, NEW fs \in Seq(Frame), NEW t,
         Folds(a, S, fs), Folds(b, T, fs), t \in S <=> t \in T
  PROVE  \A n \in 0..Len(fs) : t \in a[n] <=> t \in b[n]
<1> DEFINE G == {n \in Nat : n \in 0..Len(fs) => (t \in a[n] <=> t \in b[n])}
<1>1. 0 \in G
  BY DEF Folds
<1>2. ASSUME NEW n \in Nat, n \in G PROVE n + 1 \in G
  <2> SUFFICES ASSUME n + 1 \in 0..Len(fs) PROVE t \in a[n + 1] <=> t \in b[n + 1]
    OBVIOUS
  <2>1. n + 1 \in 1..Len(fs) /\ (n + 1) - 1 = n /\ n \in 0..Len(fs)
    BY <1>2
  <2>2. a[n + 1] = Amounts(a[n], fs[n + 1]) /\ b[n + 1] = Amounts(b[n], fs[n + 1])
    BY <2>1 DEF Folds
  <2>3. t \in a[n] <=> t \in b[n]
    BY <1>2, <2>1
  <2>4. fs[n + 1] \in Frame
    BY <2>1
  <2> QED
    BY <2>2, <2>3, <2>4, AmountsTo
<1>3. \A n \in Nat : n \in G
  <2> HIDE DEF G
  <2> QED
    BY <1>1, <1>2, Counting
<1> QED
  BY <1>3

LEMMA FoldIs ==
  ASSUME NEW a, NEW S, NEW T, NEW fs \in Seq(Frame), NEW t, Folds(a, S, fs), t \in S <=> t \in T
  PROVE  t \in AllAmount(T, fs) <=> t \in a[Len(fs)]
<1>1. Len(fs) \in Nat
  OBVIOUS
<1>2. PICK b : Folds(b, T, fs) /\ AllAmount(T, fs) = b[Len(fs)]
  BY <1>1, FoldUnfolds
<1>3. \A n \in 0..Len(fs) : t \in a[n] <=> t \in b[n]
  BY <1>2, FoldsAlike
<1> QED
  BY <1>1, <1>2, <1>3

LEMMA FoldLocal ==
  ASSUME NEW S, NEW T, NEW fs \in Seq(Frame), NEW t, t \in S <=> t \in T
  PROVE  t \in AllAmount(S, fs) <=> t \in AllAmount(T, fs)
<1>1. PICK a : Folds(a, S, fs) /\ AllAmount(S, fs) = a[Len(fs)]
  BY FoldUnfolds
<1> QED
  BY <1>1, FoldIs

LEMMA FoldEmpty == ASSUME NEW T PROVE AllAmount(T, <<>>) = T
<1>1. PICK a : Folds(a, T, <<>>) /\ AllAmount(T, <<>>) = a[Len(<<>>)]
  BY FoldUnfolds
<1> QED
  BY <1>1 DEF Folds

LEMMA FoldAppend ==
  ASSUME NEW T, NEW fs \in Seq(Frame), NEW f \in Frame, NEW t
  PROVE  t \in AllAmount(T, Append(fs, f)) <=> t \in Amounts(AllAmount(T, fs), f)
<1> DEFINE more == Append(fs, f)
<1>1. /\ more \in Seq(Frame) /\ Len(fs) \in Nat /\ Len(more) = Len(fs) + 1
      /\ more[Len(fs) + 1] = f /\ \A n \in 1..Len(fs) : more[n] = fs[n]
  OBVIOUS
<1> HIDE DEF more
<1>2. PICK a : Folds(a, T, more) /\ AllAmount(T, more) = a[Len(more)]
  BY <1>1, FoldUnfolds
<1>3. Folds(a, T, fs)
  BY <1>1, <1>2 DEF Folds
<1>4. t \in AllAmount(T, fs) <=> t \in a[Len(fs)]
  BY <1>3, FoldIs
<1>5. a[Len(fs) + 1] = Amounts(a[Len(fs)], f)
  <2>1. Len(fs) + 1 \in 1..Len(more) /\ (Len(fs) + 1) - 1 = Len(fs)
    BY <1>1
  <2> QED
    BY <1>1, <1>2, <2>1 DEF Folds
<1>6. t \in a[Len(fs) + 1] <=> t \in Amounts(AllAmount(T, fs), f)
  BY <1>4, <1>5, AmountsTo
<1> QED
  BY <1>1, <1>2, <1>6 DEF more

LEMMA FoldPrefix ==
  ASSUME NEW T, NEW fs \in Seq(Frame), NEW f \in Frame, NEW t
  PROVE  t \in AllAmount(T, <<f>> \o fs) <=> t \in AllAmount(Amounts(T, f), fs)
<1> DEFINE more == <<f>> \o fs
<1>1. /\ more \in Seq(Frame) /\ Len(fs) \in Nat /\ Len(more) = Len(fs) + 1
      /\ more[1] = f /\ \A n \in 1..Len(fs) : more[n + 1] = fs[n]
  OBVIOUS
<1> HIDE DEF more
<1>2. PICK a : Folds(a, T, more) /\ AllAmount(T, more) = a[Len(more)]
  BY <1>1, FoldUnfolds
<1> DEFINE b == [n \in 0..Len(fs) |-> a[n + 1]]
<1>3. Folds(b, Amounts(T, f), fs)
  <2>1. 1 \in 1..Len(more) /\ 1 - 1 = 0
    BY <1>1
  <2>2. a[0] = T /\ a[1] = Amounts(a[0], more[1])
    BY <1>2, <2>1 DEF Folds
  <2>3. b[0] = Amounts(T, f)
    BY <1>1, <2>2
  <2>4. ASSUME NEW n \in 1..Len(fs) PROVE b[n] = Amounts(b[n - 1], fs[n])
    <3>1. n + 1 \in 1..Len(more) /\ (n + 1) - 1 = n /\ n \in 0..Len(fs) /\ n - 1 \in 0..Len(fs) /\ (n - 1) + 1 = n
      BY <1>1
    <3>2. a[n + 1] = Amounts(a[n], more[n + 1])
      BY <1>2, <3>1 DEF Folds
    <3> QED
      BY <1>1, <3>1, <3>2
  <2> HIDE DEF b
  <2> QED
    BY <2>3, <2>4 DEF Folds
<1>4. b[Len(fs)] = a[Len(more)]
  BY <1>1
<1> HIDE DEF b
<1>5. t \in AllAmount(Amounts(T, f), fs) <=> t \in b[Len(fs)]
  BY <1>3, FoldIs
<1> QED
  BY <1>2, <1>4, <1>5 DEF more

LEMMA FoldWithin ==
  ASSUME NEW T \in SUBSET Topics, NEW fs \in Seq(Frame)
  PROVE  AllAmount(T, fs) \subseteq Topics
<1>1. PICK a : Folds(a, T, fs) /\ AllAmount(T, fs) = a[Len(fs)]
  BY FoldUnfolds
<1> DEFINE G == {n \in Nat : n \in 0..Len(fs) => a[n] \subseteq Topics}
<1>2. 0 \in G
  BY <1>1 DEF Folds
<1>3. ASSUME NEW n \in Nat, n \in G PROVE n + 1 \in G
  <2> SUFFICES ASSUME n + 1 \in 0..Len(fs), NEW t \in a[n + 1] PROVE t \in Topics
    OBVIOUS
  <2>1. n + 1 \in 1..Len(fs) /\ (n + 1) - 1 = n /\ n \in 0..Len(fs)
    BY <1>3
  <2>2. a[n + 1] = Amounts(a[n], fs[n + 1])
    BY <1>1, <2>1 DEF Folds
  <2>3. a[n] \subseteq Topics
    BY <1>3, <2>1
  <2>4. fs[n + 1] \in Frame
    BY <2>1
  <2>5. fs[n + 1].topics \subseteq Topics
    BY <2>4 DEF Frame
  <2> QED
    BY <2>2, <2>3, <2>4, <2>5, AmountsTo
<1>4. \A n \in Nat : n \in G
  <2> HIDE DEF G
  <2> QED
    BY <1>2, <1>3, Counting
<1> QED
  BY <1>1, <1>4

-----------------------------------------------------------------------------
(* The client.  Calls are made by whoever uses it.                         *)
ClientMoves == ClientNext \/ \E k \in Calls, f \in Frame : Subscription(k, f)

LEMMA SentTypes ==
  ASSUME ClientTypeOK, NEW c \in Conns \cup {None}, NEW f \in Frame
  PROVE  /\ Sent(c, f) \in [Conns -> Conn \cup {None}]
         /\ \A d \in Conns : d # c => Sent(c, f)[d] = conns[d]
         /\ c # None /\ conns[c] # None =>
              Sent(c, f)[c] = [conns[c] EXCEPT !.frames = Append(@, f), !.told = Amounts(@, f)]
<1> DEFINE new == [conns[c] EXCEPT !.frames = Append(@, f), !.told = Amounts(@, f)]
<1>1. CASE c = None \/ conns[c] = None
  BY <1>1 DEF Sent, ClientTypeOK
<1>2. CASE ~(c = None \/ conns[c] = None)
  <2>1. c \in Conns /\ conns[c] \in Conn /\ conns \in [Conns -> Conn \cup {None}]
    BY <1>2 DEF ClientTypeOK
  <2>2. Append(conns[c].frames, f) \in Seq(Frame)
    BY <2>1 DEF Conn
  <2>3. Amounts(conns[c].told, f) \in SUBSET Topics
    <3>1. f.topics \subseteq Topics /\ conns[c].told \subseteq Topics
      BY <2>1 DEF Conn, Frame
    <3>2. \A t : t \in Amounts(conns[c].told, f) => t \in Topics
      BY <3>1, AmountsTo
    <3> QED
      BY <3>2
  <2>4. new \in Conn
    BY <2>1, <2>2, <2>3 DEF Conn
  <2>5. Sent(c, f) = [conns EXCEPT ![c] = new]
    BY <1>2, <2>1 DEF Sent
  <2> HIDE DEF new
  <2>6. Sent(c, f) \in [Conns -> Conn \cup {None}] /\ Sent(c, f)[c] = new
        /\ \A d \in Conns : d # c => Sent(c, f)[d] = conns[d]
    BY <2>1, <2>4, <2>5
  <2> QED
    BY <2>6 DEF new
<1> QED
  BY <1>1, <1>2

LEMMA SentAllTypes ==
  ASSUME ClientTypeOK, NEW c \in Conns \cup {None}, NEW fs \in Seq(Frame)
  PROVE  /\ SentAll(c, fs) \in [Conns -> Conn \cup {None}]
         /\ \A d \in Conns : d # c => SentAll(c, fs)[d] = conns[d]
         /\ c # None /\ conns[c] # None =>
              SentAll(c, fs)[c] = [conns[c] EXCEPT !.frames = @ \o fs, !.told = AllAmount(@, fs)]
<1> DEFINE new == [conns[c] EXCEPT !.frames = @ \o fs, !.told = AllAmount(@, fs)]
<1>1. CASE c = None \/ conns[c] = None
  BY <1>1 DEF SentAll, ClientTypeOK
<1>2. CASE ~(c = None \/ conns[c] = None)
  <2>1. c \in Conns /\ conns[c] \in Conn /\ conns \in [Conns -> Conn \cup {None}]
    BY <1>2 DEF ClientTypeOK
  <2>2. conns[c].frames \o fs \in Seq(Frame)
    BY <2>1 DEF Conn
  <2>3. AllAmount(conns[c].told, fs) \in SUBSET Topics
    <3>1. conns[c].told \in SUBSET Topics
      BY <2>1 DEF Conn
    <3> QED
      BY <3>1, FoldWithin
  <2>4. new \in Conn
    BY <2>1, <2>2, <2>3 DEF Conn
  <2>5. SentAll(c, fs) = [conns EXCEPT ![c] = new]
    BY <1>2, <2>1 DEF SentAll
  <2> HIDE DEF new
  <2>6. SentAll(c, fs) \in [Conns -> Conn \cup {None}] /\ SentAll(c, fs)[c] = new
        /\ \A d \in Conns : d # c => SentAll(c, fs)[d] = conns[d]
    BY <2>1, <2>4, <2>5
  <2> QED
    BY <2>6 DEF new
<1> QED
  BY <1>1, <1>2

LEMMA IdentifyIsFrame == [op |-> "identify", topics |-> {}] \in Frame
BY DEF Frame

LEMMA AgainAreFrames ==
  ASSUME ClientTypeOK
  PROVE  (IF client.subscribed = {} THEN <<>> ELSE <<[op |-> "subscribe", topics |-> client.subscribed]>>)
           \o client.pending \in Seq(Frame)
<1>1. client.pending \in Seq(Frame) /\ client.subscribed \subseteq Topics
  BY DEF ClientTypeOK, Inner
<1>2. [op |-> "subscribe", topics |-> client.subscribed] \in Frame
  BY <1>1 DEF Frame
<1> DEFINE f == [op |-> "subscribe", topics |-> client.subscribed]
<1> HIDE DEF f
<1>3. f \in Frame
  BY <1>2 DEF f
<1>4. <<f>> \o client.pending \in Seq(Frame) /\ <<>> \o client.pending \in Seq(Frame)
  BY <1>1, <1>3
<1> QED
  BY <1>4 DEF f

(* What a loop has at each stage.                                          *)
LEMMA LoopIs ==
  ASSUME NEW x
  PROVE  x \in Loop <=>
           /\ x = [stage |-> x.stage, conn |-> x.conn]
           /\ \/ x.stage \in {"check", "dial", "again"} /\ x.conn = None
              \/ x.stage \in {"hello", "flush", "pump"} /\ x.conn \in Conns
              \/ x.stage = "after" /\ x.conn \in Conns \cup {None}
BY DEF Loop

LEMMA LoopMoves ==
  ASSUME ClientTypeOK, NEW l \in Loops, loops[l] # None, NEW stage, LoopAt(l, stage),
         \/ stage = "flush" /\ loops[l].stage = "hello"
         \/ stage = "pump" /\ loops[l].stage = "flush"
         \/ stage = "check" /\ loops[l].stage = "again"
         \/ stage = "after"
  PROVE  /\ loops' \in [Loops -> Loop \cup {None}]
         /\ loops'[l] = [stage |-> stage, conn |-> loops[l].conn]
         /\ \A m \in Loops : m # l => loops'[m] = loops[m]
<1>1. loops \in [Loops -> Loop \cup {None}] /\ loops[l] \in Loop
  BY DEF ClientTypeOK
<1> DEFINE x == loops[l]
           y == [x EXCEPT !.stage = stage]
<1>2. y = [stage |-> stage, conn |-> x.conn] /\ y.stage = stage /\ y.conn = x.conn
  <2>1. x = [stage |-> x.stage, conn |-> x.conn]
    BY <1>1, LoopIs
  <2> QED
    BY <2>1
<1>3. loops' = [loops EXCEPT ![l] = y]
  BY DEF LoopAt
<1>4. \/ x.stage \in {"check", "dial", "again"} /\ x.conn = None
      \/ x.stage \in {"hello", "flush", "pump"} /\ x.conn \in Conns
      \/ x.stage = "after" /\ x.conn \in Conns \cup {None}
  BY <1>1, LoopIs
<1> HIDE DEF y
<1>5. y \in Loop
  BY <1>2, <1>4, LoopIs
<1> QED
  BY <1>1, <1>2, <1>3, <1>5

LEMMA HandledTypes ==
  ASSUME ClientTypeOK, NEW c \in Conns, Handle(c) PROVE conns' \in [Conns -> Conn \cup {None}]
<1> DEFINE x == conns[c]
           f == Head(x.frames)
           rest == [x EXCEPT !.frames = Tail(@)]
<1>1. conns \in [Conns -> Conn \cup {None}] /\ x \in Conn /\ x.frames \in Seq(Frame) /\ x.frames # <<>>
  BY DEF Handle, ClientTypeOK, Conn
<1>2. f \in Frame /\ Tail(x.frames) \in Seq(Frame)
  BY <1>1
<1>3. rest \in Conn
  BY <1>1, <1>2 DEF Conn
<1>4. f.op \in {"identify", "subscribe", "unsubscribe"} /\ f.topics \subseteq Topics
  BY <1>2 DEF Frame
<1>5. conns' = [conns EXCEPT ![c] =
          CASE f.op = "identify" -> [rest EXCEPT !.asked = TRUE]
            [] f.op = "subscribe" ->
                 IF rest.user THEN [rest EXCEPT !.late = @ \cup f.topics] ELSE rest
            [] f.op = "unsubscribe" -> [rest EXCEPT !.topics = @ \ f.topics]]
  BY DEF Handle
<1> HIDE DEF f, rest
<1>6. [rest EXCEPT !.asked = TRUE] \in Conn
  BY <1>3 DEF Conn
<1>7. [rest EXCEPT !.late = @ \cup f.topics] \in Conn
  BY <1>3, <1>4 DEF Conn
<1>8. [rest EXCEPT !.topics = @ \ f.topics] \in Conn
  BY <1>3, <1>4 DEF Conn
<1>9. \E y \in Conn : conns' = [conns EXCEPT ![c] = y]
  BY <1>3, <1>4, <1>5, <1>6, <1>7, <1>8
<1> QED
  BY <1>1, <1>9

LEMMA PastTypes ==
  ASSUME past \in Past
  PROVE  /\ past.breaks < MaxBreaks => [past EXCEPT !.breaks = @ + 1] \in Past
         /\ \A b \in BOOLEAN :
              past.calls < MaxCalls => [past EXCEPT !.calls = @ + 1, !.cut = @ \/ b] \in Past
         /\ \A b \in BOOLEAN :
              [past EXCEPT !.calls = IF @ < MaxCalls THEN @ + 1 ELSE @, !.mixed = @ \/ b] \in Past
         /\ \A S \in SUBSET Topics : [past EXCEPT !.again = S] \in Past
<1>1. past.breaks \in 0..MaxBreaks /\ past.calls \in 0..MaxCalls
  BY DEF Past
<1>2. past.breaks < MaxBreaks => past.breaks + 1 \in 0..MaxBreaks
  BY <1>1, ClientBounds
<1>3. past.calls < MaxCalls => past.calls + 1 \in 0..MaxCalls
  BY <1>1, ClientBounds
<1>4. (IF past.calls < MaxCalls THEN past.calls + 1 ELSE past.calls) \in 0..MaxCalls
  BY <1>1, <1>3
<1>5. past.breaks < MaxBreaks => [past EXCEPT !.breaks = @ + 1] \in Past
  BY <1>2 DEF Past
<1>6. ASSUME NEW b \in BOOLEAN, past.calls < MaxCalls
      PROVE  [past EXCEPT !.calls = @ + 1, !.cut = @ \/ b] \in Past
  <2>1. (past.cut \/ b) \in BOOLEAN
    BY DEF Past
  <2> QED
    BY <1>3, <1>6, <2>1 DEF Past
<1>7. ASSUME NEW b \in BOOLEAN
      PROVE  [past EXCEPT !.calls = IF @ < MaxCalls THEN @ + 1 ELSE @, !.mixed = @ \/ b] \in Past
  <2>1. (past.mixed \/ b) \in BOOLEAN
    BY DEF Past
  <2> QED
    BY <1>4, <2>1 DEF Past
<1>8. \A S \in SUBSET Topics : [past EXCEPT !.again = S] \in Past
  BY DEF Past
<1> QED
  BY <1>5, <1>6, <1>7, <1>8

LEMMA AppTypes ==
  ASSUME ClientTypeOK,
         \/ Connect \/ Disconnect
         \/ \E k \in Calls, f \in Frame : Subscription(k, f)
         \/ \E k \in Calls : SendCall(k)
  PROVE  ClientTypeOK'
<1> USE DEF ClientTypeOK
<1>1. CASE Connect
  <2> DEFINE b == client.state = "disconnected" /\ Working # {}
  <2>1. past' \in Past
    <3>1. b \in BOOLEAN /\ past' = [past EXCEPT !.calls = @ + 1, !.cut = @ \/ b] /\ past.calls < MaxCalls
      BY <1>1 DEF Connect
    <3> HIDE DEF b
    <3> QED
      BY <3>1, PastTypes
  <2>2. client' \in Inner
    BY <1>1 DEF Connect, Inner, States
  <2>3. loops' \in [Loops -> Loop \cup {None}]
    <3>1. [stage |-> "check", conn |-> None] \in Loop
      BY DEF Loop
    <3> QED
      BY <1>1, <3>1 DEF Connect
  <2> QED
    BY <1>1, <2>1, <2>2, <2>3 DEF Connect
<1>2. CASE Disconnect
  <2> DEFINE b == Working # {} \/ ~Quiet
  <2>1. past' \in Past
    <3>1. b \in BOOLEAN /\ past' = [past EXCEPT !.calls = @ + 1, !.cut = @ \/ b] /\ past.calls < MaxCalls
      BY <1>2 DEF Disconnect
    <3> HIDE DEF b
    <3> QED
      BY <3>1, PastTypes
  <2>2. client' \in Inner
    BY <1>2 DEF Disconnect, Inner, States
  <2> QED
    BY <1>2, <2>1, <2>2 DEF Disconnect
<1>3. CASE \E k \in Calls, f \in Frame : Subscription(k, f)
  <2>1. PICK k \in Calls, f \in Frame : Subscription(k, f)
    BY <1>3
  <2> DEFINE b == \E j \in Calls : calls[j] # None /\ calls[j].topics \cap f.topics # {}
  <2>2. past' \in Past
    <3>1. b \in BOOLEAN /\ past' = [past EXCEPT !.calls = IF @ < MaxCalls THEN @ + 1 ELSE @, !.mixed = @ \/ b]
      BY <2>1 DEF Subscription
    <3> HIDE DEF b
    <3> QED
      BY <3>1, PastTypes
  <2>3. Amounts(client.subscribed, f) \in SUBSET Topics
    <3>1. client.subscribed \subseteq Topics /\ f.topics \subseteq Topics
      BY DEF Inner, Frame
    <3>2. \A t : t \in Amounts(client.subscribed, f) => t \in Topics
      BY <3>1, AmountsTo
    <3> QED
      BY <3>2
  <2>4. client' \in Inner
    BY <2>1, <2>3 DEF Subscription, Inner
  <2> QED
    BY <2>1, <2>2, <2>4 DEF Subscription
<1>4. CASE \E k \in Calls : SendCall(k)
  <2>1. PICK k \in Calls : SendCall(k)
    BY <1>4
  <2>2. calls[k] \in Frame
    BY <2>1 DEF SendCall
  <2>3. client.pending \in Seq(Frame) /\ client.outgoing \in Conns \cup {None}
    BY DEF Inner
  <2>4. Append(client.pending, calls[k]) \in Seq(Frame)
    BY <2>2, <2>3
  <2>5. client' \in Inner
    BY <2>1, <2>4 DEF SendCall, Inner
  <2>6. Sent(client.outgoing, calls[k]) \in [Conns -> Conn \cup {None}]
    BY <2>2, <2>3, SentTypes
  <2> QED
    BY <2>1, <2>5, <2>6 DEF SendCall
<1> QED
  BY <1>1, <1>2, <1>3, <1>4

LEMMA OpenedIsConn ==
  /\ Opened \in Conn /\ Opened # None /\ Opened.told = {}
  /\ \A S \in SUBSET Topics : [Opened EXCEPT !.open = FALSE, !.told = S] \in Conn
<1>1. Opened \in Conn
  BY DEF Opened, Conn
<1> QED
  BY <1>1, ClientRecords DEF Opened, Conn

LEMMA LoopTypes ==
  ASSUME ClientTypeOK, NEW l \in Loops, LoopStep(l) PROVE ClientTypeOK'
<1> DEFINE x == loops[l]
<1>1. CASE CheckStop(l)
  <2>1. x \in Loop /\ loops \in [Loops -> Loop \cup {None}]
    BY <1>1 DEF CheckStop, At, ClientTypeOK
  <2> DEFINE y == [stage |-> IF At(l, "check") THEN "dial" ELSE "again", conn |-> None]
  <2>2. y \in Loop
    BY DEF Loop
  <2>3. loops' = [loops EXCEPT ![l] = IF client.stopped THEN None ELSE y]
    BY <1>1 DEF CheckStop
  <2> HIDE DEF y
  <2> QED
    BY <1>1, <2>1, <2>2, <2>3 DEF CheckStop, ClientTypeOK
<1>2. CASE Again(l)
  <2>1. loops' \in [Loops -> Loop \cup {None}]
    BY <1>2, LoopMoves DEF Again, At
  <2> QED
    BY <1>2, <2>1 DEF Again, ClientTypeOK, Inner, States
<1>3. CASE Dial(l)
  <2>1. CASE \E c \in Conns : Unused(c)
          /\ conns' = [conns EXCEPT ![c] = Opened]
          /\ client' = [client EXCEPT !.state = "connected", !.outgoing = c]
          /\ loops' = [loops EXCEPT ![l] = [stage |-> "hello", conn |-> c]]
          /\ UNCHANGED past
    <3>1. PICK c \in Conns :
          /\ conns' = [conns EXCEPT ![c] = Opened]
          /\ client' = [client EXCEPT !.state = "connected", !.outgoing = c]
          /\ loops' = [loops EXCEPT ![l] = [stage |-> "hello", conn |-> c]]
          /\ UNCHANGED past
      BY <2>1
    <3>2. [stage |-> "hello", conn |-> c] \in Loop
      BY DEF Loop
    <3>3. client' \in Inner
      BY <3>1 DEF ClientTypeOK, Inner, States
    <3> QED
      BY <1>3, <3>1, <3>2, <3>3, OpenedIsConn DEF Dial, ClientTypeOK
  <2>2. CASE Breaks /\ LoopAt(l, "after") /\ UNCHANGED <<client, conns>>
    <3>1. loops' \in [Loops -> Loop \cup {None}]
      BY <1>3, <2>2, LoopMoves DEF Dial, At
    <3>2. past' \in Past
      BY <2>2, PastTypes DEF Breaks, ClientTypeOK
    <3> QED
      BY <1>3, <2>2, <3>1, <3>2 DEF Dial, ClientTypeOK
  <2> QED
    BY <1>3, <2>1, <2>2 DEF Dial
<1>4. CASE Hello(l)
  <2>1. At(l, "hello") /\ x \in Loop /\ x.stage = "hello" /\ x.conn \in Conns
    <3>1. x \in Loop /\ x.stage = "hello"
      BY <1>4 DEF Hello, At, ClientTypeOK
    <3> QED
      BY <1>4, <3>1, LoopIs DEF Hello
  <2>2. loops' \in [Loops -> Loop \cup {None}]
    BY <1>4, <2>1, LoopMoves DEF Hello, At
  <2>3. conns' \in [Conns -> Conn \cup {None}]
    <3>1. Sent(x.conn, [op |-> "identify", topics |-> {}]) \in [Conns -> Conn \cup {None}]
      BY <2>1, IdentifyIsFrame, SentTypes
    <3> QED
      BY <1>4, <3>1 DEF Hello, ClientTypeOK
  <2> QED
    BY <1>4, <2>2, <2>3 DEF Hello, ClientTypeOK
<1>5. CASE Flush(l)
  <2>1. loops' \in [Loops -> Loop \cup {None}]
    BY <1>5, LoopMoves DEF Flush, At
  <2>2. client.outgoing \in Conns \cup {None} /\ client.subscribed \in SUBSET Topics
    BY DEF ClientTypeOK, Inner
  <2>3. conns' \in [Conns -> Conn \cup {None}]
    BY <1>5, <2>2, AgainAreFrames, SentAllTypes DEF Flush
  <2>4. past' \in Past
    <3>1. past \in Past /\ past' = [past EXCEPT !.again = client.subscribed]
      BY <1>5 DEF Flush, ClientTypeOK
    <3> QED
      BY <2>2, <3>1, PastTypes
  <2>5. client' \in Inner
    <3>1. client' = [client EXCEPT !.state = "identified", !.pending = <<>>] /\ client \in Inner
      BY <1>5 DEF Flush, ClientTypeOK
    <3>2. PICK e \in Seq(Frame) : e = <<>>
      <4>1. <<>> \in Seq(Frame)
        OBVIOUS
      <4> QED
        BY <4>1, Zenon
    <3>3. client' = [client EXCEPT !.state = "identified", !.pending = e]
      BY <3>1, <3>2
    <3> QED
      BY <3>1, <3>3 DEF Inner, States
  <2> QED
    BY <1>5, <2>1, <2>3, <2>4, <2>5 DEF Flush, ClientTypeOK
<1>6. CASE PumpEnds(l)
  <2>1. loops' \in [Loops -> Loop \cup {None}]
    BY <1>6, LoopMoves DEF PumpEnds, At
  <2>2. client' \in Inner
    BY <1>6 DEF PumpEnds, ClientTypeOK, Inner, States
  <2> QED
    BY <1>6, <2>1, <2>2 DEF PumpEnds, ClientTypeOK
<1> QED
  BY <1>1, <1>2, <1>3, <1>4, <1>5, <1>6 DEF LoopStep

LEMMA GatewayTypes ==
  ASSUME ClientTypeOK, NEW c \in Conns, Gateway(c) PROVE ClientTypeOK'
<1> USE DEF ClientTypeOK
<1>1. CASE Break(c)
  <2>1. conns[c] \in Conn /\ conns[c].told \in SUBSET Topics
    BY <1>1 DEF Break, Conn
  <2>2. past' \in Past
    BY <1>1, PastTypes DEF Break, Breaks
  <2>3. [Opened EXCEPT !.open = FALSE, !.told = conns[c].told] \in Conn
    BY <2>1, OpenedIsConn
  <2> QED
    BY <1>1, <2>2, <2>3 DEF Break
<1>2. CASE Handle(c)
  BY <1>2, HandledTypes DEF Handle
<1>3. CASE SessionFound(c)
  <2>1. conns[c] \in Conn
    BY <1>3 DEF SessionFound
  <2>2. [conns[c] EXCEPT !.asked = FALSE, !.user = TRUE] \in Conn
    BY <2>1 DEF Conn
  <2>3. conns' = [conns EXCEPT ![c] = [conns[c] EXCEPT !.asked = FALSE, !.user = TRUE]]
    BY <1>3 DEF SessionFound
  <2> QED
    BY <1>3, <2>2, <2>3 DEF SessionFound
<1>4. CASE AddTopics(c)
  <2>1. PICK t \in conns[c].late : conns' = [conns EXCEPT ![c].late = @ \ {t}, ![c].topics = @ \cup {t}]
    BY <1>4 DEF AddTopics
  <2>2. conns[c] \in Conn /\ t \in Topics
    BY <1>4, <2>1 DEF AddTopics, Conn
  <2>3. [conns[c] EXCEPT !.late = @ \ {t}, !.topics = @ \cup {t}] \in Conn
    BY <2>2 DEF Conn
  <2>4. conns' = [conns EXCEPT ![c] = [conns[c] EXCEPT !.late = @ \ {t}, !.topics = @ \cup {t}]]
    BY <2>1
  <2> QED
    BY <1>4, <2>3, <2>4 DEF AddTopics
<1> QED
  BY <1>1, <1>2, <1>3, <1>4 DEF Gateway

LEMMA ClientTypes ==
  ASSUME ClientTypeOK, [ClientMoves]_clientVars PROVE ClientTypeOK'
<1>1. CASE UNCHANGED clientVars
  BY <1>1 DEF clientVars, ClientTypeOK
<1>2. CASE ClientMoves
  <2>1. ASSUME NEW k \in Calls, NEW f \in Frame, Subscribe(k, f) PROVE ClientTypeOK'
    BY <2>1, AppTypes DEF Subscribe
  <2> QED
    BY <1>2, <2>1, AppTypes, LoopTypes, GatewayTypes DEF ClientMoves, ClientNext
<1> QED
  BY <1>1, <1>2

LEMMA ClientStarts == ClientInit => ClientTypeOK
BY ClientBounds DEF ClientInit, ClientTypeOK, Inner, States, Past

-----------------------------------------------------------------------------
(* As long as disconnect met nobody at work, and no two calls about a      *)
(* topic overlapped, there is one loop at most, and its stage tells the    *)
(* state; a topic nobody is about to speak of stands in what is queued as  *)
(* it stands in the set, and, identified, in what the socket was told.     *)
Whole == ~past.cut /\ ~past.mixed
Awaited(t) == \E k \in Calls : calls[k] # None /\ t \in calls[k].topics
OneLoop == \A l, m \in Loops : loops[l] # None /\ loops[m] # None => l = m
Speaking(c) == c \in Conns /\ client.outgoing = c /\ conns[c] # None
Stands(l) ==
  /\ ~client.stopped
  /\ loops[l].stage \in {"check", "dial"} => client.state = "connecting"
  /\ loops[l].stage \in {"again", "after"} => client.state # "identified"
  /\ loops[l].stage \in {"hello", "flush"} =>
       client.state = "connected" /\ Speaking(loops[l].conn) /\ conns[loops[l].conn].told = {}
  /\ loops[l].stage = "pump" => client.state = "identified" /\ Speaking(loops[l].conn)
Resting == (\A l \in Loops : loops[l] = None) => client.state = "disconnected"
CallsApart ==
  \A j, k \in Calls : calls[j] # None /\ calls[k] # None /\ j # k => calls[j].topics \cap calls[k].topics = {}
CallsDecide ==
  \A k \in Calls : calls[k] # None =>
    /\ calls[k].op \in {"subscribe", "unsubscribe"}
    /\ \A t \in calls[k].topics : t \in client.subscribed <=> calls[k].op = "subscribe"
Queued(t) == t \in AllAmount(client.subscribed, client.pending) <=> t \in client.subscribed
Told(t) == t \in conns[client.outgoing].told <=> t \in client.subscribed
Mirror ==
  /\ OneLoop /\ Resting /\ \A l \in Loops : loops[l] # None => Stands(l)
  /\ CallsApart /\ CallsDecide
  /\ client.state = "identified" => client.pending = <<>>
  /\ \A t \in Topics : ~Awaited(t) =>
       /\ Queued(t)
       /\ client.state = "identified" => Told(t)
MirrorInv == Whole => Mirror

LEMMA MirrorSays == ASSUME ClientTypeOK, MirrorInv PROVE FramesMirror
<1> SUFFICES ASSUME Whole, Quiet, client.state = "identified"
             PROVE  client.outgoing # None /\ conns[client.outgoing].told = client.subscribed
  BY DEF FramesMirror, Whole
<1>1. Mirror
  BY DEF MirrorInv
<1>2. PICK l \in Loops : loops[l] # None
  BY <1>1 DEF Mirror, Resting
<1>3. Stands(l) /\ loops[l].stage \in {"check", "dial", "again", "after", "hello", "flush", "pump"}
  BY <1>1, <1>2 DEF Mirror, ClientTypeOK, Loop
<1>4. Speaking(client.outgoing)
  BY <1>3 DEF Stands, Speaking
<1>5. conns[client.outgoing].told \subseteq Topics /\ client.subscribed \subseteq Topics
  BY <1>4 DEF Speaking, ClientTypeOK, Conn, Inner
<1>6. \A t \in Topics : t \in conns[client.outgoing].told <=> t \in client.subscribed
  BY <1>1 DEF Mirror, Told, Awaited, Quiet
<1> QED
  BY <1>4, <1>5, <1>6, ClientNone DEF Speaking

LEMMA MirrorStarts == ClientInit => MirrorInv
<1> SUFFICES ASSUME ClientInit PROVE Mirror
  BY DEF MirrorInv
<1>1. \A t \in Topics : Queued(t)
  BY FoldEmpty DEF ClientInit, Queued
<1> QED
  BY <1>1 DEF ClientInit, Mirror, OneLoop, Resting, CallsApart, CallsDecide, Stands

(* What the gateway does to a socket changes neither that it is there nor  *)
(* what it was told.                                                       *)
LEMMA GatewayKeeps ==
  ASSUME ClientTypeOK, NEW c \in Conns, Gateway(c)
  PROVE  /\ UNCHANGED <<client, loops, calls>> /\ past'.cut = past.cut /\ past'.mixed = past.mixed
         /\ \A d \in Conns : conns[d] # None => conns'[d] # None /\ conns'[d].told = conns[d].told
<1>1. conns \in [Conns -> Conn \cup {None}] /\ past \in Past /\ conns[c] # None /\ conns[c] \in Conn
  BY DEF ClientTypeOK, Gateway, Break, Handle, SessionFound, AddTopics
<1>4. CASE Break(c)
  <2> DEFINE y == [Opened EXCEPT !.open = FALSE, !.told = conns[c].told]
  <2>1. y \in Conn /\ y.told = conns[c].told
    <3>1. conns[c].told \in SUBSET Topics
      BY <1>1 DEF Conn
    <3> QED
      BY <3>1, OpenedIsConn DEF Conn
  <2>2. conns' = [conns EXCEPT ![c] = y]
    BY <1>4 DEF Break
  <2>3. past'.cut = past.cut /\ past'.mixed = past.mixed
    BY <1>1, <1>4 DEF Break, Breaks, Past
  <2> HIDE DEF y
  <2> QED
    BY <1>1, <1>4, <2>1, <2>2, <2>3, ClientRecords DEF Break
<1>5. CASE Handle(c)
  <2> DEFINE f == Head(conns[c].frames)
             rest == [conns[c] EXCEPT !.frames = Tail(@)]
  <2>1. rest \in Conn /\ rest.told = conns[c].told
    <3>1. Tail(conns[c].frames) \in Seq(Frame)
      BY <1>1, <1>5 DEF Handle, Conn
    <3> QED
      BY <1>1, <3>1 DEF Conn
  <2>2. f.op \in {"identify", "subscribe", "unsubscribe"}
    <3>1. f \in Frame
      BY <1>1, <1>5 DEF Handle, Conn
    <3> QED
      BY <3>1 DEF Frame
  <2>3. conns' = [conns EXCEPT ![c] =
          CASE f.op = "identify" -> [rest EXCEPT !.asked = TRUE]
            [] f.op = "subscribe" ->
                 IF rest.user THEN [rest EXCEPT !.late = @ \cup f.topics] ELSE rest
            [] f.op = "unsubscribe" -> [rest EXCEPT !.topics = @ \ f.topics]]
    BY <1>5 DEF Handle
  <2> HIDE DEF f, rest
  <2>4. [rest EXCEPT !.asked = TRUE].told = rest.told
    BY <2>1 DEF Conn
  <2>5. [rest EXCEPT !.late = @ \cup f.topics].told = rest.told
    BY <2>1 DEF Conn
  <2>6. [rest EXCEPT !.topics = @ \ f.topics].told = rest.told
    BY <2>1 DEF Conn
  <2>7. conns'[c].told = conns[c].told
    BY <1>1, <2>1, <2>2, <2>3, <2>4, <2>5, <2>6
  <2>8. conns'[c] # None
    <3>1. [rest EXCEPT !.asked = TRUE] \in Conn
      BY <2>1 DEF Conn
    <3>2. f.topics \subseteq Topics
      <4>1. f \in Frame
        BY <1>1, <1>5 DEF Handle, Conn, f
      <4> QED
        BY <4>1 DEF Frame
    <3>3. [rest EXCEPT !.late = @ \cup f.topics] \in Conn
      BY <2>1, <3>2 DEF Conn
    <3>4. [rest EXCEPT !.topics = @ \ f.topics] \in Conn
      BY <2>1 DEF Conn
    <3>5. conns'[c] \in Conn
      BY <1>1, <2>1, <2>2, <2>3, <3>1, <3>3, <3>4
    <3> QED
      BY <3>5, ClientRecords
  <2>9. \A d \in Conns : d # c => conns'[d] = conns[d]
    BY <1>1, <2>3
  <2> QED
    BY <1>5, <2>7, <2>8, <2>9 DEF Handle
<1>6. CASE SessionFound(c)
  <2> DEFINE y == [conns[c] EXCEPT !.asked = FALSE, !.user = TRUE]
  <2>1. y \in Conn /\ y.told = conns[c].told
    BY <1>1 DEF Conn
  <2>2. conns' = [conns EXCEPT ![c] = y]
    BY <1>6 DEF SessionFound
  <2> HIDE DEF y
  <2> QED
    BY <1>1, <1>6, <2>1, <2>2, ClientRecords DEF SessionFound
<1>7. CASE AddTopics(c)
  <2>1. PICK t \in conns[c].late : conns' = [conns EXCEPT ![c].late = @ \ {t}, ![c].topics = @ \cup {t}]
    BY <1>7 DEF AddTopics
  <2> DEFINE y == [conns[c] EXCEPT !.late = @ \ {t}, !.topics = @ \cup {t}]
  <2>2. y \in Conn /\ y.told = conns[c].told
    <3>1. t \in Topics
      BY <1>1, <2>1 DEF Conn
    <3> QED
      BY <1>1, <3>1 DEF Conn
  <2>3. conns' = [conns EXCEPT ![c] = y]
    BY <2>1
  <2> HIDE DEF y
  <2> QED
    BY <1>1, <1>7, <2>2, <2>3, ClientRecords DEF AddTopics
<1> QED
  BY <1>4, <1>5, <1>6, <1>7 DEF Gateway

LEMMA GatewayMirrors ==
  ASSUME ClientTypeOK, MirrorInv, NEW c \in Conns, Gateway(c) PROVE MirrorInv'
<1> SUFFICES ASSUME Whole' PROVE Mirror'
  BY DEF MirrorInv
<1>1. UNCHANGED <<client, loops, calls>> /\ Whole
  BY GatewayKeeps DEF Whole
<1>2. \A d \in Conns : conns[d] # None => conns'[d] # None /\ conns'[d].told = conns[d].told
  BY GatewayKeeps
<1>3. Mirror
  BY <1>1 DEF MirrorInv
<1>4. \A d : Speaking(d) => Speaking(d)' /\ conns'[d].told = conns[d].told
  BY <1>1, <1>2 DEF Speaking
<1>5. OneLoop' /\ Resting' /\ CallsApart' /\ CallsDecide'
      /\ (client'.state = "identified" => client'.pending = <<>>)
  BY <1>1, <1>3 DEF Mirror, OneLoop, Resting, CallsApart, CallsDecide
<1>6. ASSUME NEW l \in Loops, loops'[l] # None PROVE Stands(l)'
  BY <1>1, <1>3, <1>4, <1>6 DEF Mirror, Stands
<1>7. client.state = "identified" => Speaking(client.outgoing)
  BY <1>3 DEF Mirror, Resting, Stands, Speaking, ClientTypeOK, Loop
<1>8. ASSUME NEW t \in Topics, ~Awaited(t)' PROVE Queued(t)' /\ (client'.state = "identified" => Told(t)')
  <2>1. ~Awaited(t) /\ Queued(t) /\ (client.state = "identified" => Told(t))
    BY <1>1, <1>3, <1>8 DEF Mirror, Awaited
  <2> QED
    BY <1>1, <1>4, <1>7, <2>1 DEF Queued, Told
<1> QED
  BY <1>5, <1>6, <1>8 DEF Mirror

LEMMA AppMirrors ==
  ASSUME ClientTypeOK, MirrorInv, Connect \/ Disconnect PROVE MirrorInv'
<1> SUFFICES ASSUME Whole' PROVE Mirror'
  BY DEF MirrorInv
<1>1. past \in Past
  BY DEF ClientTypeOK
<1>2. CASE Connect
  <2>1. UNCHANGED <<calls, conns>> /\ Whole /\ ~(client.state = "disconnected" /\ Working # {})
    <3>1. past' = [past EXCEPT !.calls = @ + 1, !.cut = @ \/ (client.state = "disconnected" /\ Working # {})]
      BY <1>2 DEF Connect
    <3> QED
      BY <1>1, <1>2, <3>1 DEF Whole, Past, Connect
  <2>2. Mirror
    BY <2>1 DEF MirrorInv
  <2>3. CASE client.state # "disconnected"
    <3>1. client' = [client EXCEPT !.stopped = FALSE] /\ loops' = loops
      BY <1>2, <2>3 DEF Connect
    <3>2. client'.state = client.state /\ client'.outgoing = client.outgoing /\ client'.stopped = FALSE
          /\ client'.pending = client.pending /\ client'.subscribed = client.subscribed
      BY <3>1 DEF ClientTypeOK, Inner
    <3> QED
      BY <2>1, <2>2, <3>1, <3>2
         DEF Mirror, OneLoop, Resting, CallsApart, CallsDecide, Stands, Speaking, Queued, Told, Awaited
  <2>4. CASE client.state = "disconnected"
    <3>1. \A l \in Loops : loops[l] = None
      BY <2>1, <2>4 DEF Working
    <3>2. PICK l \in Loops : loops' = [loops EXCEPT ![l] = [stage |-> "check", conn |-> None]]
      BY <1>2, <2>4 DEF Connect
    <3>3. client' = [client EXCEPT !.stopped = FALSE, !.state = "connecting"]
      BY <1>2, <2>4 DEF Connect
    <3>4. client'.state = "connecting" /\ client'.stopped = FALSE
          /\ client'.pending = client.pending /\ client'.subscribed = client.subscribed
      BY <3>3 DEF ClientTypeOK, Inner
    <3>5. loops'[l] = [stage |-> "check", conn |-> None] /\ \A m \in Loops : m # l => loops'[m] = None
      BY <3>1, <3>2 DEF ClientTypeOK
    <3>6. loops'[l] # None
      <4>1. [stage |-> "check", conn |-> None] \in Loop
        BY DEF Loop
      <4> QED
        BY <3>5, <4>1, ClientRecords
    <3>7. Stands(l)'
      BY <3>4, <3>5 DEF Stands
    <3> QED
      BY <2>1, <2>2, <3>4, <3>5, <3>6, <3>7
         DEF Mirror, OneLoop, Resting, CallsApart, CallsDecide, Queued, Awaited
  <2> QED
    BY <2>3, <2>4
<1>3. CASE Disconnect
  <2>1. UNCHANGED <<loops, calls, conns>> /\ Working = {} /\ Quiet
    <3>1. past' = [past EXCEPT !.calls = @ + 1, !.cut = @ \/ Working # {} \/ ~Quiet]
      BY <1>3 DEF Disconnect
    <3> QED
      BY <1>1, <1>3, <3>1 DEF Whole, Past, Disconnect
  <2>2. client'.state = "disconnected" /\ client'.subscribed = {} /\ client'.pending = <<>>
    BY <1>3 DEF Disconnect
  <2>3. \A t \in Topics : Queued(t)'
    BY <2>2, FoldEmpty DEF Queued
  <2>4. \A l \in Loops : loops'[l] = None
    BY <2>1 DEF Working
  <2> QED
    BY <2>1, <2>2, <2>3, <2>4 DEF Mirror, OneLoop, Resting, CallsApart, CallsDecide, Quiet
<1> QED
  BY <1>2, <1>3

LEMMA CallMirrors ==
  ASSUME ClientTypeOK, MirrorInv, NEW k \in Calls, NEW f \in Frame, Subscription(k, f)
  PROVE  MirrorInv'
<1> SUFFICES ASSUME Whole' PROVE Mirror'
  BY DEF MirrorInv
<1>1. past \in Past /\ client \in Inner
  BY DEF ClientTypeOK
<1>2. /\ UNCHANGED <<loops, conns>> /\ Whole /\ calls[k] = None /\ f.op # "identify"
      /\ \A j \in Calls : calls[j] # None => calls[j].topics \cap f.topics = {}
  <2>1. past' = [past EXCEPT !.calls = IF @ < MaxCalls THEN @ + 1 ELSE @,
           !.mixed = @ \/ \E j \in Calls : calls[j] # None /\ calls[j].topics \cap f.topics # {}]
    BY DEF Subscription
  <2> QED
    BY <1>1, <2>1 DEF Whole, Past, Subscription
<1>3. Mirror
  BY <1>2 DEF MirrorInv
<1>4. calls' = [calls EXCEPT ![k] = f] /\ calls'[k] = f /\ f # None
      /\ \A j \in Calls : j # k => calls'[j] = calls[j]
  BY ClientRecords DEF Subscription, ClientTypeOK
<1>5. /\ client'.state = client.state /\ client'.stopped = client.stopped
      /\ client'.outgoing = client.outgoing /\ client'.pending = client.pending
      /\ client'.subscribed = Amounts(client.subscribed, f)
  BY <1>1 DEF Subscription, Inner
<1>6. \A t : t \in client'.subscribed <=> IF t \in f.topics THEN f.op = "subscribe" ELSE t \in client.subscribed
  BY <1>2, <1>5, AmountsTo
<1>7. OneLoop' /\ Resting' /\ (client'.state = "identified" => client'.pending = <<>>)
  BY <1>2, <1>3, <1>5 DEF Mirror, OneLoop, Resting
<1>8. ASSUME NEW l \in Loops, loops'[l] # None PROVE Stands(l)'
  BY <1>2, <1>3, <1>5, <1>8 DEF Mirror, Stands, Speaking
<1>9. CallsApart'
  <2> SUFFICES ASSUME NEW i \in Calls, NEW j \in Calls, calls'[i] # None, calls'[j] # None, i # j
               PROVE  calls'[i].topics \cap calls'[j].topics = {}
    BY DEF CallsApart
  <2>1. CASE i # k /\ j # k
    BY <1>3, <1>4, <2>1 DEF Mirror, CallsApart
  <2>2. CASE i = k
    BY <1>2, <1>4, <2>2
  <2>3. CASE j = k
    BY <1>2, <1>4, <2>3
  <2> QED
    BY <2>1, <2>2, <2>3
<1>10. CallsDecide'
  <2> SUFFICES ASSUME NEW j \in Calls, calls'[j] # None
               PROVE  /\ calls'[j].op \in {"subscribe", "unsubscribe"}
                      /\ \A t \in calls'[j].topics : t \in client'.subscribed <=> calls'[j].op = "subscribe"
    BY DEF CallsDecide
  <2>1. CASE j = k
    <3>1. f.op \in {"subscribe", "unsubscribe"}
      BY <1>2 DEF Frame
    <3> QED
      BY <1>4, <1>6, <2>1, <3>1
  <2>2. CASE j # k
    <3>1. calls'[j] = calls[j] /\ calls[j] # None /\ calls[j].topics \cap f.topics = {}
      BY <1>2, <1>4, <2>2
    <3> QED
      BY <1>3, <1>6, <3>1 DEF Mirror, CallsDecide
  <2> QED
    BY <2>1, <2>2
<1>11. ASSUME NEW t \in Topics, ~Awaited(t)' PROVE Queued(t)' /\ (client'.state = "identified" => Told(t)')
  <2>1. t \notin f.topics /\ ~Awaited(t)
    BY <1>2, <1>4, <1>11 DEF Awaited
  <2>2. t \in client'.subscribed <=> t \in client.subscribed
    BY <1>6, <2>1
  <2>3. client.pending \in Seq(Frame)
    BY <1>1 DEF Inner
  <2>4. t \in AllAmount(client'.subscribed, client.pending) <=> t \in AllAmount(client.subscribed, client.pending)
    BY <2>2, <2>3, FoldLocal
  <2>5. Queued(t) /\ (client.state = "identified" => Told(t))
    BY <1>3, <2>1 DEF Mirror
  <2> QED
    BY <1>2, <1>5, <2>2, <2>4, <2>5 DEF Queued, Told
<1> QED
  BY <1>7, <1>8, <1>9, <1>10, <1>11 DEF Mirror

LEMMA SendMirrors ==
  ASSUME ClientTypeOK, MirrorInv, NEW k \in Calls, SendCall(k) PROVE MirrorInv'
<1> SUFFICES ASSUME Whole' PROVE Mirror'
  BY DEF MirrorInv
<1>1. UNCHANGED <<loops, past>> /\ Whole /\ calls[k] # None /\ calls[k] \in Frame /\ client \in Inner
  BY DEF SendCall, Whole, ClientTypeOK
<1> DEFINE f == calls[k]
<1>2. Mirror
  BY <1>1 DEF MirrorInv
<1>3. calls' = [calls EXCEPT ![k] = None] /\ calls'[k] = None /\ \A j \in Calls : j # k => calls'[j] = calls[j]
  BY DEF SendCall, ClientTypeOK
<1>4. /\ f.op \in {"subscribe", "unsubscribe"}
      /\ \A t \in f.topics : t \in client.subscribed <=> f.op = "subscribe"
      /\ \A j \in Calls : j # k /\ calls[j] # None => calls[j].topics \cap f.topics = {}
  BY <1>1, <1>2 DEF Mirror, CallsDecide, CallsApart
<1>5. client.state = "identified" => Speaking(client.outgoing)
  BY <1>2 DEF Mirror, Resting, Stands, Speaking, ClientTypeOK, Loop
<1>6. client.state = client'.state /\ client.stopped = client'.stopped /\ client.outgoing = client'.outgoing
      /\ client.subscribed = client'.subscribed
  BY <1>1 DEF SendCall, Inner
<1>7. ASSUME NEW t, ~Awaited(t)' PROVE t \in f.topics \/ ~Awaited(t)
  BY <1>3, <1>7 DEF Awaited
<1>8. CASE client.state = "identified"
  <2>1. client.outgoing \in Conns /\ conns[client.outgoing] # None /\ client' = client
        /\ conns' = Sent(client.outgoing, f)
    BY <1>5, <1>8, ClientNone DEF Speaking, SendCall
  <2> DEFINE c == client.outgoing
  <2>2. /\ conns' \in [Conns -> Conn \cup {None}] /\ \A d \in Conns : d # c => conns'[d] = conns[d]
        /\ conns'[c] = [conns[c] EXCEPT !.frames = Append(@, f), !.told = Amounts(@, f)]
    <3>1. c \in Conns \cup {None} /\ c # None /\ conns[c] # None /\ f \in Frame
      BY <1>1, <2>1, ClientNone
    <3> HIDE DEF c, f
    <3>2. conns' = Sent(c, f)
      BY <2>1 DEF c, f
    <3>3. Sent(c, f) \in [Conns -> Conn \cup {None}] /\ \A d \in Conns : d # c => Sent(c, f)[d] = conns[d]
      BY <3>1, SentTypes
    <3>4. Sent(c, f)[c] = [conns[c] EXCEPT !.frames = Append(@, f), !.told = Amounts(@, f)]
      BY <3>1, SentTypes
    <3> QED
      BY <3>2, <3>3, <3>4
  <2>3. conns[c] \in Conn
    BY <2>1 DEF ClientTypeOK
  <2>4. conns'[c].told = Amounts(conns[c].told, f)
    BY <2>2, <2>3 DEF Conn
  <2>5. conns'[c] # None
    <3>1. conns'[c] \in Conn
      <4>1. Append(conns[c].frames, f) \in Seq(Frame)
        BY <1>1, <2>3 DEF Conn
      <4>2. Amounts(conns[c].told, f) \subseteq Topics
        <5>1. \A t : t \in Amounts(conns[c].told, f) => t \in Topics
          BY <1>1, <2>3, AmountsTo DEF Conn, Frame
        <5> QED
          BY <5>1
      <4> QED
        BY <2>2, <2>3, <4>1, <4>2 DEF Conn
    <3> QED
      BY <3>1, ClientRecords
  <2>6. ASSUME NEW l \in Loops, loops'[l] # None PROVE Stands(l)'
    BY <1>1, <1>2, <1>8, <2>1, <2>5, <2>6 DEF Mirror, Stands, Speaking
  <2>7. ASSUME NEW t \in Topics, ~Awaited(t)' PROVE Queued(t)' /\ Told(t)'
    <3>1. client.pending = <<>>
      BY <1>2, <1>8 DEF Mirror
    <3>2. Queued(t)'
      BY <2>1, <3>1, FoldEmpty DEF Queued
    <3>3. t \in conns'[c].told <=> IF t \in f.topics THEN f.op = "subscribe" ELSE t \in conns[c].told
      BY <1>1, <1>4, <2>4, AmountsTo
    <3>4. CASE t \in f.topics
      BY <1>4, <2>1, <3>2, <3>3, <3>4 DEF Told
    <3>5. CASE t \notin f.topics
      <4>1. Told(t)
        BY <1>2, <1>7, <1>8, <2>7, <3>5 DEF Mirror
      <4> QED
        BY <2>1, <3>2, <3>3, <3>5, <4>1 DEF Told
    <3> QED
      BY <3>4, <3>5
  <2> QED
    BY <1>1, <1>2, <1>3, <2>1, <2>6, <2>7 DEF Mirror, OneLoop, Resting, CallsApart, CallsDecide
<1>9. CASE client.state # "identified"
  <2>1. client' = [client EXCEPT !.pending = Append(@, f)] /\ conns' = conns
    BY <1>9 DEF SendCall
  <2>2. client'.pending = Append(client.pending, f) /\ client.pending \in Seq(Frame)
    BY <1>1, <2>1 DEF Inner
  <2>3. ASSUME NEW l \in Loops, loops'[l] # None PROVE Stands(l)'
    BY <1>1, <1>2, <1>6, <2>1, <2>3 DEF Mirror, Stands, Speaking
  <2>4. ASSUME NEW t \in Topics, ~Awaited(t)' PROVE Queued(t)'
    <3>1. t \in AllAmount(client.subscribed, client'.pending) <=>
            t \in Amounts(AllAmount(client.subscribed, client.pending), f)
      BY <1>1, <2>2, FoldAppend
    <3>2. t \in Amounts(AllAmount(client.subscribed, client.pending), f) <=>
            IF t \in f.topics THEN f.op = "subscribe" ELSE t \in AllAmount(client.subscribed, client.pending)
      BY <1>1, <1>4, AmountsTo
    <3>3. CASE t \in f.topics
      BY <1>4, <1>6, <3>1, <3>2, <3>3 DEF Queued
    <3>4. CASE t \notin f.topics
      <4>1. Queued(t)
        BY <1>2, <1>7, <2>4, <3>4 DEF Mirror
      <4> QED
        BY <1>6, <3>1, <3>2, <3>4, <4>1 DEF Queued
    <3> QED
      BY <3>3, <3>4
  <2> QED
    BY <1>1, <1>2, <1>3, <1>6, <1>9, <2>1, <2>3, <2>4 DEF Mirror, OneLoop, Resting, CallsApart, CallsDecide
<1> QED
  BY <1>8, <1>9

(* A loop that goes on, of which there is one.                             *)
LEMMA AloneAtWork ==
  ASSUME ClientTypeOK, Mirror, NEW l \in Loops, loops[l] # None, NEW y,
         loops' = [loops EXCEPT ![l] = y]
  PROVE  /\ \A m \in Loops : m # l => loops[m] = None /\ loops'[m] = None
         /\ loops'[l] = y /\ OneLoop'
BY DEF Mirror, OneLoop, ClientTypeOK

LEMMA StepMirrors ==
  ASSUME ClientTypeOK, MirrorInv, NEW l \in Loops, CheckStop(l) \/ Again(l) PROVE MirrorInv'
<1> SUFFICES ASSUME Whole' PROVE Mirror'
  BY DEF MirrorInv
<1>1. UNCHANGED <<calls, conns, past>> /\ Whole /\ loops[l] # None /\ loops[l] \in Loop /\ client \in Inner
  BY DEF CheckStop, Again, At, Whole, ClientTypeOK
<1>2. Mirror
  BY <1>1 DEF MirrorInv
<1>3. Stands(l)
  BY <1>1, <1>2 DEF Mirror
<1>4. \E y \in Loop : /\ loops' = [loops EXCEPT ![l] = y]
                      /\ \/ y.stage = "dial" /\ loops[l].stage = "check"
                         \/ y.stage = "again" /\ loops[l].stage = "after"
                         \/ y.stage = "check" /\ loops[l].stage = "again" /\ client'.state = "connecting"
  <2>1. CASE CheckStop(l)
    <3> DEFINE y == [stage |-> IF At(l, "check") THEN "dial" ELSE "again", conn |-> None]
    <3>1. y \in Loop
      BY DEF Loop
    <3>2. y.stage = IF At(l, "check") THEN "dial" ELSE "again"
      OBVIOUS
    <3>3. loops' = [loops EXCEPT ![l] = y]
      BY <1>3, <2>1 DEF CheckStop, Stands
    <3> HIDE DEF y
    <3> QED
      BY <2>1, <3>1, <3>2, <3>3 DEF CheckStop, At
  <2>2. CASE Again(l)
    <3> DEFINE y == [loops[l] EXCEPT !.stage = "check"]
    <3>1. loops' = [loops EXCEPT ![l] = y] /\ client'.state = "connecting"
      BY <1>1, <2>2 DEF Again, LoopAt, Inner
    <3>2. loops' \in [Loops -> Loop \cup {None}] /\ loops'[l] = [stage |-> "check", conn |-> loops[l].conn]
      BY <1>1, <2>2, LoopMoves DEF Again, At
    <3>3. loops'[l] \in Loop /\ loops'[l] = y
      <4>1. loops'[l] = y
        BY <3>1 DEF ClientTypeOK
      <4>2. loops[l].stage = "again" /\ loops[l].conn = None
        BY <1>1, <2>2, LoopIs DEF Again, At
      <4> QED
        BY <3>2, <4>1, <4>2 DEF Loop
    <3>4. y.stage = "check" /\ loops[l].stage = "again"
      BY <2>2, <3>2, <3>3 DEF Again, At
    <3> HIDE DEF y
    <3> QED
      BY <3>1, <3>3, <3>4
  <2> QED
    BY <2>1, <2>2
<1>5. PICK y \in Loop : /\ loops' = [loops EXCEPT ![l] = y]
                        /\ \/ y.stage = "dial" /\ loops[l].stage = "check"
                           \/ y.stage = "again" /\ loops[l].stage = "after"
                           \/ y.stage = "check" /\ loops[l].stage = "again" /\ client'.state = "connecting"
  BY <1>4
<1>6. /\ client'.state = client.state \/ client'.state = "connecting"
      /\ client'.state = client.state \/ y.stage = "check"
      /\ client'.stopped = client.stopped /\ client'.subscribed = client.subscribed
      /\ client'.pending = client.pending /\ client'.outgoing = client.outgoing
  BY <1>1, <1>5 DEF CheckStop, Again, Inner, At
<1>7. loops'[l] = y /\ loops'[l] # None /\ OneLoop' /\ \A m \in Loops : m # l => loops'[m] = None
  BY <1>1, <1>2, <1>5, AloneAtWork, ClientRecords
<1>8. Stands(l)'
  BY <1>3, <1>5, <1>6, <1>7 DEF Stands
<1>9. client.state # "identified" /\ client'.state # "identified"
  BY <1>3, <1>5, <1>6 DEF Stands
<1>10. \A t \in Topics : ~Awaited(t)' => Queued(t)'
  BY <1>1, <1>2, <1>6 DEF Mirror, Awaited, Queued
<1> QED
  BY <1>1, <1>2, <1>6, <1>7, <1>8, <1>9, <1>10 DEF Mirror, Resting, CallsApart, CallsDecide

(* A step of the one loop is right if it leaves its own line right, and    *)
(* what is queued.                                                         *)
LEMMA LoopMirrors ==
  ASSUME ClientTypeOK, Mirror, NEW l \in Loops, loops[l] # None, NEW y \in Loop,
         loops' = [loops EXCEPT ![l] = y], UNCHANGED calls, Stands(l)',
         client'.subscribed = client.subscribed,
         \/ client'.pending = client.pending
         \/ client'.pending = <<>>,
         client'.state = "identified" =>
           client'.pending = <<>> /\ \A t \in Topics : ~Awaited(t) => Told(t)',
         client'.state # "identified" => client'.pending = client.pending
  PROVE  Mirror'
<1>1. loops'[l] = y /\ loops'[l] # None /\ OneLoop' /\ \A m \in Loops : m # l => loops'[m] = None
  BY AloneAtWork, ClientRecords
<1>2. Resting' /\ CallsApart' /\ CallsDecide' /\ \A t : Awaited(t)' <=> Awaited(t)
  BY <1>1 DEF Mirror, Resting, CallsApart, CallsDecide, Awaited
<1>3. \A t \in Topics : ~Awaited(t) => Queued(t)'
  BY FoldEmpty DEF Mirror, Queued
<1> QED
  BY <1>1, <1>2, <1>3 DEF Mirror

LEMMA AwayMirrors ==
  ASSUME ClientTypeOK, MirrorInv, NEW l \in Loops, loops[l] # None, NEW y \in Loop,
         loops' = [loops EXCEPT ![l] = y], UNCHANGED <<calls>>,
         past'.cut = past.cut, past'.mixed = past.mixed,
         y.stage = "after", client'.state # "identified", client'.stopped = client.stopped,
         client'.subscribed = client.subscribed, client'.pending = client.pending
  PROVE  MirrorInv'
<1> SUFFICES ASSUME Whole' PROVE Mirror'
  BY DEF MirrorInv
<1>1. Mirror
  BY DEF MirrorInv, Whole
<1>2. loops'[l] = y /\ Stands(l)
  BY <1>1 DEF Mirror, ClientTypeOK
<1>3. Stands(l)'
  BY <1>2 DEF Stands
<1> QED
  BY <1>1, <1>3, LoopMirrors

LEMMA DialMirrors ==
  ASSUME ClientTypeOK, MirrorInv, NEW l \in Loops, Dial(l) PROVE MirrorInv'
<1>1. At(l, "dial") /\ UNCHANGED calls /\ loops[l] # None /\ loops[l] \in Loop /\ client \in Inner /\ past \in Past
  BY DEF Dial, At, ClientTypeOK
<1>2. CASE Breaks /\ LoopAt(l, "after") /\ UNCHANGED <<client, conns>>
  <2> DEFINE y == [loops[l] EXCEPT !.stage = "after"]
  <2>1. loops' = [loops EXCEPT ![l] = y]
    BY <1>2 DEF LoopAt
  <2>2. y.stage = "after" /\ y \in Loop
    <3>1. loops[l].conn = None
      BY <1>1, LoopIs DEF At
    <3>2. loops'[l] = [stage |-> "after", conn |-> loops[l].conn] /\ loops'[l] = y
      BY <1>1, <1>2, <2>1, LoopMoves DEF ClientTypeOK
    <3> QED
      BY <3>1, <3>2 DEF Loop
  <2>3. past'.cut = past.cut /\ past'.mixed = past.mixed
    BY <1>1, <1>2 DEF Breaks, Past
  <2> HIDE DEF y
  <2>4. CASE Whole
    <3>1. client.state # "identified"
      BY <1>1, <2>4 DEF MirrorInv, Mirror, Stands, At
    <3> QED
      BY <1>1, <1>2, <2>1, <2>2, <2>3, <3>1, AwayMirrors
  <2>5. CASE ~Whole
    BY <2>3, <2>5 DEF MirrorInv, Whole
  <2> QED
    BY <2>4, <2>5
<1>3. CASE \E c \in Conns : Unused(c)
          /\ conns' = [conns EXCEPT ![c] = Opened]
          /\ client' = [client EXCEPT !.state = "connected", !.outgoing = c]
          /\ loops' = [loops EXCEPT ![l] = [stage |-> "hello", conn |-> c]]
          /\ UNCHANGED past
  <2>1. PICK c \in Conns :
          /\ conns' = [conns EXCEPT ![c] = Opened]
          /\ client' = [client EXCEPT !.state = "connected", !.outgoing = c]
          /\ loops' = [loops EXCEPT ![l] = [stage |-> "hello", conn |-> c]]
          /\ UNCHANGED past
    BY <1>3
  <2> SUFFICES ASSUME Whole' PROVE Mirror'
    BY DEF MirrorInv
  <2>2. Mirror /\ Stands(l)
    BY <1>1, <2>1 DEF MirrorInv, Whole, Mirror
  <2> DEFINE y == [stage |-> "hello", conn |-> c]
  <2>3. y \in Loop /\ y.stage = "hello" /\ y.conn = c /\ loops' = [loops EXCEPT ![l] = y]
    BY <2>1 DEF Loop
  <2> HIDE DEF y
  <2>4. loops'[l] = y
    BY <2>3 DEF ClientTypeOK
  <2>5. /\ client'.state = "connected" /\ client'.outgoing = c /\ client'.stopped = client.stopped
        /\ client'.subscribed = client.subscribed /\ client'.pending = client.pending
    BY <1>1, <2>1 DEF Inner
  <2>6. conns'[c] = Opened
    BY <2>1 DEF ClientTypeOK
  <2>7. Speaking(c)' /\ conns'[c].told = {}
    BY <2>5, <2>6, OpenedIsConn DEF Speaking
  <2>8. Stands(l)'
    BY <2>2, <2>3, <2>4, <2>5, <2>7 DEF Stands
  <2> QED
    BY <1>1, <2>2, <2>3, <2>5, <2>8, LoopMirrors
<1> QED
  BY <1>2, <1>3 DEF Dial

LEMMA HelloMirrors ==
  ASSUME ClientTypeOK, MirrorInv, NEW l \in Loops, Hello(l) PROVE MirrorInv'
<1>1. /\ At(l, "hello") /\ UNCHANGED <<client, calls, past>> /\ loops[l] # None /\ loops[l] \in Loop
      /\ loops[l].stage = "hello" /\ loops[l].conn \in Conns
  <2>1. At(l, "hello") /\ UNCHANGED <<client, calls, past>> /\ loops[l] # None /\ loops[l] \in Loop
    BY DEF Hello, At, ClientTypeOK
  <2> QED
    BY <2>1, LoopIs DEF At
<1>7. PICK c \in Conns : c = loops[l].conn
  BY <1>1
<1> SUFFICES ASSUME Whole' PROVE Mirror'
  BY DEF MirrorInv
<1>2. Mirror /\ Stands(l)
  BY <1>1 DEF MirrorInv, Whole, Mirror
<1>3. client.state = "connected" /\ Speaking(c) /\ conns[c].told = {}
  BY <1>1, <1>2, <1>7 DEF Stands
<1>4. ASSUME NEW stage \in {"flush", "after"}, LoopAt(l, stage), stage = "flush" => Speaking(c)' /\ conns'[c].told = {}
      PROVE  Mirror'
  <2> DEFINE y == [loops[l] EXCEPT !.stage = stage]
  <2>1. loops' = [loops EXCEPT ![l] = y]
    BY <1>4 DEF LoopAt
  <2>2. loops'[l] = y /\ y = [stage |-> stage, conn |-> c]
    BY <1>1, <1>4, <1>7, <2>1, LoopMoves DEF ClientTypeOK
  <2>3. y \in Loop /\ y.stage = stage /\ y.conn = c
    BY <1>1, <1>4, <2>2 DEF Loop
  <2> HIDE DEF y
  <2>4. Stands(l)'
    BY <1>1, <1>2, <1>3, <1>4, <2>2, <2>3 DEF Stands
  <2> QED
    BY <1>1, <1>2, <1>3, <2>1, <2>3, <2>4, LoopMirrors
<1>5. CASE conns' = Sent(c, [op |-> "identify", topics |-> {}]) /\ LoopAt(l, "flush")
  <2>1. PICK f \in Frame : f = [op |-> "identify", topics |-> {}]
    BY IdentifyIsFrame, Zenon
  <2>2. f.op = "identify" /\ conns' = Sent(c, f)
    BY <1>5, <2>1
  <2>3. c \in Conns \cup {None} /\ c # None /\ conns[c] # None /\ conns[c] \in Conn
    BY <1>1, <1>3, ClientNone DEF Speaking, ClientTypeOK
  <2> DEFINE new == [conns[c] EXCEPT !.frames = Append(@, f), !.told = Amounts(@, f)]
  <2>4. conns'[c] = new /\ conns' \in [Conns -> Conn \cup {None}]
    BY <2>2, <2>3, SentTypes
  <2>5. new.told = Amounts(conns[c].told, f)
    BY <2>3 DEF Conn
  <2>6. new # None
    <3>1. Append(conns[c].frames, f) \in Seq(Frame)
      BY <2>3 DEF Conn
    <3>2. Amounts(conns[c].told, f) = conns[c].told
      BY <2>2 DEF Amounts
    <3>3. conns[c].told \subseteq Topics
      BY <2>3 DEF Conn
    <3>4. new \in Conn
      BY <2>3, <3>1, <3>2, <3>3 DEF Conn
    <3> QED
      BY <3>4, ClientRecords
  <2>7. conns'[c].told = {}
    BY <1>3, <2>2, <2>4, <2>5 DEF Amounts
  <2> HIDE DEF new
  <2>8. Speaking(c)'
    <3>1. conns'[c] # None
      BY <2>4, <2>6
    <3> QED
      BY <1>1, <1>3, <3>1 DEF Speaking
  <2>9. LoopAt(l, "flush")
    BY <1>5
  <2> QED
    BY <1>4, <2>7, <2>8, <2>9
<1>6. CASE LoopAt(l, "after")
  BY <1>4, <1>6
<1> QED
  BY <1>5, <1>6, <1>7 DEF Hello

LEMMA FlushMirrors ==
  ASSUME ClientTypeOK, MirrorInv, NEW l \in Loops, Flush(l) PROVE MirrorInv'
<1>1. /\ At(l, "flush") /\ UNCHANGED calls /\ loops[l] # None /\ loops[l] \in Loop
      /\ loops[l].stage = "flush" /\ loops[l].conn \in Conns /\ client \in Inner /\ past \in Past
  <2>1. At(l, "flush") /\ UNCHANGED calls /\ loops[l] # None /\ loops[l] \in Loop
        /\ client \in Inner /\ past \in Past
    BY DEF Flush, At, ClientTypeOK
  <2> QED
    BY <2>1, LoopIs DEF At
<1>2. PICK c \in Conns : c = loops[l].conn
  BY <1>1
<1>3. past' = [past EXCEPT !.again = client.subscribed]
      /\ client' = [client EXCEPT !.state = "identified", !.pending = <<>>] /\ LoopAt(l, "pump")
  BY DEF Flush
<1>4. past'.cut = past.cut /\ past'.mixed = past.mixed
  BY <1>1, <1>3 DEF Past
<1>5. /\ client'.state = "identified" /\ client'.pending = <<>> /\ client'.outgoing = client.outgoing
      /\ client'.subscribed = client.subscribed /\ client'.stopped = client.stopped
  BY <1>1, <1>3 DEF Inner
<1> SUFFICES ASSUME Whole' PROVE Mirror'
  BY DEF MirrorInv
<1>6. Mirror /\ Stands(l)
  BY <1>1, <1>4 DEF MirrorInv, Whole, Mirror
<1>7. /\ client.state = "connected" /\ client.outgoing = c /\ conns[c] # None /\ conns[c] \in Conn
      /\ conns[c].told = {}
  BY <1>1, <1>2, <1>6 DEF Stands, Speaking, ClientTypeOK
<1> DEFINE again == [op |-> "subscribe", topics |-> client.subscribed]
           first == IF client.subscribed = {} THEN <<>> ELSE <<again>>
<1>8. PICK fs \in Seq(Frame) : fs = first \o client.pending
  BY AgainAreFrames, Zenon
<1>9. conns' = SentAll(c, fs)
  BY <1>7, <1>8 DEF Flush
<1>10. c \in Conns \cup {None} /\ c # None
  BY ClientNone
<1>11. conns'[c] = [conns[c] EXCEPT !.frames = @ \o fs, !.told = AllAmount(@, fs)]
  BY <1>7, <1>9, <1>10, SentAllTypes
<1>12. conns'[c].told = AllAmount({}, fs)
  BY <1>7, <1>11 DEF Conn
<1>13. conns'[c] # None
  <2>1. conns[c].frames \o fs \in Seq(Frame)
    BY <1>7 DEF Conn
  <2>2. AllAmount(conns[c].told, fs) \subseteq Topics
    BY <1>7, FoldWithin
  <2>3. [conns[c] EXCEPT !.frames = @ \o fs, !.told = AllAmount(@, fs)] \in Conn
    BY <1>7, <2>1, <2>2 DEF Conn
  <2> QED
    BY <1>11, <2>3, ClientRecords
<1>14. \A t : t \in AllAmount({}, fs) <=> t \in AllAmount(client.subscribed, client.pending)
  <2>1. client.pending \in Seq(Frame) /\ client.subscribed \subseteq Topics
    BY <1>1 DEF Inner
  <2>2. CASE client.subscribed = {}
    <3>1. fs = client.pending
      BY <1>8, <2>1, <2>2
    <3> QED
      BY <2>2, <3>1
  <2>3. CASE client.subscribed # {}
    <3>1. PICK f \in Frame : f = again
      <4>1. again \in Frame
        BY <2>1 DEF Frame
      <4> QED
        BY <4>1, Zenon
    <3>2. fs = <<f>> \o client.pending
      BY <1>8, <2>3, <3>1
    <3>3. f.op = "subscribe" /\ f.topics = client.subscribed
      BY <3>1
    <3>4. \A t : t \in Amounts({}, f) <=> t \in client.subscribed
      BY <3>3 DEF Amounts
    <3> HIDE DEF again
    <3> SUFFICES ASSUME NEW t
                 PROVE  t \in AllAmount({}, fs) <=> t \in AllAmount(client.subscribed, client.pending)
      OBVIOUS
    <3>5. t \in AllAmount({}, fs) <=> t \in AllAmount(Amounts({}, f), client.pending)
      BY <2>1, <3>2, FoldPrefix
    <3>6. t \in AllAmount(Amounts({}, f), client.pending) <=> t \in AllAmount(client.subscribed, client.pending)
      BY <2>1, <3>4, FoldLocal
    <3> QED
      BY <3>5, <3>6
  <2> QED
    BY <2>2, <2>3
<1>15. \A t \in Topics : ~Awaited(t) => Told(t)'
  <2> SUFFICES ASSUME NEW t \in Topics, ~Awaited(t)
               PROVE  t \in conns'[c].told <=> t \in client.subscribed
    BY <1>5, <1>7 DEF Told
  <2>1. t \in AllAmount(client.subscribed, client.pending) <=> t \in client.subscribed
    BY <1>6 DEF Mirror, Queued
  <2> QED
    BY <1>12, <1>14, <2>1
<1> DEFINE y == [loops[l] EXCEPT !.stage = "pump"]
<1>16. loops' = [loops EXCEPT ![l] = y]
  BY <1>3 DEF LoopAt
<1>17. loops'[l] = y /\ y = [stage |-> "pump", conn |-> c]
  BY <1>1, <1>2, <1>3, <1>16, LoopMoves DEF ClientTypeOK
<1>18. y \in Loop /\ y.stage = "pump" /\ y.conn = c
  BY <1>17 DEF Loop
<1> HIDE DEF y
<1>19. Speaking(c)'
  BY <1>5, <1>7, <1>13 DEF Speaking
<1>20. Stands(l)'
  BY <1>5, <1>6, <1>17, <1>18, <1>19 DEF Stands
<1> QED
  BY <1>1, <1>5, <1>6, <1>15, <1>16, <1>18, <1>20, LoopMirrors

LEMMA PumpMirrors ==
  ASSUME ClientTypeOK, MirrorInv, NEW l \in Loops, PumpEnds(l) PROVE MirrorInv'
<1>1. At(l, "pump") /\ UNCHANGED <<calls, past>> /\ loops[l] # None /\ loops[l] \in Loop /\ client \in Inner
      /\ LoopAt(l, "after")
  BY DEF PumpEnds, At, ClientTypeOK
<1> DEFINE y == [loops[l] EXCEPT !.stage = "after"]
<1>2. loops' = [loops EXCEPT ![l] = y]
  BY <1>1 DEF LoopAt
<1>3. y.stage = "after" /\ y \in Loop
  <2>1. loops'[l] = [stage |-> "after", conn |-> loops[l].conn] /\ loops'[l] = y
    BY <1>1, <1>2, LoopMoves DEF ClientTypeOK
  <2>2. loops[l].conn \in Conns
    BY <1>1, LoopIs DEF At
  <2> QED
    BY <2>1, <2>2 DEF Loop
<1>4. /\ client'.state = "disconnected" /\ client'.stopped = client.stopped
      /\ client'.subscribed = client.subscribed /\ client'.pending = client.pending
  BY <1>1 DEF PumpEnds, Inner
<1> HIDE DEF y
<1> QED
  BY <1>1, <1>2, <1>3, <1>4, AwayMirrors

LEMMA ClientMirrors ==
  ASSUME ClientTypeOK, MirrorInv, [ClientMoves]_clientVars PROVE MirrorInv'
<1>1. CASE UNCHANGED clientVars
  BY <1>1 DEF clientVars, MirrorInv, Whole, Mirror, OneLoop, Resting, Stands, Speaking, CallsApart,
              CallsDecide, Queued, Told, Awaited
<1>2. CASE ClientMoves
  <2>1. ASSUME NEW k \in Calls, NEW f \in Frame, Subscribe(k, f) PROVE MirrorInv'
    BY <2>1, CallMirrors DEF Subscribe
  <2>2. ASSUME NEW l \in Loops, LoopStep(l) PROVE MirrorInv'
    BY <2>2, StepMirrors, DialMirrors, HelloMirrors, FlushMirrors, PumpMirrors DEF LoopStep
  <2> QED
    BY <1>2, <2>1, <2>2, AppMirrors, CallMirrors, SendMirrors, GatewayMirrors DEF ClientMoves, ClientNext
<1> QED
  BY <1>1, <1>2

(* Whatever is declared of the client has its type, alone and in the       *)
(* company of a page.                                                      *)
THEOREM ClientSafe == ClientSpec => [](ClientTypeOK /\ FramesMirror)
<1> DEFINE Inv == ClientTypeOK /\ MirrorInv
<1>1. ClientInit => Inv
  BY ClientStarts, MirrorStarts
<1>2. Inv /\ [ClientNext]_clientVars => Inv'
  BY ClientTypes, ClientMirrors DEF ClientMoves
<1>3. Inv => ClientTypeOK /\ FramesMirror
  BY MirrorSays
<1> HIDE DEF Inv
<1> QED
  BY <1>1, <1>2, <1>3, PTL DEF ClientSpec

-----------------------------------------------------------------------------
(* Enumerations by ascending key.                                          *)
Sorted(e, S, key) ==
  \A i, j \in 1..Cardinality(S) : i < j => key[e[i]] <= key[e[j]]

LEMMA Greatest ==
  ASSUME NEW B \in Nat, NEW S, S # {}, NEW key, \A x \in S : key[x] \in 0..B
  PROVE  \E x \in S : \A y \in S : key[y] <= key[x]
<1> DEFINE T == {B - key[x] : x \in S}
<1>1. T \in SUBSET Nat /\ T # {}
  OBVIOUS
<1>2. PICK n \in T : \A m \in T : n <= m
  <2> HIDE DEF T
  <2> QED
    BY <1>1, Least
<1>3. PICK x \in S : n = B - key[x]
  BY <1>2
<1>4. ASSUME NEW y \in S PROVE key[y] <= key[x]
  <2>1. n <= B - key[y]
    BY <1>2
  <2> QED
    BY <1>3, <2>1
<1> QED
  BY <1>4

(* Finitely many can be put in order, the greatest behind the others.      *)
LEMMA SortExists ==
  ASSUME NEW B \in Nat, NEW S, IsFiniteSet(S), NEW key, \A x \in S : key[x] \in 0..B
  PROVE  \E e \in Enumerations(S) : Sorted(e, S, key)
<1> DEFINE Can(A) == \E e \in Enumerations(A) : Sorted(e, A, key)
           Good == {n \in Nat : \A A \in SUBSET S : Cardinality(A) = n => Can(A)}
<1>1. 0 \in Good
  <2> SUFFICES ASSUME NEW A \in SUBSET S, Cardinality(A) = 0 PROVE Can(A)
    OBVIOUS
  <2>1. [i \in 1..0 |-> 0] \in Enumerations(A)
    BY DEF Enumerations
  <2>2. Sorted([i \in 1..0 |-> 0], A, key)
    BY DEF Sorted
  <2> QED
    BY <2>1, <2>2
<1>2. ASSUME NEW m \in Nat, m \in Good PROVE m + 1 \in Good
  <2>1. PICK n \in Nat : n = m + 1 /\ n - 1 = m /\ n # 0
    OBVIOUS
  <2> SUFFICES ASSUME NEW A \in SUBSET S, Cardinality(A) = n PROVE Can(A)
    BY <2>1
  <2>2. IsFiniteSet(A) /\ A # {}
    BY <2>1, FS_Subset, FS_EmptySet
  <2>3. PICK x \in A : \A y \in A : key[y] <= key[x]
    BY <2>2, Greatest
  <2> DEFINE R == A \ {x}
  <2>4. Cardinality(R) = m
    BY <2>1, <2>2, <2>3, FS_RemoveElement
  <2>5. PICK e \in Enumerations(R) : Sorted(e, R, key)
    BY <1>2, <2>4
  <2> DEFINE f == [i \in 1..n |-> IF i = n THEN x ELSE e[i]]
  <2>6. /\ \A i \in 1..m : e[i] \in A /\ e[i] # x
        /\ \A i, j \in 1..m : e[i] = e[j] => i = j
        /\ \A i, j \in 1..m : i < j => key[e[i]] <= key[e[j]]
    BY <2>4, <2>5 DEF Enumerations, Sorted
  <2>7. \A i \in 1..n : i = n \/ i \in 1..m
    BY <2>1
  <2>8. f \in Enumerations(A)
    BY <2>3, <2>6, <2>7 DEF Enumerations
  <2>9. Sorted(f, A, key)
    <3> SUFFICES ASSUME NEW i \in 1..n, NEW j \in 1..n, i < j PROVE key[f[i]] <= key[f[j]]
      BY DEF Sorted
    <3>1. i \in 1..m /\ f[i] = e[i]
      BY <2>1
    <3>2. CASE j = n
      BY <2>3, <2>6, <3>1, <3>2
    <3>3. CASE j # n
      <4>1. j \in 1..m /\ f[j] = e[j]
        BY <2>7, <3>3
      <4> QED
        BY <2>6, <3>1, <4>1
    <3> QED
      BY <3>2, <3>3
  <2> QED
    BY <2>8, <2>9
<1>3. Cardinality(S) \in Good
  <2> HIDE DEF Good
  <2> QED
    BY <1>1, <1>2, Counting, FS_CardinalityType
<1> QED
  BY <1>3

LEMMA AscendingSorts ==
  ASSUME NEW B \in Nat, NEW S, IsFiniteSet(S), NEW key, \A x \in S : key[x] \in 0..B
  PROVE  /\ Ascending(S, key) \in Enumerations(S)
         /\ Sorted(Ascending(S, key), S, key)
BY SortExists DEF Ascending, Sorted

(* An enumeration leaves nobody out.                                       *)
LEMMA EnumerationOnto ==
  ASSUME NEW S, IsFiniteSet(S), NEW e \in Enumerations(S)
  PROVE  /\ Cardinality(S) \in Nat /\ e \in [1..Cardinality(S) -> S]
         /\ e \in Seq(S) /\ Len(e) = Cardinality(S) /\ DOMAIN e = 1..Cardinality(S)
         /\ \A i, j \in DOMAIN e : e[i] = e[j] => i = j
         /\ ToSet(e) = S
<1> DEFINE n == Cardinality(S)
<1>1. n \in Nat
  BY FS_CardinalityType
<1>2. e \in [1..n -> S] /\ \A i, j \in 1..n : e[i] = e[j] => i = j
  BY DEF Enumerations
<1>3. e \in Injection(1..n, S)
  BY <1>2 DEF Injection, IsInjective
<1>4. Cardinality(1..n) = n
  BY <1>1, FS_Interval
<1>5. e \in Surjection(1..n, S)
  BY <1>3, <1>4, FS_Injection
<1>6. \A x \in S : \E i \in 1..n : e[i] = x
  BY <1>5 DEF Surjection
<1>7. e \in Seq(S) /\ Len(e) = n /\ DOMAIN e = 1..n
  BY <1>1, <1>2
<1>8. ToSet(e) = S
  BY <1>2, <1>6, <1>7 DEF ToSet
<1> QED
  BY <1>1, <1>2, <1>7, <1>8

(* What is picked from a sequence keeps its order.                         *)
PickedBy(s, S, o, q) ==
  /\ q \in Nat /\ q = Cardinality(S) /\ o \in [1..q -> S]
  /\ Picked(s, S) = [n \in 1..q |-> s[o[n]]] /\ Picked(s, S) \in Seq({s[i] : i \in S})
  /\ \A m, n \in 1..q : o[m] = o[n] => m = n
  /\ \A m, n \in 1..q : m < n => o[m] < o[n]
  /\ \A i \in S : \E n \in 1..q : o[n] = i

LEMMA PickedIs ==
  ASSUME NEW s, NEW z \in Nat, NEW S \in SUBSET (1..z)
  PROVE  \E o, q : PickedBy(s, S, o, q)
<1> DEFINE key == [i \in S |-> i]
           o == Ascending(S, key)
           q == Cardinality(S)
<1>1. IsFiniteSet(S)
  <2>1. IsFiniteSet(1..z)
    BY FS_Interval
  <2> QED
    BY <2>1, FS_Subset
<1>2. \A i \in S : key[i] \in 0..z /\ key[i] = i
  OBVIOUS
<1>3. o \in Enumerations(S) /\ Sorted(o, S, key)
  <2> HIDE DEF key
  <2> QED
    BY <1>1, <1>2, AscendingSorts
<1>4. Picked(s, S) = [n \in 1..q |-> s[o[n]]]
  BY DEF Picked
<1> HIDE DEF o, key
<1>5. /\ q \in Nat /\ o \in [1..q -> S] /\ DOMAIN o = 1..q /\ ToSet(o) = S
      /\ \A m, n \in 1..q : o[m] = o[n] => m = n
  BY <1>1, <1>3, EnumerationOnto
<1>6. ASSUME NEW m \in 1..q, NEW n \in 1..q, m < n PROVE o[m] < o[n]
  <2>0. o[m] \in S /\ o[n] \in S
    BY <1>5
  <2>3. key[o[m]] <= key[o[n]]
    BY <1>3, <1>6, Zenon DEF Sorted
  <2>1. o[m] \in S /\ o[n] \in S /\ key[o[m]] <= key[o[n]]
    BY <2>0, <2>3
  <2>4. o[m] # o[n]
    <3>1. m # n
      BY <1>5, <1>6
    <3> QED
      BY <1>5, <3>1
  <2>5. \A i \in S : i \in Nat
    OBVIOUS
  <2>2. o[m] \in Nat /\ o[n] \in Nat /\ o[m] <= o[n] /\ o[m] # o[n]
    BY <1>2, <2>1, <2>4, <2>5
  <2> QED
    BY <2>2
<1>7. \A i \in S : \E n \in 1..q : o[n] = i
  BY <1>5 DEF ToSet
<1>8. Picked(s, S) \in Seq({s[i] : i \in S})
  <2> DEFINE V == {s[i] : i \in S}
             t == [n \in 1..q |-> s[o[n]]]
  <2>1. \A n \in 1..q : s[o[n]] \in V
    BY <1>5
  <2> HIDE DEF V
  <2>2. t \in [1..q -> V]
    BY <2>1
  <2> HIDE DEF t
  <2>3. t \in Seq(V)
    BY <1>5, <2>2
  <2> QED
    BY <1>4, <2>3 DEF t, V
<1>9. \A m, n \in 1..q : m < n => o[m] < o[n]
  BY <1>6
<1>10. q = Cardinality(S)
  OBVIOUS
<1> HIDE DEF q
<1>11. PickedBy(s, S, o, q)
  BY <1>4, <1>5, <1>7, <1>8, <1>9, <1>10 DEF PickedBy
<1> QED
  BY <1>11

-----------------------------------------------------------------------------
(* The orders of the sidebar.                                              *)
Once(ids) == \A i, j \in DOMAIN ids : ids[i] = ids[j] => i = j

(* What is dealt out is what there was, each once.                         *)
DealtBy(rws, ids, o) ==
  o \in [DOMAIN ids -> DOMAIN ids] /\ Once(o) /\ Dealt(rws, ids) = [i \in DOMAIN ids |-> PlaceIn(rws, ids[o[i]])]

LEMMA DealtIs ==
  ASSUME NEW T, NEW ids \in Seq(T), NEW rws, \A i \in DOMAIN ids : PlaceIn(rws, ids[i]) \in Place
  PROVE  \E o : DealtBy(rws, ids, o)
<1> DEFINE n == Len(ids)
           D == 1..n
           was == [i \in D |-> PlaceIn(rws, ids[i])]
           o == Ascending(D, was)
<1>1. n \in Nat /\ DOMAIN ids = D /\ IsFiniteSet(D) /\ Cardinality(D) = n
  <2>1. n \in Nat /\ DOMAIN ids = D
    OBVIOUS
  <2>2. IsFiniteSet(1..n) /\ Cardinality(1..n) = n
    BY <2>1, FS_Interval
  <2> QED
    BY <2>1, <2>2
<1>2. \A i \in D : was[i] \in 0..MaxPlace
  <2>1. \A i \in D : PlaceIn(rws, ids[i]) \in Place
    BY <1>1, Zenon
  <2> QED
    BY <2>1 DEF Place
<1>3. o \in Enumerations(D)
  <2> HIDE DEF was, D
  <2> QED
    BY <1>1, <1>2, AscendingSorts, SidebarBounds
<1>4. Dealt(rws, ids) = [i \in D |-> was[o[i]]]
  BY <1>1 DEF Dealt
<1> HIDE DEF o, n
<1>5. o \in [D -> D] /\ \A i, j \in D : o[i] = o[j] => i = j
  BY <1>1, <1>3 DEF Enumerations
<1>6. Dealt(rws, ids) = [i \in D |-> PlaceIn(rws, ids[o[i]])]
  BY <1>4, <1>5
<1> HIDE DEF D
<1> QED
  BY <1>1, <1>5, <1>6 DEF DealtBy, Once

LEMMA DealtTypes ==
  ASSUME NEW T, NEW ids \in Seq(T), NEW rws, \A i \in DOMAIN ids : PlaceIn(rws, ids[i]) \in Place
  PROVE  DOMAIN Dealt(rws, ids) = DOMAIN ids /\ \A i \in DOMAIN ids : Dealt(rws, ids)[i] \in Place
<1>1. PICK o : DealtBy(rws, ids, o)
  BY DealtIs
<1> QED
  BY <1>1 DEF DealtBy

LEMMA DealtAlike ==
  ASSUME NEW ids, NEW a, NEW b, \A i \in DOMAIN ids : PlaceIn(a, ids[i]) = PlaceIn(b, ids[i])
  PROVE  Dealt(a, ids) = Dealt(b, ids)
<1>1. [i \in DOMAIN ids |-> PlaceIn(a, ids[i])] = [i \in DOMAIN ids |-> PlaceIn(b, ids[i])]
  OBVIOUS
<1> QED
  BY <1>1 DEF Dealt

LEMMA IndexIs ==
  ASSUME NEW ids, NEW x \in ToSet(ids)
  PROVE  IndexIn(ids, x) \in DOMAIN ids /\ ids[IndexIn(ids, x)] = x
BY DEF IndexIn, ToSet

(* The moves of a list: of what changes, each once.                        *)
Changed(rws, ids, leaving) == {i \in DOMAIN ids : ~Staying(rws, ids, i) \/ ids[i] \in leaving}
MoveOf(rws, ids, leaving, cat, i) ==
  [id |-> ids[i], place |-> IF Staying(rws, ids, i) THEN None ELSE Dealt(rws, ids)[i],
   moved |-> ids[i] \in leaving, cat |-> cat, row |-> None]

LEMMA MovingIs ==
  ASSUME NEW T, NEW ids \in Seq(T), NEW rws, NEW leaving, NEW cat
  PROVE  LET todo == Moving(rws, ids, leaving, cat)
         IN /\ Len(todo) \in Nat /\ DOMAIN todo = 1..Len(todo)
            /\ todo = [n \in 1..Len(todo) |-> todo[n]]
            /\ \A n \in DOMAIN todo : \E i \in Changed(rws, ids, leaving) :
                 todo[n] = MoveOf(rws, ids, leaving, cat, i)
            /\ \A i \in Changed(rws, ids, leaving) : \E n \in DOMAIN todo :
                 todo[n] = MoveOf(rws, ids, leaving, cat, i)
            /\ \A m, n \in DOMAIN todo : Once(ids) /\ todo[m].id = todo[n].id => m = n
<1> DEFINE todo == Moving(rws, ids, leaving, cat)
           S == Changed(rws, ids, leaving)
           f == [i \in DOMAIN ids |-> MoveOf(rws, ids, leaving, cat, i)]
<1>1. S \in SUBSET (1..Len(ids)) /\ Len(ids) \in Nat
  BY DEF Changed
<1>2. todo = Picked(f, S)
  BY DEF Moving, Changed, MoveOf
<1>3. PICK o, q : PickedBy(f, S, o, q)
  BY <1>1, PickedIs
<1>4. /\ q \in Nat /\ o \in [1..q -> S] /\ todo = [n \in 1..q |-> f[o[n]]] /\ todo \in Seq({f[i] : i \in S})
      /\ \A m, n \in 1..q : o[m] = o[n] => m = n
      /\ \A i \in S : \E n \in 1..q : o[n] = i
  BY <1>2, <1>3, Zenon DEF PickedBy
<1> HIDE DEF todo
<1>5. DOMAIN todo = 1..q /\ Len(todo) = q
  BY <1>4
<1>6. \A n \in 1..q : o[n] \in S /\ o[n] \in DOMAIN ids /\ todo[n] = MoveOf(rws, ids, leaving, cat, o[n])
  BY <1>1, <1>4
<1> HIDE DEF S, f
<1>60. \A i : MoveOf(rws, ids, leaving, cat, i).id = ids[i]
  BY DEF MoveOf
<1>7. \A i \in S : \E n \in 1..q : todo[n] = MoveOf(rws, ids, leaving, cat, i)
  BY <1>4, <1>6
<1>8. todo = [n \in 1..q |-> todo[n]]
  BY <1>4
<1>9. ASSUME Once(ids), NEW m \in 1..q, NEW n \in 1..q, todo[m].id = todo[n].id PROVE m = n
  <2>1. todo[m].id = ids[o[m]] /\ todo[n].id = ids[o[n]] /\ o[m] \in DOMAIN ids /\ o[n] \in DOMAIN ids
    BY <1>6, <1>60
  <2>2. o[m] = o[n]
    BY <1>9, <2>1, Zenon DEF Once
  <2> QED
    BY <1>4, <2>2
<1>10. Len(todo) \in Nat /\ DOMAIN todo = 1..Len(todo) /\ todo = [n \in 1..Len(todo) |-> todo[n]]
  BY <1>4, <1>5, <1>8
<1>11. \A n \in DOMAIN todo : \E i \in S : todo[n] = MoveOf(rws, ids, leaving, cat, i)
  BY <1>5, <1>6
<1>12. \A i \in S : \E n \in DOMAIN todo : todo[n] = MoveOf(rws, ids, leaving, cat, i)
  BY <1>5, <1>7
<1>13. \A m, n \in DOMAIN todo : Once(ids) /\ todo[m].id = todo[n].id => m = n
  BY <1>5, <1>9
<1> QED
  BY <1>10, <1>11, <1>12, <1>13 DEF todo, S

LEMMA OrderIs ==
  ASSUME NEW S \in SUBSET Things, IsFiniteSet(S), NEW rws, \A x \in S : PlaceIn(rws, x) \in Place
  PROVE  LET e == ByPlace(rws, S) IN e \in Seq(S) /\ Once(e) /\ ToSet(e) = S
<1> DEFINE key == [x \in S |-> PlaceIn(rws, x)]
           e == Ascending(S, key)
<1>1. \A x \in S : key[x] \in 0..MaxPlace
  BY DEF Place
<1>2. e \in Enumerations(S)
  <2> HIDE DEF key
  <2> QED
    BY <1>1, AscendingSorts, SidebarBounds
<1>3. ByPlace(rws, S) = e
  BY DEF ByPlace
<1> HIDE DEF e
<1> QED
  BY <1>2, <1>3, EnumerationOnto DEF Once

LEMMA DropsAre ==
  ASSUME NEW S, IsFiniteSet(S), NEW rws, NEW c, NEW ids \in Drops(rws, S, c)
  PROVE  ids \in Seq(S \cup {c}) /\ Once(ids) /\ ToSet(ids) = S \cup {c}
<1>1. IsFiniteSet(S \cup {c}) /\ ids \in Enumerations(S \cup {c})
  BY FS_AddElement DEF Drops
<1> HIDE DEF Drops
<1> QED
  BY <1>1, EnumerationOnto DEF Once

-----------------------------------------------------------------------------
(* What a request under way looks like.                                    *)
Named(ms, x) == \E i \in DOMAIN ms : ms[i].id = x
Ordering == {"reorder", "sortcats"}
Drawn(a, T) ==
  /\ a.ids \in Seq(T) /\ Once(a.ids) /\ ToSet(a.ids) \subseteq a.about
  /\ a.stage \in {"list", "write", "read"}
  /\ IF a.stage = "list" THEN a.todo = <<>> ELSE a.todo # <<>>
  /\ \A i \in DOMAIN a.todo : a.todo[i].id \in ToSet(a.ids)
Exchanged(a) ==
  /\ a.ids \in Seq(Cats) /\ Len(a.ids) = 2 /\ a.ids[1] # a.ids[2]
  /\ a.about = {a.ids[1], a.ids[2]}
  /\ a.stage \in {"list", "write", "read", "tell"}
  /\ a.stage = "list" => a.place \in Place
  /\ a.todo # <<>> <=> a.stage = "write"
  /\ \A i \in DOMAIN a.todo : a.todo[i].id \in a.about /\ a.todo[i].place \in Place
Freeing(a) ==
  /\ a.stage \in {"list", "drop"}
  /\ \A i \in DOMAIN a.todo : LET m == a.todo[i]
       IN m.id \in Chans \cap a.about /\ m.place = None /\ m.moved /\ m.cat = None /\ m.row \in ChannelRow
  /\ \A i, j \in DOMAIN a.todo : a.todo[i].id = a.todo[j].id => i = j
Shaped(a) ==
  /\ a.op \in {"create", "update", "delete", "restore", "harddelete"} => a.x \in Chans \cap a.about
  /\ a.op \in {"addcat", "dropcat"} => a.x \in Cats \cap a.about
  /\ a.op \in {"create", "addcat"} => a.stage = "write" /\ a.place \in Place
  /\ a.op = "reorder" => Drawn(a, Chans) /\ \A i \in DOMAIN a.todo : a.todo[i].cat = a.cat
  /\ a.op = "sortcats" => Drawn(a, Cats) /\ \A i \in DOMAIN a.todo : a.todo[i].place \in Place
  /\ a.op = "swap" => Exchanged(a)
  /\ a.op = "dropcat" => Freeing(a)
AllShaped == \A k \in Busy : Shaped(acts[k])

LEMMA ActsMove ==
  ASSUME SidebarTypeOK, AllShaped, NEW k \in Acts, NEW a, acts' = [acts EXCEPT ![k] = a],
         a = None \/ (a \in Act /\ Shaped(a))
  PROVE  acts' \in [Acts -> Act \cup {None}] /\ AllShaped'
BY DEF SidebarTypeOK, AllShaped, Busy

LEMMA ActIs ==
  ASSUME SidebarTypeOK, AllShaped, NEW k \in Acts, acts[k] # None
  PROVE  acts[k] \in Act /\ k \in Busy /\ Shaped(acts[k]) /\ acts[k].about \subseteq Things
<1>1. acts[k] \in Act
  BY DEF SidebarTypeOK
<1> QED
  BY <1>1 DEF AllShaped, Busy, Act

LEMMA ListsTypes ==
  ASSUME NEW X, NEW R, NEW rws \in [X -> R \cup {None}], NEW x \in X, NEW row \in R \cup {None}
  PROVE  /\ Patching(rws, x, row) \in [X -> R \cup {None}]
         /\ Adding(rws, x, row) \in [X -> R \cup {None}]
         /\ Removing(rws, x) \in [X -> R \cup {None}]
BY DEF Patching, Adding, Removing

LEMMA OutdatedTypes ==
  ASSUME SidebarTypeOK, NEW xs \in SUBSET Things
  PROVE  /\ Outdated(xs) \in [Loads -> Load \cup {None}]
         /\ \A l \in Loads :
              /\ Outdated(xs)[l] = None <=> loads[l] = None
              /\ loads[l] # None =>
                   /\ Outdated(xs)[l].kind = loads[l].kind
                   /\ Outdated(xs)[l].chans = loads[l].chans /\ Outdated(xs)[l].cats = loads[l].cats
                   /\ loads[l].stale \subseteq Outdated(xs)[l].stale
                   /\ loads[l].chans # None \/ loads[l].cats # None => xs \subseteq Outdated(xs)[l].stale
<1> SUFFICES ASSUME NEW l \in Loads
             PROVE  /\ Outdated(xs)[l] \in Load \cup {None}
                    /\ Outdated(xs)[l] = None <=> loads[l] = None
                    /\ loads[l] # None =>
                         /\ Outdated(xs)[l].kind = loads[l].kind
                         /\ Outdated(xs)[l].chans = loads[l].chans /\ Outdated(xs)[l].cats = loads[l].cats
                         /\ loads[l].stale \subseteq Outdated(xs)[l].stale
                         /\ loads[l].chans # None \/ loads[l].cats # None => xs \subseteq Outdated(xs)[l].stale
  BY DEF Outdated
<1> DEFINE x == [loads[l] EXCEPT !.stale = @ \cup xs]
<1>1. CASE loads[l] = None
  BY <1>1 DEF Outdated
<1>2. CASE loads[l] # None
  <2>1. loads[l] \in Load
    BY <1>2 DEF SidebarTypeOK
  <2>2. /\ x.kind = loads[l].kind /\ x.chans = loads[l].chans /\ x.cats = loads[l].cats
        /\ x.stale = loads[l].stale \cup xs
    BY <2>1 DEF Load
  <2>3. x \in Load
    BY <2>1 DEF Load
  <2>4. Outdated(xs)[l] = IF loads[l].chans # None \/ loads[l].cats # None THEN x ELSE loads[l]
    BY <1>2 DEF Outdated
  <2> HIDE DEF x
  <2> QED
    BY <1>2, <2>1, <2>2, <2>3, <2>4, SidebarRecords
<1> QED
  BY <1>1, <1>2

LEMMA TrailTypes ==
  ASSUME NEW t \in Trail, NEW xs \in SUBSET Things
  PROVE  /\ [t EXCEPT !.suspect = @ \cup xs] \in Trail
         /\ [t EXCEPT !.gone = @ \cup xs] \in Trail
         /\ [t EXCEPT !.suspect = @ \cup xs, !.torn = @ \cup xs] \in Trail
BY DEF Trail

LEMMA EmitTypes ==
  ASSUME SidebarTypeOK, NEW after \in Sidebar, NEW xs \in SUBSET Things, NEW t \in Trail,
         EmitServer(after, xs, t)
  PROVE  sidebar' \in Sidebar /\ loads' \in [Loads -> Load \cup {None}] /\ trail' \in Trail
<1>1. trail' = t \/ trail' = [t EXCEPT !.suspect = @ \cup xs]
  <2>1. t = [t EXCEPT !.suspect = t.suspect]
    BY DEF Trail
  <2> QED
    BY <2>1 DEF EmitServer
<1>2. sidebar' = after \/ sidebar' = sidebar
  BY DEF EmitServer
<1>3. loads' = Outdated(xs)
  BY DEF EmitServer
<1> QED
  BY <1>1, <1>2, <1>3, OutdatedTypes, TrailTypes DEF SidebarTypeOK

(* A request begins.                                                       *)
LEMMA ClashingIs ==
  ASSUME SidebarTypeOK, NEW k \in Acts, NEW S \in SUBSET Things
  PROVE  /\ Clashing(k, S) \subseteq Things
         /\ \A j \in Busy : j # k /\ acts[j].about \cap S # {} => acts[j].about \cup S \subseteq Clashing(k, S)
<1>1. \A j \in Busy : acts[j].about \subseteq Things
  BY DEF SidebarTypeOK, Busy, Act
<1> QED
  BY <1>1 DEF Clashing

LEMMA BeginTypes ==
  ASSUME SidebarTypeOK, AllShaped, NEW k \in Acts, NEW act \in Act, Shaped(act),
         NEW more \in SUBSET Things, Starts(k, act, more)
  PROVE  /\ acts' \in [Acts -> Act \cup {None}] /\ AllShaped' /\ trail' \in Trail
         /\ acts[k] = None /\ acts' = [acts EXCEPT ![k] = act]
         /\ trail'.suspect = trail.suspect \cup Clashing(k, act.about) \cup more
         /\ trail.torn \cup Clashing(k, act.about) \cup more \subseteq trail'.torn
         /\ act.cat # None /\ categories[act.cat] = None => act.about \cap Chans \subseteq trail'.torn
         /\ trail'.gone = trail.gone
         /\ trail'.raced = trail.raced \cup UNION {Placing(acts[j].op) \cap Placing(act.op) : j \in Busy}
<1> DEFINE clash == Clashing(k, act.about) \cup more
           lost == IF act.cat # None /\ categories[act.cat] = None THEN act.about \cap Chans ELSE {}
           races == UNION {Placing(acts[j].op) \cap Placing(act.op) : j \in Busy}
<1>1. /\ acts[k] = None /\ acts' = [acts EXCEPT ![k] = act] /\ trail.acts < MaxActs
      /\ trail' = [trail EXCEPT !.acts = @ + 1, !.suspect = @ \cup clash, !.torn = @ \cup clash \cup lost,
                                !.raced = @ \cup races]
  BY DEF Starts
<1>2. act.about \subseteq Things
  BY DEF Act
<1>3. clash \subseteq Things /\ lost \subseteq Things
  BY <1>2, ClashingIs DEF Things
<1>4. races \subseteq {"channels", "categories"}
  BY DEF Placing
<1>5. act.cat # None /\ categories[act.cat] = None => act.about \cap Chans \subseteq lost
  OBVIOUS
<1>6. trail \in Trail /\ trail.acts + 1 \in 0..MaxActs
  BY <1>1, SidebarBounds DEF SidebarTypeOK, Trail
<1>7. clash = Clashing(k, act.about) \cup more /\ races = UNION {Placing(acts[j].op) \cap Placing(act.op) : j \in Busy}
  OBVIOUS
<1> HIDE DEF clash, lost, races
<1>8. /\ trail' \in Trail /\ trail'.suspect = trail.suspect \cup clash /\ trail'.torn = trail.torn \cup clash \cup lost
      /\ trail'.gone = trail.gone /\ trail'.raced = trail.raced \cup races
  BY <1>1, <1>3, <1>4, <1>6 DEF Trail
<1>9. acts' \in [Acts -> Act \cup {None}] /\ AllShaped'
  BY <1>1, ActsMove
<1> QED
  BY <1>1, <1>5, <1>7, <1>8, <1>9

LEMMA HomesAre ==
  ASSUME SidebarTypeOK, NEW S \in SUBSET Chans, NEW cat \in Cats \cup {None}
  PROVE  /\ Homes(S, cat) \subseteq Cats
         /\ cat # None => cat \in Homes(S, cat)
         /\ \A c \in S : channels[c] # None /\ channels[c].cat # None => channels[c].cat \in Homes(S, cat)
<1>1. \A c \in S \cap Existing(channels) : channels[c].cat \in Cats \cup {None}
  BY DEF SidebarTypeOK, Listed, ChannelRow, Existing
<1>2. DOMAIN channels = Chans
  BY DEF SidebarTypeOK, Listed
<1> QED
  BY <1>1, <1>2 DEF Homes, Existing

DraftAct == [op : Kinds, stage : {"list", "write"}, x : Things \cup {None}, cat : {None}, ids : Seq(Things),
             place : {None}, todo : Seq(Move), mine : BOOLEAN, about : SUBSET (Things \cup {None})]

IsPlain(b, op, x, stage) ==
  /\ b \in DraftAct /\ b = Plain(op, x, stage) /\ b.ids = <<>> /\ b.todo = <<>>
  /\ b.op = op /\ b.stage = stage /\ b.x = x /\ b.mine = FALSE /\ b.about = {x}

LEMMA PlainIs ==
  ASSUME NEW op \in Kinds, NEW x \in Things \cup {None}, NEW stage \in {"list", "write"}
  PROVE  \E b : IsPlain(b, op, x, stage)
<1>1. <<>> \in Seq(Things) /\ <<>> \in Seq(Move)
  OBVIOUS
<1>2. Plain(op, x, stage) \in DraftAct
  BY <1>1 DEF Plain, DraftAct
<1>3. /\ Plain(op, x, stage).ids = <<>> /\ Plain(op, x, stage).todo = <<>>
      /\ Plain(op, x, stage).op = op /\ Plain(op, x, stage).stage = stage /\ Plain(op, x, stage).x = x
      /\ Plain(op, x, stage).mine = FALSE /\ Plain(op, x, stage).about = {x}
  BY DEF Plain
<1> QED
  BY <1>2, <1>3, Zenon DEF IsPlain

(* What a request is when it begins, and what a drag of ours shows.        *)
Begun(a) ==
  /\ a \in Act /\ Shaped(a) /\ a.todo = <<>>
  /\ a.stage = IF a.op \in {"harddelete", "dropcat", "swap"} \cup Ordering THEN "list" ELSE "write"
  /\ a.op = "create" => channels[a.x] = None /\ \A c \in Existing(channels) : channels[c].place < a.place
  /\ a.op = "addcat" => categories[a.x] = None /\ \A g \in Existing(categories) : categories[g] < a.place
  /\ a.op = "harddelete" => channels[a.x] # None /\ channels[a.x].deleted
  /\ a.op \in {"update", "reorder"} =>
       \A c \in a.about \cap Chans : channels[c] = None \/ channels[c].cat \in a.about \cup {None}
  /\ a.op \in {"create", "update", "reorder"} /\ a.cat # None => a.cat \in a.about
  /\ a.op = "swap" => a.place = categories[a.ids[1]]
Dragging(a, more) ==
  /\ a.mine /\ a.op \in Ordering
  /\ a.about \cap trail.suspect # {} => more = a.about
  /\ a.op = "reorder" => /\ ToSet(a.ids) \subseteq Existing(sidebar.shown)
                         /\ sidebar' = WithChannels(Reordered(sidebar.shown, a.ids, a.cat))
  /\ a.op = "sortcats" => /\ ToSet(a.ids) \subseteq Existing(sidebar.headings)
                          /\ sidebar' = WithHeadings(Resorted(sidebar.headings, a.ids))
Beginning(k) ==
  /\ \E a, more : /\ Begun(a) /\ more \in SUBSET Things /\ Starts(k, a, more)
                  /\ (sidebar' = sidebar /\ ~a.mine) \/ Dragging(a, more)
  /\ UNCHANGED <<channels, categories, loads>>

LEMMA NextPlaceIs ==
  ASSUME SidebarTypeOK
  PROVE  /\ \A c \in Existing(channels) : channels[c].place < NextPlace(channels)
         /\ \A g \in Existing(categories) : categories[g] < NextPlace(categories)
<1>1. ASSUME NEW rws, NEW S, S = Existing(rws), S \subseteq Things, IsFiniteSet(S),
             \A x \in S : PlaceIn(rws, x) \in Place
      PROVE  \A x \in S : PlaceIn(rws, x) < NextPlace(rws)
  <2> DEFINE key == [x \in S |-> PlaceIn(rws, x)]
             places == {PlaceIn(rws, x) : x \in S}
  <2>1. SUFFICES ASSUME S # {} PROVE \A x \in S : PlaceIn(rws, x) < NextPlace(rws)
    OBVIOUS
  <2>2. \A x \in S : key[x] \in 0..MaxPlace
    BY <1>1 DEF Place
  <2>3. PICK z \in S : \A y \in S : key[y] <= key[z]
    <3> HIDE DEF key
    <3> QED
      BY <2>1, <2>2, Greatest, SidebarBounds
  <2>4. \E m \in places : \A p \in places : m >= p
    <3>1. \A x \in S : PlaceIn(rws, x) \in Int
      BY <1>1 DEF Place
    <3> QED
      BY <2>3, <3>1
  <2>5. Max(places) \in places /\ \A p \in places : Max(places) >= p
    <3>1. Max(places) = CHOOSE m \in places : \A p \in places : m >= p
      BY DEF Max
    <3> HIDE DEF places
    <3> QED
      BY <2>4, <3>1
  <2>6. NextPlace(rws) = Max(places) + 1
    BY <1>1, <2>1 DEF NextPlace
  <2>7. Max(places) \in Int /\ \A x \in S : PlaceIn(rws, x) \in Int /\ Max(places) >= PlaceIn(rws, x)
    BY <1>1, <2>5 DEF Place
  <2> HIDE DEF places
  <2> QED
    BY <2>6, <2>7
<1>2. DOMAIN channels = Chans /\ DOMAIN categories = Cats
  BY DEF SidebarTypeOK, Listed, Headed
<1>3. \A c \in Existing(channels) : c \in Chans /\ PlaceIn(channels, c) = channels[c].place /\ channels[c].place \in Place
  BY <1>2, SidebarBounds DEF SidebarTypeOK, Listed, ChannelRow, Place, Existing, PlaceIn
<1>4. \A g \in Existing(categories) : g \in Cats /\ PlaceIn(categories, g) = categories[g] /\ categories[g] \in Place
  BY <1>2, SidebarBounds DEF SidebarTypeOK, Headed, Place, Existing, PlaceIn
<1>5. Existing(channels) \subseteq Chans /\ Existing(categories) \subseteq Cats
  BY <1>3, <1>4
<1>6. IsFiniteSet(Existing(channels)) /\ IsFiniteSet(Existing(categories))
  BY <1>5, SidebarBounds, FS_Subset
<1>7. \A c \in Existing(channels) : PlaceIn(channels, c) < NextPlace(channels)
  BY <1>1, <1>3, <1>5, <1>6 DEF Things
<1>8. \A g \in Existing(categories) : PlaceIn(categories, g) < NextPlace(categories)
  BY <1>1, <1>4, <1>5, <1>6 DEF Things
<1> QED
  BY <1>3, <1>4, <1>7, <1>8

LEMMA ListsAre ==
  ASSUME SidebarTypeOK
  PROVE  /\ DOMAIN channels = Chans /\ DOMAIN categories = Cats /\ channels \in Listed /\ categories \in Headed
         /\ LiveRows \in Listed /\ sidebar.shown \in Listed /\ sidebar.headings \in Headed /\ sidebar.open \in BOOLEAN
         /\ \A rws \in Listed : /\ Existing(rws) \subseteq Chans /\ IsFiniteSet(Existing(rws))
                                /\ \A c \in Existing(rws) : rws[c] \in ChannelRow /\ PlaceIn(rws, c) = rws[c].place
                                                            /\ rws[c].place \in Place /\ rws[c].cat \in Cats \cup {None}
         /\ \A rws \in Headed : /\ Existing(rws) \subseteq Cats /\ IsFiniteSet(Existing(rws))
                                /\ \A g \in Existing(rws) : PlaceIn(rws, g) = rws[g] /\ rws[g] \in Place
<1>1. channels \in Listed /\ categories \in Headed /\ sidebar \in Sidebar
  BY DEF SidebarTypeOK
<1>2. LiveRows \in Listed
  BY <1>1 DEF LiveRows, Listed
<1>3. ASSUME NEW rws \in Listed
      PROVE  /\ Existing(rws) \subseteq Chans /\ IsFiniteSet(Existing(rws))
             /\ \A c \in Existing(rws) : rws[c] \in ChannelRow /\ PlaceIn(rws, c) = rws[c].place
                                         /\ rws[c].place \in Place /\ rws[c].cat \in Cats \cup {None}
  <2>1. Existing(rws) \subseteq Chans
    BY DEF Existing, Listed
  <2>2. IsFiniteSet(Existing(rws))
    BY <2>1, SidebarBounds, FS_Subset
  <2>3. \A c \in Existing(rws) : rws[c] \in ChannelRow
    BY <2>1 DEF Existing, Listed
  <2> QED
    BY <2>1, <2>2, <2>3 DEF PlaceIn, ChannelRow
<1>4. ASSUME NEW rws \in Headed
      PROVE  /\ Existing(rws) \subseteq Cats /\ IsFiniteSet(Existing(rws))
             /\ \A g \in Existing(rws) : PlaceIn(rws, g) = rws[g] /\ rws[g] \in Place
  <2>1. Existing(rws) \subseteq Cats
    BY DEF Existing, Headed
  <2>2. IsFiniteSet(Existing(rws))
    BY <2>1, SidebarBounds, FS_Subset
  <2> QED
    BY <2>1, <2>2, SidebarBounds DEF PlaceIn, Headed, Existing
<1> QED
  BY <1>1, <1>2, <1>3, <1>4 DEF Listed, Headed, Sidebar

LEMMA CreateBegins ==
  ASSUME SidebarTypeOK, NEW k \in Acts, NEW c \in Chans, NEW cat \in Cats \cup {None}, StartCreate(k, c, cat)
  PROVE  Beginning(k)
<1> DEFINE p == NextPlace(channels)
           a == [Plain("create", c, "write") EXCEPT !.cat = cat, !.place = p, !.about = @ \cup Homes({}, cat)]
<1>1. /\ channels[c] = None /\ p \in Place /\ Starts(k, a, {})
      /\ UNCHANGED <<channels, categories, sidebar, loads>>
  BY DEF StartCreate
<1>2. Homes({}, cat) \subseteq Cats /\ (cat # None => cat \in Homes({}, cat))
  BY HomesAre
<1>3. \A d \in Existing(channels) : channels[d].place < p
  BY NextPlaceIs
<1> HIDE DEF p
<1>4. "create" \in Kinds /\ "write" \in {"list", "write"} /\ c \in Things /\ c \in Things \cup {None}
  BY DEF Kinds, Things
<1>20. PICK b : IsPlain(b, "create", c, "write")
  BY <1>4, PlainIs
<1>21. /\ b = Plain("create", c, "write") /\ b.op = "create" /\ b.stage = "write" /\ b.x = c
       /\ b.mine = FALSE /\ b.about = {c} /\ b \in DraftAct
  BY <1>20 DEF IsPlain
<1>22. a = [b EXCEPT !.cat = cat, !.place = p, !.about = b.about \cup Homes({}, cat)]
  BY <1>21, Zenon
<1> HIDE DEF a
<1>23. /\ a.op = "create" /\ a.stage = "write" /\ a.x = c /\ a.cat = cat /\ a.ids = b.ids /\ a.place = p
      /\ a.todo = b.todo /\ a.mine = FALSE /\ a.about = {c} \cup Homes({}, cat) /\ a \in Act
  BY <1>1, <1>2, <1>4, <1>21, <1>22 DEF DraftAct, Act, Things
<1>5. /\ a.op = "create" /\ a.stage = "write" /\ a.x = c /\ a.cat = cat /\ a.ids = <<>> /\ a.place = p
      /\ a.todo = <<>> /\ a.mine = FALSE /\ a.about = {c} \cup Homes({}, cat) /\ a \in Act
  BY <1>20, <1>23 DEF IsPlain
<1>6. Shaped(a)
  BY <1>1, <1>5 DEF Shaped
<1>7. Begun(a) /\ ~a.mine
  BY <1>1, <1>2, <1>3, <1>5, <1>6 DEF Begun, Ordering
<1> QED
  BY <1>1, <1>7 DEF Beginning

LEMMA UpdateBegins ==
  ASSUME SidebarTypeOK, NEW k \in Acts, NEW c \in Chans, NEW cat \in Cats \cup {None}, StartUpdate(k, c, cat)
  PROVE  Beginning(k)
<1> DEFINE a == [Plain("update", c, "write") EXCEPT !.cat = cat, !.about = @ \cup Homes({c}, cat)]
<1>1. Starts(k, a, {}) /\ UNCHANGED <<channels, categories, sidebar, loads>>
  BY DEF StartUpdate
<1>2. /\ Homes({c}, cat) \subseteq Cats /\ (cat # None => cat \in Homes({c}, cat))
      /\ channels[c] # None /\ channels[c].cat # None => channels[c].cat \in Homes({c}, cat)
  BY HomesAre
<1>4. "update" \in Kinds /\ "write" \in {"list", "write"} /\ c \in Things /\ c \in Things \cup {None}
  BY DEF Kinds, Things
<1>20. PICK b : IsPlain(b, "update", c, "write")
  BY <1>4, PlainIs
<1>21. /\ b = Plain("update", c, "write") /\ b.op = "update" /\ b.stage = "write" /\ b.x = c
       /\ b.mine = FALSE /\ b.about = {c} /\ b \in DraftAct
  BY <1>20 DEF IsPlain
<1>22. a = [b EXCEPT !.cat = cat, !.about = b.about \cup Homes({c}, cat)]
  BY <1>21, Zenon
<1> HIDE DEF a
<1>23. /\ a.op = "update" /\ a.stage = "write" /\ a.x = c /\ a.cat = cat /\ a.ids = b.ids /\ a.place = None
      /\ a.todo = b.todo /\ a.mine = FALSE /\ a.about = {c} \cup Homes({c}, cat) /\ a \in Act
  BY <1>2, <1>4, <1>21, <1>22 DEF DraftAct, Act, Things
<1>5. /\ a.op = "update" /\ a.stage = "write" /\ a.x = c /\ a.cat = cat /\ a.ids = <<>> /\ a.place = None
      /\ a.todo = <<>> /\ a.mine = FALSE /\ a.about = {c} \cup Homes({c}, cat) /\ a \in Act
  BY <1>20, <1>23 DEF IsPlain
<1>6. Shaped(a)
  BY <1>5 DEF Shaped
<1>7. a.about \cap Chans = {c}
  BY <1>2, <1>5, SidebarBounds
<1>8. Begun(a) /\ ~a.mine
  BY <1>2, <1>5, <1>6, <1>7 DEF Begun, Ordering
<1> QED
  BY <1>1, <1>8 DEF Beginning

LEMMA MarkBegins ==
  ASSUME SidebarTypeOK, NEW k \in Acts, NEW c \in Chans, NEW op, StartMark(k, op, c)
  PROVE  Beginning(k)
<1> DEFINE stage == IF op = "harddelete" THEN "list" ELSE "write"
           a == Plain(op, c, stage)
<1>1. /\ Starts(k, a, {}) /\ UNCHANGED <<channels, categories, sidebar, loads>>
      /\ channels[c] # None /\ channels[c].deleted = (op # "delete") /\ op \in {"delete", "restore", "harddelete"}
  BY DEF StartMark
<1>2. op \in Kinds /\ stage \in {"list", "write"} /\ c \in Things /\ c \in Things \cup {None}
  BY <1>1 DEF Kinds, Things
<1>20. PICK b : IsPlain(b, op, c, stage)
  BY <1>2, PlainIs
<1>21. /\ b = Plain(op, c, stage) /\ b.op = op /\ b.stage = stage /\ b.x = c
       /\ b.mine = FALSE /\ b.about = {c} /\ b \in DraftAct
  BY <1>20 DEF IsPlain
<1>22. a = b
  BY <1>21, Zenon
<1> HIDE DEF a
<1>23. /\ a.op = op /\ a.stage = stage /\ a.x = c /\ a.cat = None /\ a.ids = b.ids /\ a.place = None
      /\ a.todo = b.todo /\ a.mine = FALSE /\ a.about = {c} /\ a \in Act
  BY <1>2, <1>21, <1>22 DEF DraftAct, Act, Things
<1>3. /\ a.op = op /\ a.stage = stage /\ a.x = c /\ a.cat = None /\ a.ids = <<>> /\ a.place = None
      /\ a.todo = <<>> /\ a.mine = FALSE /\ a.about = {c} /\ a \in Act
  BY <1>20, <1>23 DEF IsPlain
<1>4. Shaped(a)
  BY <1>1, <1>3 DEF Shaped
<1>5. Begun(a) /\ ~a.mine
  BY <1>1, <1>3, <1>4 DEF Begun, Ordering
<1> QED
  BY <1>1, <1>5 DEF Beginning

LEMMA AddCategoryBegins ==
  ASSUME SidebarTypeOK, NEW k \in Acts, NEW g \in Cats, StartAddCategory(k, g)
  PROVE  Beginning(k)
<1> DEFINE p == NextPlace(categories)
           a == [Plain("addcat", g, "write") EXCEPT !.place = p]
<1>1. /\ categories[g] = None /\ p \in Place /\ Starts(k, a, {})
      /\ UNCHANGED <<channels, categories, sidebar, loads>>
  BY DEF StartAddCategory
<1>3. \A h \in Existing(categories) : categories[h] < p
  BY NextPlaceIs
<1> HIDE DEF p
<1>4. "addcat" \in Kinds /\ "write" \in {"list", "write"} /\ g \in Things /\ g \in Things \cup {None}
  BY DEF Kinds, Things
<1>20. PICK b : IsPlain(b, "addcat", g, "write")
  BY <1>4, PlainIs
<1>21. /\ b = Plain("addcat", g, "write") /\ b.op = "addcat" /\ b.stage = "write" /\ b.x = g
       /\ b.mine = FALSE /\ b.about = {g} /\ b \in DraftAct
  BY <1>20 DEF IsPlain
<1>22. a = [b EXCEPT !.place = p]
  BY <1>21, Zenon
<1> HIDE DEF a
<1>23. /\ a.op = "addcat" /\ a.stage = "write" /\ a.x = g /\ a.cat = None /\ a.ids = b.ids /\ a.place = p
      /\ a.todo = b.todo /\ a.mine = FALSE /\ a.about = {g} /\ a \in Act
  BY <1>1, <1>4, <1>21, <1>22 DEF DraftAct, Act, Things
<1>5. /\ a.op = "addcat" /\ a.stage = "write" /\ a.x = g /\ a.cat = None /\ a.ids = <<>> /\ a.place = p
      /\ a.todo = <<>> /\ a.mine = FALSE /\ a.about = {g} /\ a \in Act
  BY <1>20, <1>23 DEF IsPlain
<1>6. Shaped(a)
  BY <1>1, <1>5 DEF Shaped
<1>7. Begun(a) /\ ~a.mine
  BY <1>1, <1>3, <1>5, <1>6 DEF Begun, Ordering
<1> QED
  BY <1>1, <1>7 DEF Beginning

LEMMA DropCategoryBegins ==
  ASSUME SidebarTypeOK, NEW k \in Acts, NEW g \in Cats, StartDropCategory(k, g)
  PROVE  Beginning(k)
<1> DEFINE a == [Plain("dropcat", g, "list") EXCEPT !.about = @ \cup Within(channels, g)]
<1>1. Starts(k, a, {}) /\ UNCHANGED <<channels, categories, sidebar, loads>>
  BY DEF StartDropCategory
<1>2. Within(channels, g) \subseteq Chans
  BY ListsAre DEF Within
<1>4. "dropcat" \in Kinds /\ "list" \in {"list", "write"} /\ g \in Things /\ g \in Things \cup {None}
  BY DEF Kinds, Things
<1>20. PICK b : IsPlain(b, "dropcat", g, "list")
  BY <1>4, PlainIs
<1>21. /\ b = Plain("dropcat", g, "list") /\ b.op = "dropcat" /\ b.stage = "list" /\ b.x = g
       /\ b.mine = FALSE /\ b.about = {g} /\ b \in DraftAct
  BY <1>20 DEF IsPlain
<1>22. a = [b EXCEPT !.about = b.about \cup Within(channels, g)]
  BY <1>21, Zenon
<1> HIDE DEF a
<1>23. /\ a.op = "dropcat" /\ a.stage = "list" /\ a.x = g /\ a.cat = None /\ a.ids = b.ids /\ a.place = None
      /\ a.todo = b.todo /\ a.mine = FALSE /\ a.about = {g} \cup Within(channels, g) /\ a \in Act
  BY <1>2, <1>4, <1>21, <1>22 DEF DraftAct, Act, Things
<1>5. /\ a.op = "dropcat" /\ a.stage = "list" /\ a.x = g /\ a.cat = None /\ a.ids = <<>> /\ a.place = None
      /\ a.todo = <<>> /\ a.mine = FALSE /\ a.about = {g} \cup Within(channels, g) /\ a \in Act
  BY <1>20, <1>23 DEF IsPlain
<1>6. Shaped(a)
  BY <1>5 DEF Shaped, Freeing
<1>7. Begun(a) /\ ~a.mine
  BY <1>5, <1>6 DEF Begun, Ordering
<1> QED
  BY <1>1, <1>7 DEF Beginning

LEMMA SwapBegins ==
  ASSUME SidebarTypeOK, NEW k \in Acts, NEW g \in Cats, NEW h \in Cats, StartSwap(k, g, h)
  PROVE  Beginning(k)
<1> DEFINE p == categories[g]
           a == [Plain("swap", None, "list") EXCEPT !.ids = <<g, h>>, !.place = p, !.about = {g, h}]
<1>1. Starts(k, a, {}) /\ UNCHANGED <<channels, categories, sidebar, loads>> /\ g # h /\ p # None
  BY DEF StartSwap
<1>2. p \in Place /\ p = categories[g]
  BY <1>1, ListsAre DEF Headed
<1> HIDE DEF p
<1>4. "swap" \in Kinds /\ "list" \in {"list", "write"} /\ {g, h} \subseteq Things /\ None \in Things \cup {None}
  BY DEF Kinds, Things
<1>5. PICK ids : ids = <<g, h>>
  OBVIOUS
<1>6. ids \in Seq(Cats) /\ ids \in Seq(Things) /\ Len(ids) = 2 /\ ids[1] = g /\ ids[2] = h
  BY <1>4, <1>5
<1>7. a = [Plain("swap", None, "list") EXCEPT !.ids = ids, !.place = p, !.about = {g, h}]
  BY <1>5
<1>20. PICK b : IsPlain(b, "swap", None, "list")
  BY <1>4, PlainIs
<1>21. /\ b = Plain("swap", None, "list") /\ b.op = "swap" /\ b.stage = "list" /\ b.x = None
       /\ b.mine = FALSE /\ b.about = {None} /\ b \in DraftAct
  BY <1>20 DEF IsPlain
<1>22. a = [b EXCEPT !.ids = ids, !.place = p, !.about = {g, h}]
  BY <1>21, <1>7, Zenon
<1> HIDE DEF a
<1>23. /\ a.op = "swap" /\ a.stage = "list" /\ a.x = None /\ a.cat = None /\ a.ids = ids /\ a.place = p
      /\ a.todo = b.todo /\ a.mine = FALSE /\ a.about = {g, h} /\ a \in Act
  BY <1>2, <1>4, <1>6, <1>21, <1>22 DEF DraftAct, Act, Things
<1>8. /\ a.op = "swap" /\ a.stage = "list" /\ a.x = None /\ a.cat = None /\ a.ids = ids /\ a.place = p
      /\ a.todo = <<>> /\ a.mine = FALSE /\ a.about = {g, h} /\ a \in Act
  BY <1>20, <1>23 DEF IsPlain
<1>9. Shaped(a)
  BY <1>1, <1>2, <1>6, <1>8 DEF Shaped, Exchanged, Ordering
<1>10. Begun(a) /\ ~a.mine
  BY <1>2, <1>6, <1>8, <1>9 DEF Begun, Ordering
<1> QED
  BY <1>1, <1>10 DEF Beginning

LEMMA ReorderBegins ==
  ASSUME SidebarTypeOK, NEW k \in Acts, NEW rws \in Listed, NEW heads \in Headed, NEW mine \in BOOLEAN,
         mine => rws = sidebar.shown, StartReorder(k, rws, heads, mine)
  PROVE  Beginning(k)
<1>1. PICK c \in Existing(rws), cat \in Existing(heads) \cup {None} :
        /\ \E ids \in Drops(rws, Within(rws, cat), c) :
             LET about == ToSet(ids) \cup Homes(ToSet(ids), cat)
             IN /\ Starts(k, [Plain("reorder", None, "list") EXCEPT !.cat = cat, !.ids = ids,
                                !.mine = mine, !.about = about],
                          IF mine /\ about \cap trail.suspect # {} THEN about ELSE {})
                /\ sidebar' = IF mine THEN WithChannels(Reordered(sidebar.shown, ids, cat)) ELSE sidebar
        /\ UNCHANGED <<channels, categories, loads>>
  BY DEF StartReorder
<1>2. PICK ids \in Drops(rws, Within(rws, cat), c) :
             LET about == ToSet(ids) \cup Homes(ToSet(ids), cat)
             IN /\ Starts(k, [Plain("reorder", None, "list") EXCEPT !.cat = cat, !.ids = ids,
                                !.mine = mine, !.about = about],
                          IF mine /\ about \cap trail.suspect # {} THEN about ELSE {})
                /\ sidebar' = IF mine THEN WithChannels(Reordered(sidebar.shown, ids, cat)) ELSE sidebar
  BY <1>1
<1> DEFINE about == ToSet(ids) \cup Homes(ToSet(ids), cat)
           a == [Plain("reorder", None, "list") EXCEPT !.cat = cat, !.ids = ids, !.mine = mine, !.about = about]
           more == IF mine /\ about \cap trail.suspect # {} THEN about ELSE {}
<1>3. Starts(k, a, more) /\ sidebar' = IF mine THEN WithChannels(Reordered(sidebar.shown, ids, cat)) ELSE sidebar
  BY <1>2
<1>4. cat \in Cats \cup {None}
  BY ListsAre
<1>5. ids \in Seq(Chans) /\ Once(ids) /\ ToSet(ids) \subseteq Existing(rws) /\ ToSet(ids) \subseteq Chans
  <2>1. Existing(rws) \subseteq Chans /\ IsFiniteSet(Existing(rws))
    BY ListsAre
  <2>2. Within(rws, cat) \subseteq Existing(rws) /\ IsFiniteSet(Within(rws, cat))
    <3>1. Within(rws, cat) \subseteq Existing(rws)
      BY DEF Within
    <3> QED
      BY <2>1, <3>1, FS_Subset
  <2>3. ids \in Seq(Within(rws, cat) \cup {c}) /\ Once(ids) /\ ToSet(ids) = Within(rws, cat) \cup {c}
    BY <2>2, DropsAre
  <2>4. Within(rws, cat) \cup {c} \subseteq Chans
    BY <2>1, <2>2
  <2>5. ids \in Seq(Chans)
    BY <2>3, <2>4
  <2> QED
    BY <2>1, <2>2, <2>3, <2>5
<1>6. /\ Homes(ToSet(ids), cat) \subseteq Cats /\ (cat # None => cat \in about)
      /\ \A d \in ToSet(ids) : channels[d] # None /\ channels[d].cat # None => channels[d].cat \in about
  BY <1>4, <1>5, HomesAre
<1>7. /\ about \subseteq Things /\ about \cap Chans = ToSet(ids) /\ ToSet(ids) \subseteq about
      /\ more \subseteq Things /\ (mine /\ about \cap trail.suspect # {} => more = about)
  BY <1>5, <1>6, SidebarBounds DEF Things
<1>8. ids \in Seq(Things)
  BY <1>5 DEF Things
<1>9. "reorder" \in Kinds /\ "list" \in {"list", "write"} /\ None \in Things \cup {None}
  BY DEF Kinds
<1>10. PICK b : IsPlain(b, "reorder", None, "list")
  BY <1>9, PlainIs
<1>11. /\ b = Plain("reorder", None, "list") /\ b.op = "reorder" /\ b.stage = "list" /\ b \in DraftAct
  BY <1>10 DEF IsPlain
<1> HIDE DEF about
<1>12. a = [b EXCEPT !.cat = cat, !.ids = ids, !.mine = mine, !.about = about]
  BY <1>11, Zenon
<1> HIDE DEF a, more
<1>13. /\ a.op = "reorder" /\ a.stage = "list" /\ a.cat = cat /\ a.ids = ids /\ a.todo = b.todo /\ a.mine = mine
       /\ a.about = about /\ a \in Act
  BY <1>4, <1>7, <1>8, <1>9, <1>11, <1>12 DEF DraftAct, Act
<1>14. a.todo = <<>>
  BY <1>10, <1>13 DEF IsPlain
<1>15. Shaped(a)
  BY <1>5, <1>7, <1>13, <1>14 DEF Shaped, Drawn
<1>16. Begun(a)
  BY <1>6, <1>7, <1>13, <1>14, <1>15 DEF Begun, Ordering
<1>17. CASE mine
  <2>1. Dragging(a, more)
    BY <1>3, <1>5, <1>7, <1>13, <1>17 DEF Dragging, Ordering
  <2> QED
    BY <1>1, <1>3, <1>7, <1>16, <2>1 DEF Beginning
<1>18. CASE ~mine
  BY <1>1, <1>3, <1>7, <1>13, <1>16, <1>18 DEF Beginning
<1> QED
  BY <1>17, <1>18

LEMMA SortBegins ==
  ASSUME SidebarTypeOK, NEW k \in Acts, NEW heads \in Headed, NEW mine \in BOOLEAN,
         mine => heads = sidebar.headings, StartSort(k, heads, mine)
  PROVE  Beginning(k)
<1>1. PICK g \in Existing(heads) : \E ids \in Drops(heads, Existing(heads), g) :
        /\ Starts(k, [Plain("sortcats", None, "list") EXCEPT !.ids = ids, !.mine = mine, !.about = ToSet(ids)],
                  IF mine /\ ToSet(ids) \cap trail.suspect # {} THEN ToSet(ids) ELSE {})
        /\ sidebar' = IF mine THEN WithHeadings(Resorted(sidebar.headings, ids)) ELSE sidebar
  BY DEF StartSort
<1>2. PICK ids \in Drops(heads, Existing(heads), g) :
        /\ Starts(k, [Plain("sortcats", None, "list") EXCEPT !.ids = ids, !.mine = mine, !.about = ToSet(ids)],
                  IF mine /\ ToSet(ids) \cap trail.suspect # {} THEN ToSet(ids) ELSE {})
        /\ sidebar' = IF mine THEN WithHeadings(Resorted(sidebar.headings, ids)) ELSE sidebar
  BY <1>1
<1> DEFINE about == ToSet(ids)
           a == [Plain("sortcats", None, "list") EXCEPT !.ids = ids, !.mine = mine, !.about = about]
           more == IF mine /\ about \cap trail.suspect # {} THEN about ELSE {}
<1>3. /\ Starts(k, a, more) /\ sidebar' = IF mine THEN WithHeadings(Resorted(sidebar.headings, ids)) ELSE sidebar
      /\ UNCHANGED <<channels, categories, loads>>
  BY <1>2 DEF StartSort
<1>4. ids \in Seq(Cats) /\ Once(ids) /\ ToSet(ids) \subseteq Existing(heads) /\ ToSet(ids) \subseteq Cats
  <2>1. Existing(heads) \subseteq Cats /\ IsFiniteSet(Existing(heads))
    BY ListsAre
  <2>2. ids \in Seq(Existing(heads) \cup {g}) /\ Once(ids) /\ ToSet(ids) = Existing(heads) \cup {g}
    BY <2>1, DropsAre
  <2>3. Existing(heads) \cup {g} \subseteq Cats
    BY <2>1
  <2>4. ids \in Seq(Cats)
    BY <2>2, <2>3
  <2> QED
    BY <2>1, <2>2, <2>4
<1>5. /\ about \subseteq Things /\ more \subseteq Things /\ about = ToSet(ids)
      /\ (mine /\ about \cap trail.suspect # {} => more = about)
  BY <1>4 DEF Things
<1>6. ids \in Seq(Things)
  BY <1>4 DEF Things
<1>7. "sortcats" \in Kinds /\ "list" \in {"list", "write"} /\ None \in Things \cup {None}
  BY DEF Kinds
<1>8. PICK b : IsPlain(b, "sortcats", None, "list")
  BY <1>7, PlainIs
<1>9. b = Plain("sortcats", None, "list") /\ b.op = "sortcats" /\ b.stage = "list" /\ b \in DraftAct
  BY <1>8 DEF IsPlain
<1> HIDE DEF about
<1>10. a = [b EXCEPT !.ids = ids, !.mine = mine, !.about = about]
  BY <1>9, Zenon
<1> HIDE DEF a, more
<1>11. /\ a.op = "sortcats" /\ a.stage = "list" /\ a.ids = ids /\ a.todo = b.todo /\ a.mine = mine
       /\ a.about = about /\ a \in Act
  BY <1>5, <1>6, <1>7, <1>9, <1>10 DEF DraftAct, Act
<1>12. a.todo = <<>>
  BY <1>8, <1>11 DEF IsPlain
<1>13. Shaped(a)
  BY <1>4, <1>5, <1>11, <1>12 DEF Shaped, Drawn
<1>14. Begun(a)
  BY <1>11, <1>12, <1>13 DEF Begun, Ordering
<1>15. CASE mine
  <2>1. Dragging(a, more)
    BY <1>3, <1>4, <1>5, <1>11, <1>15 DEF Dragging, Ordering
  <2> QED
    BY <1>3, <1>5, <1>14, <2>1 DEF Beginning
<1>16. CASE ~mine
  BY <1>3, <1>5, <1>11, <1>14, <1>16 DEF Beginning
<1> QED
  BY <1>15, <1>16

LEMMA ActBegins == ASSUME SidebarTypeOK, NEW k \in Acts, ActStarts(k) PROVE Beginning(k)
<1>1. ASSUME NEW c \in Chans, NEW cat \in Cats \cup {None}, StartCreate(k, c, cat) \/ StartUpdate(k, c, cat)
      PROVE  Beginning(k)
  BY <1>1, CreateBegins, UpdateBegins
<1>2. ASSUME NEW c \in Chans, NEW op \in Asked, StartMark(k, op, c) PROVE Beginning(k)
  BY <1>2, MarkBegins
<1>3. ASSUME NEW g \in Cats,
             StartAddCategory(k, g) \/ StartDropCategory(k, g) \/ \E h \in Cats : StartSwap(k, g, h)
      PROVE  Beginning(k)
  BY <1>3, AddCategoryBegins, DropCategoryBegins, SwapBegins
<1>4. LiveRows \in Listed /\ sidebar.shown \in Listed /\ categories \in Headed /\ sidebar.headings \in Headed
  BY ListsAre
<1>5. StartReorder(k, LiveRows, categories, FALSE) => Beginning(k)
  BY <1>4, ReorderBegins
<1>6. StartReorder(k, sidebar.shown, sidebar.headings, TRUE) => Beginning(k)
  BY <1>4, ReorderBegins
<1>7. StartSort(k, categories, FALSE) => Beginning(k)
  BY <1>4, SortBegins
<1>8. StartSort(k, sidebar.headings, TRUE) => Beginning(k)
  BY <1>4, SortBegins
<1> QED
  BY <1>1, <1>2, <1>3, <1>5, <1>6, <1>7, <1>8 DEF ActStarts

-----------------------------------------------------------------------------
(* A step of a request: it alone moves on, writes and shows only what it   *)
(* is about, and what is noted only grows.                                 *)
Onward(k) ==
  \E a : /\ acts' = [acts EXCEPT ![k] = a]
         /\ \/ a = None
            \/ /\ a \in Act /\ Shaped(a) /\ acts[k].about \subseteq a.about
               /\ a.op = acts[k].op /\ a.x = acts[k].x /\ a.cat = acts[k].cat
               /\ a.ids = acts[k].ids /\ a.mine = acts[k].mine
Writes(S) ==
  /\ channels' \in Listed /\ categories' \in Headed
  /\ \A c \in Chans \ S : channels'[c] = channels[c]
  /\ \A g \in Cats \ S : categories'[g] = categories[g]
Shows(S) ==
  /\ sidebar' \in Sidebar /\ sidebar'.open = sidebar.open /\ (sidebar.due => sidebar'.due)
  /\ \A c \in Chans \ S : sidebar'.shown[c] = sidebar.shown[c]
  /\ \A g \in Cats \ S : sidebar'.headings[g] = sidebar.headings[g]
LoadsKept ==
  /\ loads' \in [Loads -> Load \cup {None}]
  /\ \A l \in Loads :
       /\ loads'[l] = None <=> loads[l] = None
       /\ loads[l] # None => /\ loads'[l].kind = loads[l].kind /\ loads'[l].chans = loads[l].chans
                             /\ loads'[l].cats = loads[l].cats /\ loads[l].stale \subseteq loads'[l].stale
TrailGrows(t, u) ==
  /\ u \in Trail /\ t.suspect \subseteq u.suspect /\ t.torn \subseteq u.torn /\ t.gone \subseteq u.gone
  /\ t.raced \subseteq u.raced
Stepping(k) ==
  /\ Onward(k) /\ Writes(acts[k].about) /\ Shows(acts[k].about) /\ LoadsKept /\ TrailGrows(trail, trail')

LEMMA WithDue ==
  ASSUME SidebarTypeOK, NEW again \in BOOLEAN
  PROVE  /\ [sidebar EXCEPT !.due = again] \in Sidebar /\ [sidebar EXCEPT !.due = again].due = again
         /\ [sidebar EXCEPT !.due = again].shown = sidebar.shown
         /\ [sidebar EXCEPT !.due = again].headings = sidebar.headings
         /\ [sidebar EXCEPT !.due = again].open = sidebar.open
BY DEF SidebarTypeOK, Sidebar

LEMMA WithRows ==
  ASSUME SidebarTypeOK, NEW rws \in Listed
  PROVE  /\ WithChannels(rws) \in Sidebar /\ WithChannels(rws).shown = rws
         /\ WithChannels(rws).headings = sidebar.headings /\ WithChannels(rws).open = sidebar.open
         /\ WithChannels(rws).due = sidebar.due
BY DEF SidebarTypeOK, Sidebar, WithChannels

LEMMA WithHeads ==
  ASSUME SidebarTypeOK, NEW heads \in Headed
  PROVE  /\ WithHeadings(heads) \in Sidebar /\ WithHeadings(heads).headings = heads
         /\ WithHeadings(heads).shown = sidebar.shown /\ WithHeadings(heads).open = sidebar.open
         /\ WithHeadings(heads).due = sidebar.due
BY DEF SidebarTypeOK, Sidebar, WithHeadings

LEMMA EmitShows ==
  ASSUME SidebarTypeOK, NEW S \in SUBSET Things, NEW xs \in SUBSET S, NEW after \in Sidebar,
         after.open = sidebar.open, after.due = sidebar.due,
         \A c \in Chans \ S : after.shown[c] = sidebar.shown[c],
         \A g \in Cats \ S : after.headings[g] = sidebar.headings[g],
         NEW t \in Trail, TrailGrows(trail, t), EmitServer(after, xs, t)
  PROVE  Shows(S) /\ LoadsKept /\ TrailGrows(trail, trail')
<1>1. sidebar' = after \/ sidebar' = sidebar
  BY DEF EmitServer
<1>2. Shows(S)
  BY <1>1 DEF Shows, SidebarTypeOK
<1>3. loads' = Outdated(xs)
  BY DEF EmitServer
<1>4. LoadsKept
  BY <1>3, OutdatedTypes DEF LoadsKept
<1>5. trail' = t \/ trail' = [t EXCEPT !.suspect = t.suspect \cup xs]
  <2>1. t = [t EXCEPT !.suspect = t.suspect]
    BY DEF Trail
  <2> QED
    BY <2>1 DEF EmitServer
<1>6. TrailGrows(trail, trail')
  BY <1>5 DEF TrailGrows, Trail
<1> QED
  BY <1>2, <1>4, <1>6

LEMMA QuietStep ==
  ASSUME SidebarTypeOK, UNCHANGED <<sidebar, loads>>
  PROVE  (\A S : Shows(S)) /\ LoadsKept /\ (trail' = trail => TrailGrows(trail, trail'))
BY DEF SidebarTypeOK, Shows, LoadsKept, TrailGrows

LEMMA NothingWritten ==
  ASSUME SidebarTypeOK, UNCHANGED <<channels, categories>> PROVE \A S : Writes(S)
BY DEF SidebarTypeOK, Writes

LEMMA RowsWritten ==
  ASSUME SidebarTypeOK, NEW S \in SUBSET Things, NEW c \in Chans, c \in S, NEW row \in ChannelRow \cup {None},
         channels' = channels \/ channels' = [channels EXCEPT ![c] = row], UNCHANGED categories
  PROVE  Writes(S)
BY DEF SidebarTypeOK, Writes, Listed

LEMMA HeadsWritten ==
  ASSUME SidebarTypeOK, NEW S \in SUBSET Things, NEW g \in Cats, g \in S, NEW p \in Place \cup {None},
         categories' = categories \/ categories' = [categories EXCEPT ![g] = p], UNCHANGED channels
  PROVE  Writes(S)
BY DEF SidebarTypeOK, Writes, Headed

(* A request moves to another stage, with other work left.                 *)
LEMMA MovesOn ==
  ASSUME SidebarTypeOK, AllShaped, NEW k \in Acts, acts[k] # None,
         NEW stage \in {"list", "write", "read", "tell", "drop"}, NEW todo \in Seq(Move),
         NEW place \in Place \cup {None}, NEW about \in SUBSET Things
  PROVE  LET a == [acts[k] EXCEPT !.stage = stage, !.todo = todo, !.place = place, !.about = about]
         IN /\ a \in Act /\ a.stage = stage /\ a.todo = todo /\ a.place = place /\ a.about = about
            /\ a.op = acts[k].op /\ a.x = acts[k].x /\ a.cat = acts[k].cat
            /\ a.ids = acts[k].ids /\ a.mine = acts[k].mine
<1>1. acts[k] \in Act
  BY ActIs
<1> QED
  BY <1>1 DEF Act

LEMMA StageForm ==
  ASSUME SidebarTypeOK, AllShaped, NEW k \in Acts, acts[k] # None, NEW stage, ActTo(k, stage)
  PROVE  acts' = [acts EXCEPT ![k] = [acts[k] EXCEPT !.stage = stage]]
BY DEF ActTo, SidebarTypeOK

LEMMA StageOnly ==
  ASSUME SidebarTypeOK, AllShaped, NEW k \in Acts, acts[k] # None,
         acts[k].op \in {"update", "delete", "restore", "harddelete"} \/ (acts[k].op \in Ordering /\ acts[k].stage = "write"),
         NEW stage \in {"write", "read"}, ActTo(k, stage)
  PROVE  /\ Onward(k)
         /\ \E a \in Act : /\ acts' = [acts EXCEPT ![k] = a] /\ a.stage = stage /\ a.todo = acts[k].todo
                           /\ a.op = acts[k].op /\ a.x = acts[k].x /\ a.cat = acts[k].cat /\ a.ids = acts[k].ids
                           /\ a.mine = acts[k].mine /\ a.about = acts[k].about /\ a.place = acts[k].place
<1> DEFINE a == [acts[k] EXCEPT !.stage = stage]
<1>1. acts[k] \in Act /\ Shaped(acts[k])
  BY ActIs
<1>2. /\ a \in Act /\ a.stage = stage /\ a.todo = acts[k].todo /\ a.place = acts[k].place /\ a.about = acts[k].about
      /\ a.op = acts[k].op /\ a.x = acts[k].x /\ a.cat = acts[k].cat
      /\ a.ids = acts[k].ids /\ a.mine = acts[k].mine
  BY <1>1 DEF Act
<1>3. acts' = [acts EXCEPT ![k] = a]
  BY StageForm
<1> HIDE DEF a
<1>4. Shaped(a)
  BY <1>1, <1>2 DEF Shaped, Drawn, Ordering
<1> QED
  BY <1>2, <1>3, <1>4 DEF Onward

LEMMA GoneOnward ==
  ASSUME SidebarTypeOK, AllShaped, NEW k \in Acts, ActOver(k) PROVE Onward(k)
BY DEF ActOver, Onward

LEMMA TellsRows ==
  ASSUME SidebarTypeOK, NEW S \in SUBSET Things, NEW xs \in SUBSET S, NEW rws \in Listed,
         \A c \in Chans \ S : rws[c] = sidebar.shown[c],
         NEW t \in Trail, TrailGrows(trail, t), EmitServer(WithChannels(rws), xs, t)
  PROVE  Shows(S) /\ LoadsKept /\ TrailGrows(trail, trail')
<1>1. PICK after \in Sidebar : after = WithChannels(rws) /\ after.shown = rws
        /\ after.headings = sidebar.headings /\ after.open = sidebar.open /\ after.due = sidebar.due
  BY WithRows
<1> QED
  BY <1>1, EmitShows

LEMMA TellsHeads ==
  ASSUME SidebarTypeOK, NEW S \in SUBSET Things, NEW xs \in SUBSET S, NEW heads \in Headed,
         \A g \in Cats \ S : heads[g] = sidebar.headings[g],
         NEW t \in Trail, TrailGrows(trail, t), EmitServer(WithHeadings(heads), xs, t)
  PROVE  Shows(S) /\ LoadsKept /\ TrailGrows(trail, trail')
<1>1. PICK after \in Sidebar : after = WithHeadings(heads) /\ after.headings = heads
        /\ after.shown = sidebar.shown /\ after.open = sidebar.open /\ after.due = sidebar.due
  BY WithHeads
<1> QED
  BY <1>1, EmitShows

LEMMA RowsLocal ==
  ASSUME SidebarTypeOK, NEW c \in Chans, NEW row \in ChannelRow \cup {None}
  PROVE  /\ Adding(sidebar.shown, c, row) \in Listed
         /\ Patching(sidebar.shown, c, row) \in Listed
         /\ Removing(sidebar.shown, c) \in Listed
         /\ \A d \in Chans : d # c => /\ Adding(sidebar.shown, c, row)[d] = sidebar.shown[d]
                                      /\ Patching(sidebar.shown, c, row)[d] = sidebar.shown[d]
                                      /\ Removing(sidebar.shown, c)[d] = sidebar.shown[d]
<1>1. sidebar.shown \in [Chans -> ChannelRow \cup {None}]
  BY ListsAre DEF Listed
<1> QED
  BY <1>1, ListsTypes DEF Listed, Adding, Patching, Removing

LEMMA HeadsLocal ==
  ASSUME SidebarTypeOK, NEW heads \in Headed, NEW g \in Cats, NEW p \in Place \cup {None}
  PROVE  /\ Adding(heads, g, p) \in Headed
         /\ Patching(heads, g, p) \in Headed
         /\ Removing(heads, g) \in Headed
         /\ \A h \in Cats : h # g => /\ Adding(heads, g, p)[h] = heads[h]
                                     /\ Patching(heads, g, p)[h] = heads[h]
                                     /\ Removing(heads, g)[h] = heads[h]
<1>1. heads \in [Cats -> Place \cup {None}]
  BY DEF Headed
<1> QED
  BY <1>1, ListsTypes DEF Headed, Adding, Patching, Removing

LEMMA TrailItself == ASSUME SidebarTypeOK PROVE trail \in Trail /\ TrailGrows(trail, trail)
BY DEF SidebarTypeOK, TrailGrows

LEMMA InsertChannelSteps ==
  ASSUME SidebarTypeOK, AllShaped, NEW k \in Acts, InsertChannel(k) PROVE Stepping(k)
<1> DEFINE a == acts[k]
           c == a.x
           row == [place |-> a.place, cat |-> a.cat, deleted |-> FALSE]
           rws == Adding(sidebar.shown, c, row)
<1>1. /\ a # None /\ a.op = "create" /\ channels' = [channels EXCEPT ![c] = row]
      /\ EmitServer(WithChannels(rws), {c}, trail) /\ ActOver(k) /\ UNCHANGED categories
  BY DEF InsertChannel, ActAt
<1>2. a \in Act /\ Shaped(a) /\ a.about \in SUBSET Things
  BY <1>1, ActIs
<1>3. c \in Chans /\ c \in a.about /\ a.place \in Place /\ a.cat \in Cats \cup {None}
  BY <1>1, <1>2 DEF Shaped, Act
<1>4. row \in ChannelRow
  BY <1>3 DEF ChannelRow
<1> HIDE DEF row
<1>5. rws \in Listed /\ \A d \in Chans \ a.about : rws[d] = sidebar.shown[d]
  BY <1>3, <1>4, RowsLocal
<1> HIDE DEF rws
<1>8. Shows(a.about) /\ LoadsKept /\ TrailGrows(trail, trail')
  BY <1>1, <1>2, <1>3, <1>5, TrailItself, TellsRows
<1>9. Writes(a.about)
  BY <1>1, <1>2, <1>3, <1>4, RowsWritten
<1> QED
  BY <1>1, <1>8, <1>9, GoneOnward DEF Stepping

LEMMA PurgeChannelSteps ==
  ASSUME SidebarTypeOK, AllShaped, NEW k \in Acts, PurgeChannel(k) PROVE Stepping(k)
<1>1. acts[k] # None /\ acts[k].op = "harddelete" /\ ActTo(k, "write")
      /\ UNCHANGED <<channels, categories, sidebar, loads, trail>>
  BY DEF PurgeChannel, ActAt
<1> QED
  BY <1>1, StageOnly, QuietStep, NothingWritten DEF Stepping

LEMMA MarkedIs ==
  ASSUME NEW row \in ChannelRow, NEW a \in Act
  PROVE  /\ Marked(row, a) \in ChannelRow /\ Marked(row, a).place = row.place
         /\ a.op = "update" => Marked(row, a).cat = a.cat /\ Marked(row, a).deleted = row.deleted
         /\ a.op # "update" => Marked(row, a).cat = row.cat /\ Marked(row, a).deleted = (a.op = "delete")
BY DEF Marked, ChannelRow, Act

LEMMA WriteChannelSteps ==
  ASSUME SidebarTypeOK, AllShaped, NEW k \in Acts, WriteChannel(k) PROVE Stepping(k)
<1> DEFINE a == acts[k]
           c == a.x
<1>1. /\ a # None /\ a.op \in {"update", "delete", "restore"} /\ UNCHANGED categories
      /\ channels' = IF channels[c] = None THEN channels ELSE [channels EXCEPT ![c] = Marked(channels[c], a)]
      /\ IF a.op = "delete" THEN ActOver(k) /\ EmitServer(WithChannels(Removing(sidebar.shown, c)), {c}, trail)
         ELSE ActTo(k, "read") /\ UNCHANGED <<sidebar, loads, trail>>
  BY DEF WriteChannel, ActAt, SidebarTypeOK, Listed
<1>2. a \in Act /\ Shaped(a) /\ a.about \in SUBSET Things
  BY <1>1, ActIs
<1>3. c \in Chans /\ c \in a.about
  BY <1>1, <1>2 DEF Shaped
<1>4. Writes(a.about)
  <2>1. CASE channels[c] = None
    BY <1>1, <2>1, NothingWritten
  <2>2. CASE channels[c] # None
    <3>1. channels[c] \in ChannelRow
      BY <1>3, <2>2 DEF SidebarTypeOK, Listed
    <3>2. Marked(channels[c], a) \in ChannelRow
      BY <1>2, <3>1, MarkedIs
    <3> QED
      BY <1>1, <1>2, <1>3, <2>2, <3>2, RowsWritten
  <2> QED
    BY <2>1, <2>2
<1>5. CASE a.op = "delete"
  <2> DEFINE rws == Removing(sidebar.shown, c)
  <2>1. rws \in Listed /\ \A d \in Chans \ a.about : rws[d] = sidebar.shown[d]
    BY <1>3, RowsLocal
  <2>2. EmitServer(WithChannels(rws), {c}, trail) /\ Onward(k)
    BY <1>1, <1>5, GoneOnward
  <2> HIDE DEF rws
  <2>3. Shows(a.about) /\ LoadsKept /\ TrailGrows(trail, trail')
    BY <1>2, <1>3, <2>1, <2>2, TrailItself, TellsRows
  <2> QED
    BY <1>4, <2>2, <2>3 DEF Stepping
<1>6. CASE a.op # "delete"
  BY <1>1, <1>4, <1>6, StageOnly, QuietStep DEF Stepping
<1> QED
  BY <1>5, <1>6

LEMMA ReadChannelAgainSteps ==
  ASSUME SidebarTypeOK, AllShaped, NEW k \in Acts, ReadChannelAgain(k) PROVE Stepping(k)
<1> DEFINE a == acts[k]
           c == a.x
           rws == ToldAgain(a)
<1>1. /\ a # None /\ a.op \in {"update", "restore"} /\ UNCHANGED <<channels, categories>>
      /\ EmitServer(WithChannels(rws), {c}, trail) /\ ActOver(k)
  BY DEF ReadChannelAgain, ActAt
<1>2. a \in Act /\ Shaped(a) /\ a.about \in SUBSET Things
  BY <1>1, ActIs
<1>3. c \in Chans /\ c \in a.about /\ channels[c] \in ChannelRow \cup {None}
  BY <1>1, <1>2 DEF Shaped, SidebarTypeOK, Listed
<1>4. rws \in Listed /\ \A d \in Chans \ a.about : rws[d] = sidebar.shown[d]
  BY <1>3, RowsLocal DEF ToldAgain
<1> HIDE DEF rws
<1>5. Shows(a.about) /\ LoadsKept /\ TrailGrows(trail, trail')
  BY <1>1, <1>2, <1>3, <1>4, TrailItself, TellsRows
<1> QED
  BY <1>1, <1>5, GoneOnward, NothingWritten DEF Stepping

LEMMA DropChannelSteps ==
  ASSUME SidebarTypeOK, AllShaped, NEW k \in Acts, DropChannel(k) PROVE Stepping(k)
<1> DEFINE a == acts[k]
           c == a.x
<1>1. /\ a # None /\ a.op = "harddelete" /\ UNCHANGED <<categories, sidebar>>
      /\ channels' = [channels EXCEPT ![c] = None] /\ ActOver(k)
      /\ loads' = Outdated({c}) \/ loads' = loads
      /\ trail' = [trail EXCEPT !.gone = @ \cup {c}]
  BY DEF DropChannel, ActAt, Removing
<1>2. a \in Act /\ Shaped(a) /\ a.about \in SUBSET Things
  BY <1>1, ActIs
<1>3. c \in Chans /\ c \in a.about /\ {c} \in SUBSET Things
  BY <1>1, <1>2 DEF Shaped, Things
<1>4. Writes(a.about)
  BY <1>1, <1>2, <1>3, RowsWritten
<1>5. LoadsKept
  <2>1. CASE loads' = loads
    BY <2>1 DEF LoadsKept, SidebarTypeOK
  <2>2. CASE loads' = Outdated({c})
    BY <1>3, <2>2, OutdatedTypes DEF LoadsKept
  <2> QED
    BY <1>1, <2>1, <2>2
<1>6. TrailGrows(trail, trail')
  BY <1>1, <1>3 DEF TrailGrows, SidebarTypeOK, Trail
<1>7. Shows(a.about)
  BY <1>1 DEF Shows, SidebarTypeOK
<1> QED
  BY <1>1, <1>4, <1>5, <1>6, <1>7, GoneOnward DEF Stepping

LEMMA InsertCategorySteps ==
  ASSUME SidebarTypeOK, AllShaped, NEW k \in Acts, InsertCategory(k) PROVE Stepping(k)
<1> DEFINE a == acts[k]
           g == a.x
           heads == Adding(sidebar.headings, g, a.place)
<1>1. /\ a # None /\ a.op = "addcat" /\ categories' = [categories EXCEPT ![g] = a.place]
      /\ EmitServer(WithHeadings(heads), {g}, trail) /\ ActOver(k) /\ UNCHANGED channels
  BY DEF InsertCategory, ActAt
<1>2. a \in Act /\ Shaped(a) /\ a.about \in SUBSET Things
  BY <1>1, ActIs
<1>3. g \in Cats /\ g \in a.about /\ a.place \in Place /\ sidebar.headings \in Headed
  BY <1>1, <1>2, ListsAre DEF Shaped
<1>4. heads \in Headed /\ \A h \in Cats \ a.about : heads[h] = sidebar.headings[h]
  <2>1. PICK p \in Place, was \in Headed, e \in Cats : p = a.place /\ was = sidebar.headings /\ e = g
    BY <1>3
  <2>0. p \in Place \cup {None}
    OBVIOUS
  <2>2. Adding(was, e, p) \in Headed /\ \A h \in Cats : h # e => Adding(was, e, p)[h] = was[h]
    BY <2>0, HeadsLocal
  <2> QED
    BY <1>3, <2>1, <2>2
<1> HIDE DEF heads
<1>5. Shows(a.about) /\ LoadsKept /\ TrailGrows(trail, trail')
  BY <1>1, <1>2, <1>3, <1>4, TrailItself, TellsHeads
<1>6. Writes(a.about)
  BY <1>1, <1>2, <1>3, HeadsWritten
<1> QED
  BY <1>1, <1>5, <1>6, GoneOnward DEF Stepping

LEMMA DropCategorySteps ==
  ASSUME SidebarTypeOK, AllShaped, NEW k \in Acts, DropCategory(k) PROVE Stepping(k)
<1> DEFINE a == acts[k]
           g == a.x
           heads == Removing(sidebar.headings, g)
           t == [trail EXCEPT !.gone = trail.gone \cup {g}]
<1>1. /\ a # None /\ a.op = "dropcat" /\ categories' = [categories EXCEPT ![g] = None]
      /\ EmitServer(WithHeadings(heads), {g}, t) /\ ActOver(k) /\ UNCHANGED channels
  BY DEF DropCategory, ActAt, Removing
<1>2. a \in Act /\ Shaped(a) /\ a.about \in SUBSET Things
  BY <1>1, ActIs
<1>3. g \in Cats /\ g \in a.about /\ {g} \in SUBSET Things /\ sidebar.headings \in Headed
  BY <1>1, <1>2, ListsAre DEF Shaped
<1>4. heads \in Headed /\ \A h \in Cats \ a.about : heads[h] = sidebar.headings[h]
  BY <1>3, HeadsLocal
<1>5. t \in Trail /\ TrailGrows(trail, t)
  BY <1>3 DEF SidebarTypeOK, Trail, TrailGrows
<1> HIDE DEF heads, t
<1>6. Shows(a.about) /\ LoadsKept /\ TrailGrows(trail, trail')
  BY <1>1, <1>2, <1>3, <1>4, <1>5, TellsHeads
<1>7. Writes(a.about)
  BY <1>1, <1>2, <1>3, HeadsWritten
<1> QED
  BY <1>1, <1>6, <1>7, GoneOnward DEF Stepping

LEMMA MovedRowIs ==
  ASSUME NEW row \in ChannelRow, NEW m \in Move
  PROVE  /\ MovedRow(row, m) \in ChannelRow /\ MovedRow(row, m).deleted = row.deleted
         /\ MovedRow(row, m).place = IF m.place = None THEN row.place ELSE m.place
         /\ MovedRow(row, m).cat = IF m.moved THEN m.cat ELSE row.cat
<1> DEFINE p == IF m.place = None THEN row.place ELSE m.place
           g == IF m.moved THEN m.cat ELSE row.cat
           r == [row EXCEPT !.place = p, !.cat = g]
<1>1. r = MovedRow(row, m)
  BY DEF MovedRow, ChannelRow
<1>2. p \in Place /\ g \in Cats \cup {None}
  BY DEF ChannelRow, Move
<1> HIDE DEF p, g
<1>3. r \in ChannelRow /\ r.deleted = row.deleted /\ r.place = p /\ r.cat = g
  BY <1>2 DEF ChannelRow
<1> QED
  BY <1>1, <1>3 DEF p, g

(* The first of the moves to come, and the rest.                           *)
LEMMA TodoIs ==
  ASSUME NEW todo \in Seq(Move), todo # <<>>
  PROVE  /\ Len(todo) \in Nat /\ Len(todo) # 0 /\ Head(todo) \in Move /\ Head(todo) = todo[1]
         /\ DOMAIN todo = 1..Len(todo) /\ 1 \in DOMAIN todo
         /\ Tail(todo) \in Seq(Move) /\ Len(Tail(todo)) = Len(todo) - 1
         /\ DOMAIN Tail(todo) = 1..(Len(todo) - 1)
         /\ \A i \in DOMAIN Tail(todo) : i + 1 \in DOMAIN todo /\ Tail(todo)[i] = todo[i + 1]
         /\ Tail(todo) = <<>> <=> Len(todo) = 1
<1>1. Tail(todo) \in Seq(Move) /\ Len(Tail(todo)) = Len(todo) - 1 /\ Len(todo) \in Nat /\ Len(todo) # 0
  OBVIOUS
<1>2. \A s \in Seq(Move) : s = <<>> <=> Len(s) = 0
  OBVIOUS
<1>3. Tail(todo) = <<>> <=> Len(todo) = 1
  <2> DEFINE rest == Tail(todo)
  <2>1. rest \in Seq(Move) /\ Len(rest) = Len(todo) - 1 /\ Len(todo) \in Nat
    BY <1>1
  <2> HIDE DEF rest
  <2>2. rest = <<>> <=> Len(todo) = 1
    BY <1>2, <2>1
  <2> QED
    BY <2>2 DEF rest
<1>4. /\ Head(todo) \in Move /\ Head(todo) = todo[1] /\ DOMAIN todo = 1..Len(todo) /\ 1 \in DOMAIN todo
      /\ DOMAIN Tail(todo) = 1..(Len(todo) - 1)
      /\ \A i \in DOMAIN Tail(todo) : i + 1 \in DOMAIN todo /\ Tail(todo)[i] = todo[i + 1]
  OBVIOUS
<1> QED
  BY <1>1, <1>3, <1>4, Zenon

LEMMA TodoForm ==
  ASSUME SidebarTypeOK, AllShaped, NEW k \in Acts, acts[k] # None, NEW todo,
         acts' = [acts EXCEPT ![k].todo = todo]
  PROVE  acts' = [acts EXCEPT ![k] = [acts[k] EXCEPT !.todo = todo]]
BY DEF SidebarTypeOK

LEMMA FreeChildSteps ==
  ASSUME SidebarTypeOK, AllShaped, NEW k \in Acts, FreeChild(k) PROVE Stepping(k)
<1> DEFINE a == acts[k]
           m == Head(a.todo)
           c == m.id
           rws == Patching(sidebar.shown, c, MovedRow(m.row, m))
           b == [a EXCEPT !.todo = Tail(a.todo)]
<1>1. /\ a # None /\ a.op = "dropcat" /\ a.todo # <<>> /\ UNCHANGED categories
      /\ channels' = IF channels[c] = None THEN channels ELSE [channels EXCEPT ![c] = MovedRow(channels[c], m)]
      /\ EmitServer(WithChannels(rws), {c}, trail)
      /\ acts' = [acts EXCEPT ![k].todo = Tail(a.todo)]
  BY DEF FreeChild, ActAt, SidebarTypeOK, Listed
<1>2. a \in Act /\ Shaped(a) /\ a.about \in SUBSET Things /\ a.todo \in Seq(Move) /\ Freeing(a)
  <2>1. a \in Act /\ Shaped(a) /\ a.about \in SUBSET Things
    BY <1>1, ActIs
  <2> QED
    BY <1>1, <2>1 DEF Act, Shaped
<1>3. m \in Move /\ c \in Chans /\ c \in a.about /\ m.row \in ChannelRow
  BY <1>1, <1>2, TodoIs DEF Freeing
<1>4. MovedRow(m.row, m) \in ChannelRow
  BY <1>3, MovedRowIs
<1>5. rws \in Listed /\ \A d \in Chans \ a.about : rws[d] = sidebar.shown[d]
  <2> HIDE DEF m, c
  <2> QED
    BY <1>3, <1>4, RowsLocal
<1>6. Writes(a.about)
  <2>1. CASE channels[c] = None
    BY <1>1, <2>1, NothingWritten
  <2>2. CASE channels[c] # None
    <3>1. channels[c] \in ChannelRow
      BY <1>3, <2>2 DEF SidebarTypeOK, Listed
    <3>2. MovedRow(channels[c], m) \in ChannelRow
      BY <1>3, <3>1, MovedRowIs
    <3> HIDE DEF m, a
    <3> QED
      BY <1>1, <1>2, <1>3, <2>2, <3>2, RowsWritten
  <2> QED
    BY <2>1, <2>2
<1>7. b \in Act /\ b.todo = Tail(a.todo) /\ b.op = a.op /\ b.x = a.x /\ b.cat = a.cat /\ b.ids = a.ids
      /\ b.mine = a.mine /\ b.about = a.about /\ b.stage = a.stage
  <2>1. Tail(a.todo) \in Seq(Move)
    BY <1>1, <1>2, TodoIs
  <2> QED
    BY <1>2, <2>1 DEF Act
<1>8. acts' = [acts EXCEPT ![k] = b]
  BY <1>1, TodoForm
<1> HIDE DEF b
<1>9. Freeing(b)
  <2>1. \A i \in DOMAIN b.todo : i + 1 \in DOMAIN a.todo /\ b.todo[i] = a.todo[i + 1] /\ i \in Nat
    BY <1>1, <1>2, <1>7, TodoIs
  <2> HIDE DEF m, c
  <2>2. \A i \in DOMAIN b.todo : LET n == b.todo[i]
          IN n.id \in Chans \cap b.about /\ n.place = None /\ n.moved /\ n.cat = None /\ n.row \in ChannelRow
    BY <1>2, <1>7, <2>1 DEF Freeing
  <2>3. ASSUME NEW i \in DOMAIN b.todo, NEW j \in DOMAIN b.todo, b.todo[i].id = b.todo[j].id PROVE i = j
    <3>1. i + 1 = j + 1
      BY <1>2, <2>1, <2>3 DEF Freeing
    <3> QED
      BY <2>1, <3>1
  <2> QED
    BY <1>2, <1>7, <2>2, <2>3 DEF Freeing
<1>10. Onward(k)
  <2>1. Shaped(b)
    BY <1>1, <1>2, <1>7, <1>9 DEF Shaped
  <2> QED
    BY <1>7, <1>8, <2>1 DEF Onward
<1>11. Shows(a.about) /\ LoadsKept /\ TrailGrows(trail, trail')
  <2> HIDE DEF rws, m
  <2> QED
    BY <1>1, <1>2, <1>3, <1>5, TrailItself, TellsRows
<1> QED
  BY <1>6, <1>10, <1>11 DEF Stepping

LEMMA MovesAre ==
  ASSUME NEW T \in SUBSET Things, NEW ids \in Seq(T), NEW rws, NEW leaving, NEW cat \in Cats \cup {None},
         \A i \in DOMAIN ids : PlaceIn(rws, ids[i]) \in Place
  PROVE  LET todo == Moving(rws, ids, leaving, cat)
         IN /\ todo \in Seq(Move)
            /\ \A i \in DOMAIN todo : todo[i].id \in ToSet(ids) /\ todo[i].cat = cat
                                      /\ (leaving = {} => todo[i].place \in Place)
<1> DEFINE todo == Moving(rws, ids, leaving, cat)
           n == Len(todo)
<1>2. \A i \in DOMAIN ids : Dealt(rws, ids)[i] \in Place /\ ids[i] \in Things /\ ids[i] \in ToSet(ids)
  BY DealtTypes DEF ToSet
<1>3. ASSUME NEW i \in Changed(rws, ids, leaving)
      PROVE  LET m == MoveOf(rws, ids, leaving, cat, i)
             IN m \in Move /\ m.id \in ToSet(ids) /\ m.cat = cat /\ (leaving = {} => m.place \in Place)
  <2>1. i \in DOMAIN ids
    BY DEF Changed
  <2>2. leaving = {} => ~Staying(rws, ids, i)
    BY DEF Changed
  <2>3. (IF Staying(rws, ids, i) THEN None ELSE Dealt(rws, ids)[i]) \in Place \cup {None}
    BY <1>2, <2>1
  <2> QED
    BY <1>2, <2>1, <2>2, <2>3 DEF MoveOf, Move
<1>4. /\ n \in Nat /\ DOMAIN todo = 1..n /\ todo = [i \in 1..n |-> todo[i]]
      /\ \A i \in DOMAIN todo : \E j \in Changed(rws, ids, leaving) : todo[i] = MoveOf(rws, ids, leaving, cat, j)
  BY MovingIs
<1> HIDE DEF todo, n
<1>5. \A i \in 1..n : todo[i] \in Move /\ todo[i].id \in ToSet(ids) /\ todo[i].cat = cat
                      /\ (leaving = {} => todo[i].place \in Place)
  BY <1>3, <1>4
<1>6. todo \in Seq(Move)
  BY <1>4, <1>5
<1> QED
  BY <1>4, <1>5, <1>6 DEF todo

LEMMA PlannedForm ==
  ASSUME SidebarTypeOK, AllShaped, NEW k \in Acts, acts[k] # None, NEW todo \in Seq(Move), Planned(k, todo)
  PROVE  /\ todo = <<>> => ActOver(k)
         /\ todo # <<>> => \E b \in Act :
              /\ acts' = [acts EXCEPT ![k] = b] /\ b.todo = todo /\ b.stage = "write"
              /\ b.op = acts[k].op /\ b.x = acts[k].x /\ b.cat = acts[k].cat /\ b.ids = acts[k].ids
              /\ b.mine = acts[k].mine /\ b.about = acts[k].about /\ b.place = acts[k].place
<1>1. acts[k] \in Act
  BY ActIs
<1> DEFINE b == [acts[k] EXCEPT !.todo = todo, !.stage = "write"]
<1>2. /\ b \in Act /\ b.todo = todo /\ b.stage = "write"
      /\ b.op = acts[k].op /\ b.x = acts[k].x /\ b.cat = acts[k].cat /\ b.ids = acts[k].ids
      /\ b.mine = acts[k].mine /\ b.about = acts[k].about /\ b.place = acts[k].place
  BY <1>1 DEF Act
<1>3. acts' = [acts EXCEPT ![k] = IF todo = <<>> THEN None ELSE b]
  BY DEF Planned, SidebarTypeOK
<1> HIDE DEF b
<1> QED
  BY <1>2, <1>3 DEF ActOver

LEMMA OrderPlanned ==
  ASSUME SidebarTypeOK, AllShaped, NEW k \in Acts, acts[k] # None, acts[k].op \in Ordering,
         NEW todo \in Seq(Move), Planned(k, todo),
         \A i \in DOMAIN todo : todo[i].id \in ToSet(acts[k].ids),
         acts[k].op = "reorder" => \A i \in DOMAIN todo : todo[i].cat = acts[k].cat,
         acts[k].op = "sortcats" => \A i \in DOMAIN todo : todo[i].place \in Place
  PROVE  Onward(k)
<1>1. CASE todo = <<>>
  BY <1>1, PlannedForm, GoneOnward
<1>2. CASE todo # <<>>
  <2>1. PICK b \in Act : /\ acts' = [acts EXCEPT ![k] = b] /\ b.todo = todo /\ b.stage = "write"
              /\ b.op = acts[k].op /\ b.x = acts[k].x /\ b.cat = acts[k].cat /\ b.ids = acts[k].ids
              /\ b.mine = acts[k].mine /\ b.about = acts[k].about /\ b.place = acts[k].place
    BY <1>2, PlannedForm
  <2>2. Shaped(acts[k])
    BY ActIs
  <2>3. Shaped(b)
    BY <1>2, <2>1, <2>2 DEF Shaped, Drawn, Ordering
  <2> QED
    BY <2>1, <2>3 DEF Onward
<1> QED
  BY <1>1, <1>2

Known(ids) == \A i \in DOMAIN ids : IF ids[i] \in Chans THEN Live(ids[i]) ELSE categories[ids[i]] # None

LEMMA ListedMoves ==
  ASSUME SidebarTypeOK, AllShaped, NEW k \in Acts, acts[k] # None, acts[k].op \in Ordering, Known(acts[k].ids)
  PROVE  LET a == acts[k]
             todo == IF a.op = "reorder" THEN ChannelMoves(a.ids, a.cat) ELSE CategoryMoves(a.ids)
             rws == IF a.op = "reorder" THEN channels ELSE categories
         IN /\ \A i \in DOMAIN a.ids : PlaceIn(rws, a.ids[i]) \in Place
            /\ todo \in Seq(Move)
            /\ \A i \in DOMAIN todo : todo[i].id \in ToSet(a.ids)
            /\ a.op = "reorder" => \A i \in DOMAIN todo : todo[i].cat = a.cat
            /\ a.op = "sortcats" => \A i \in DOMAIN todo : todo[i].place \in Place
<1> DEFINE a == acts[k]
<1>1. a \in Act /\ Shaped(a) /\ a.cat \in Cats \cup {None}
  BY ActIs DEF Act
<1>2. CASE a.op = "reorder"
  <2>1. a.ids \in Seq(Chans)
    BY <1>1, <1>2 DEF Shaped, Drawn
  <2>2. \A i \in DOMAIN a.ids : PlaceIn(channels, a.ids[i]) \in Place
    <3>1. \A i \in DOMAIN a.ids : a.ids[i] \in Chans
      BY <2>1
    <3>2. \A i \in DOMAIN a.ids : channels[a.ids[i]] \in ChannelRow
      BY <3>1, ListsAre DEF Known, Live, Listed
    <3> QED
      BY <3>1, <3>2 DEF PlaceIn, ChannelRow
  <2>3. PICK ids \in Seq(Chans), cat \in Cats \cup {None} : ids = a.ids /\ cat = a.cat
    BY <1>1, <2>1
  <2> DEFINE leaving == {c \in ToSet(ids) : channels[c].cat # cat}
             todo == Moving(channels, ids, leaving, cat)
  <2> HIDE DEF leaving
  <2>4. todo \in Seq(Move) /\ \A i \in DOMAIN todo : todo[i].id \in ToSet(ids) /\ todo[i].cat = cat
    BY <2>2, <2>3, MovesAre DEF Things
  <2>5. ChannelMoves(a.ids, a.cat) = todo
    BY <2>3 DEF ChannelMoves, leaving
  <2> HIDE DEF todo
  <2> QED
    BY <1>2, <2>2, <2>3, <2>4, <2>5
<1>3. CASE a.op = "sortcats"
  <2>1. a.ids \in Seq(Cats)
    BY <1>1, <1>3 DEF Shaped, Drawn
  <2>2. \A i \in DOMAIN a.ids : PlaceIn(categories, a.ids[i]) \in Place
    <3>1. \A i \in DOMAIN a.ids : a.ids[i] \in Cats /\ a.ids[i] \notin Chans
      BY <2>1, SidebarBounds
    <3>2. \A i \in DOMAIN a.ids : categories[a.ids[i]] \in Place
      BY <3>1, ListsAre DEF Known, Headed
    <3> QED
      BY <3>1, <3>2 DEF PlaceIn
  <2>3. PICK ids \in Seq(Cats) : ids = a.ids
    BY <2>1
  <2> DEFINE todo == Moving(categories, ids, {}, None)
  <2>4. todo \in Seq(Move) /\ \A i \in DOMAIN todo : todo[i].id \in ToSet(ids) /\ todo[i].place \in Place
    BY <2>2, <2>3, MovesAre DEF Things
  <2>5. CategoryMoves(a.ids) = todo
    BY <2>3 DEF CategoryMoves
  <2> HIDE DEF todo
  <2> QED
    BY <1>3, <2>2, <2>3, <2>4, <2>5
<1> QED
  BY <1>2, <1>3 DEF Ordering

LEMMA RefusedShows ==
  ASSUME SidebarTypeOK, AllShaped, NEW k \in Acts, acts[k] # None, Refused(k)
  PROVE  Onward(k) /\ (\A S : Shows(S)) /\ sidebar'.shown = sidebar.shown /\ sidebar'.headings = sidebar.headings
<1>1. acts[k] \in Act
  BY ActIs
<1>2. PICK again \in BOOLEAN : again = (sidebar.due \/ (acts[k].mine /\ sidebar.open))
  OBVIOUS
<1>3. sidebar' = [sidebar EXCEPT !.due = again] /\ (sidebar.due => again)
  <2>1. sidebar.due \in BOOLEAN
    BY DEF SidebarTypeOK, Sidebar
  <2> QED
    BY <1>2 DEF Refused
<1>4. Onward(k)
  BY GoneOnward DEF Refused
<1> QED
  BY <1>3, <1>4, WithDue DEF Shows

LEMMA ListForMovesSteps ==
  ASSUME SidebarTypeOK, AllShaped, NEW k \in Acts, ListForMoves(k) PROVE Stepping(k)
<1>1. acts[k] # None /\ acts[k].op \in Ordering /\ acts[k].stage = "list" /\ UNCHANGED <<channels, categories, loads, trail>>
  BY DEF ListForMoves, ActAt, Ordering
<1>2. CASE ~Known(acts[k].ids)
  <2>1. Refused(k)
    BY <1>2 DEF ListForMoves, Known
  <2>2. LoadsKept /\ TrailGrows(trail, trail')
    BY <1>1 DEF LoadsKept, TrailGrows, SidebarTypeOK
  <2> QED
    BY <1>1, <2>1, <2>2, RefusedShows, NothingWritten DEF Stepping
<1>3. CASE Known(acts[k].ids)
  <2> DEFINE todo == IF acts[k].op = "reorder" THEN ChannelMoves(acts[k].ids, acts[k].cat) ELSE CategoryMoves(acts[k].ids)
  <2>1. Planned(k, todo) /\ UNCHANGED sidebar
    BY <1>3 DEF ListForMoves, Known
  <2>2. /\ todo \in Seq(Move)
        /\ \A i \in DOMAIN todo : todo[i].id \in ToSet(acts[k].ids)
        /\ acts[k].op = "reorder" => \A i \in DOMAIN todo : todo[i].cat = acts[k].cat
        /\ acts[k].op = "sortcats" => \A i \in DOMAIN todo : todo[i].place \in Place
    BY <1>1, <1>3, ListedMoves
  <2> HIDE DEF todo
  <2>3. Onward(k)
    BY <1>1, <2>1, <2>2, OrderPlanned
  <2> QED
    BY <1>1, <2>1, <2>3, QuietStep, NothingWritten DEF Stepping
<1> QED
  BY <1>2, <1>3

LEMMA OrderingIs ==
  ASSUME SidebarTypeOK, AllShaped, NEW k \in Acts, acts[k] # None, acts[k].op \in Ordering, acts[k].stage # "list"
  PROVE  LET a == acts[k]
         IN /\ a \in Act /\ a.about \in SUBSET Things /\ a.todo \in Seq(Move) /\ a.todo # <<>>
            /\ Head(a.todo) \in Move /\ Head(a.todo).id \in ToSet(a.ids) \cap a.about
            /\ a.op = "reorder" => Head(a.todo).id \in Chans
            /\ a.op = "sortcats" => Head(a.todo).id \in Cats /\ Head(a.todo).place \in Place
            /\ ToSet(a.ids) \subseteq a.about
<1> DEFINE a == acts[k]
<1>1. a \in Act /\ Shaped(a) /\ a.about \in SUBSET Things /\ a.todo \in Seq(Move)
  BY ActIs DEF Act
<1>2. a.todo # <<>> /\ \A i \in DOMAIN a.todo : a.todo[i].id \in ToSet(a.ids)
  BY <1>1 DEF Shaped, Drawn, Ordering
<1>3. Head(a.todo) \in Move /\ Head(a.todo) = a.todo[1] /\ 1 \in DOMAIN a.todo
  BY <1>1, <1>2, TodoIs
<1>4. ToSet(a.ids) \subseteq a.about
  BY <1>1 DEF Shaped, Drawn, Ordering
<1>5. a.op = "reorder" => ToSet(a.ids) \subseteq Chans
  BY <1>1 DEF Shaped, Drawn, ToSet
<1>6. a.op = "sortcats" => ToSet(a.ids) \subseteq Cats /\ \A i \in DOMAIN a.todo : a.todo[i].place \in Place
  BY <1>1 DEF Shaped, Drawn, ToSet
<1> QED
  BY <1>1, <1>2, <1>3, <1>4, <1>5, <1>6

LEMMA WriteMoveSteps ==
  ASSUME SidebarTypeOK, AllShaped, NEW k \in Acts, WriteMove(k) PROVE Stepping(k)
<1> DEFINE a == acts[k]
           m == Head(a.todo)
<1>1. /\ a # None /\ a.op \in Ordering /\ a.stage = "write" /\ ActTo(k, "read")
      /\ UNCHANGED <<sidebar, loads, trail>>
      /\ channels' = IF m.id \notin Chans \/ channels[m.id] = None THEN channels
                       ELSE [channels EXCEPT ![m.id] = MovedRow(channels[m.id], m)]
      /\ categories' = IF m.id \notin Cats \/ categories[m.id] = None THEN categories
                         ELSE [categories EXCEPT ![m.id] = m.place]
  BY DEF WriteMove, ActAt, Ordering, SidebarTypeOK, Listed
<1>2. /\ a \in Act /\ a.about \in SUBSET Things /\ m \in Move /\ m.id \in a.about
      /\ (m.id \in Chans \/ (m.id \in Cats /\ m.place \in Place))
  BY <1>1, OrderingIs DEF Ordering
<1> HIDE DEF m
<1>3. Onward(k)
  BY <1>1, StageOnly
<1>4. Writes(a.about)
  <2>1. CASE m.id \in Chans
    <3>1. m.id \notin Cats /\ UNCHANGED categories
      BY <1>1, <2>1, SidebarBounds
    <3>2. CASE channels[m.id] = None
      BY <1>1, <3>1, <3>2, NothingWritten
    <3>3. CASE channels[m.id] # None
      <4>1. MovedRow(channels[m.id], m) \in ChannelRow
        BY <1>2, <2>1, <3>3, MovedRowIs, ListsAre DEF Listed
      <4> QED
        BY <1>1, <1>2, <2>1, <3>1, <4>1, RowsWritten
    <3> QED
      BY <3>2, <3>3
  <2>2. CASE m.id \notin Chans
    <3>1. UNCHANGED channels
      BY <1>1, <2>2
    <3> QED
      BY <1>1, <1>2, <2>2, <3>1, HeadsWritten
  <2> QED
    BY <2>1, <2>2
<1> QED
  BY <1>1, <1>3, <1>4, QuietStep DEF Stepping

LEMMA TellMoveSteps ==
  ASSUME SidebarTypeOK, AllShaped, NEW k \in Acts, TellMove(k) PROVE Stepping(k)
<1> DEFINE a == acts[k]
           x == Head(a.todo).id
           rws == Patching(sidebar.shown, x, channels[x])
           heads == Patching(sidebar.headings, x, categories[x])
           todo == Tail(a.todo)
<1>1. /\ a # None /\ a.op \in Ordering /\ a.stage = "read" /\ Planned(k, todo)
      /\ UNCHANGED <<channels, categories>>
      /\ EmitServer(IF x \in Chans THEN WithChannels(rws) ELSE WithHeadings(heads), {x}, trail)
  BY DEF TellMove, ActAt, Ordering
<1>2. /\ a \in Act /\ a.about \in SUBSET Things /\ a.todo \in Seq(Move) /\ a.todo # <<>> /\ x \in a.about
      /\ x \in Chans \/ x \in Cats
  BY <1>1, OrderingIs DEF Ordering
<1>3. todo \in Seq(Move) /\ \A i \in DOMAIN todo : i + 1 \in DOMAIN a.todo /\ todo[i] = a.todo[i + 1]
  BY <1>2, TodoIs
<1> HIDE DEF todo, x
<1>4. Onward(k)
  <2>1. Shaped(a)
    BY <1>1, ActIs
  <2>2. /\ \A i \in DOMAIN todo : todo[i].id \in ToSet(a.ids)
        /\ a.op = "reorder" => \A i \in DOMAIN todo : todo[i].cat = a.cat
        /\ a.op = "sortcats" => \A i \in DOMAIN todo : todo[i].place \in Place
    BY <1>1, <1>3, <2>1 DEF Shaped, Drawn, Ordering
  <2> QED
    BY <1>1, <1>3, <2>2, OrderPlanned
<1>5. CASE x \in Chans
  <2>1. channels[x] \in ChannelRow \cup {None}
    BY <1>5 DEF SidebarTypeOK, Listed
  <2>2. rws \in Listed /\ \A d \in Chans \ a.about : rws[d] = sidebar.shown[d]
    BY <1>2, <1>5, <2>1, RowsLocal
  <2>3. EmitServer(WithChannels(rws), {x}, trail)
    BY <1>1, <1>5
  <2> HIDE DEF rws
  <2>4. Shows(a.about) /\ LoadsKept /\ TrailGrows(trail, trail')
    BY <1>2, <2>2, <2>3, TrailItself, TellsRows
  <2> QED
    BY <1>1, <1>4, <2>4, NothingWritten DEF Stepping
<1>6. CASE x \notin Chans
  <2>1. PICK g \in Cats, was \in Headed, p \in Place \cup {None} : g = x /\ was = sidebar.headings /\ p = categories[x]
    BY <1>2, <1>6, ListsAre DEF Headed
  <2>2. heads \in Headed /\ \A h \in Cats \ a.about : heads[h] = sidebar.headings[h]
    <3>1. Patching(was, g, p) \in Headed /\ \A h \in Cats : h # g => Patching(was, g, p)[h] = was[h]
      BY HeadsLocal
    <3> QED
      BY <1>2, <2>1, <3>1
  <2>3. EmitServer(WithHeadings(heads), {x}, trail)
    BY <1>1, <1>6
  <2> HIDE DEF heads
  <2>4. Shows(a.about) /\ LoadsKept /\ TrailGrows(trail, trail')
    BY <1>2, <2>2, <2>3, TrailItself, TellsHeads
  <2> QED
    BY <1>1, <1>4, <2>4, NothingWritten DEF Stepping
<1> QED
  BY <1>5, <1>6

LEMMA ListChildrenIs ==
  ASSUME SidebarTypeOK, AllShaped, NEW k \in Acts, ListChildren(k)
  PROVE  LET a == acts[k]
             todo == [i \in DOMAIN Children(a.x) |-> [id |-> Children(a.x)[i], place |-> None, moved |-> TRUE,
                                                      cat |-> None, row |-> channels[Children(a.x)[i]]]]
             clash == Clashing(k, a.about \cup ToSet(Children(a.x)))
         IN /\ a \in Act /\ a.op = "dropcat" /\ a.stage = "list" /\ Children(a.x) \in Seq(Chans) /\ Once(Children(a.x))
            /\ ToSet(Children(a.x)) = Within(channels, a.x) /\ Within(channels, a.x) \subseteq Chans
            /\ todo \in Seq(Move) /\ DOMAIN todo = DOMAIN Children(a.x)
            /\ \E b \in Act : /\ acts' = [acts EXCEPT ![k] = b] /\ b.todo = todo /\ b.stage = "drop"
                              /\ b.about = a.about \cup ToSet(Children(a.x))
                              /\ b.op = a.op /\ b.x = a.x /\ b.cat = a.cat /\ b.ids = a.ids
                              /\ b.mine = a.mine /\ b.place = a.place
            /\ trail' \in Trail /\ trail'.suspect = trail.suspect \cup clash /\ trail'.torn = trail.torn \cup clash
            /\ trail'.raced = trail.raced /\ trail'.gone = trail.gone
            /\ UNCHANGED <<channels, categories, sidebar, loads>>
<1> DEFINE a == acts[k]
           list == Children(a.x)
           S == Within(channels, a.x)
           move(i) == [id |-> list[i], place |-> None, moved |-> TRUE, cat |-> None, row |-> channels[list[i]]]
           todo == [i \in DOMAIN list |-> move(i)]
           about == a.about \cup ToSet(list)
           clash == Clashing(k, about)
           b == [a EXCEPT !.stage = "drop", !.about = about, !.todo = todo]
<1>1. /\ a # None /\ a.op = "dropcat" /\ a.stage = "list" /\ UNCHANGED <<channels, categories, sidebar, loads>>
      /\ acts' = [acts EXCEPT ![k].stage = "drop", ![k].about = about, ![k].todo = todo]
      /\ trail' = [trail EXCEPT !.suspect = trail.suspect \cup clash, !.torn = trail.torn \cup clash]
  BY DEF ListChildren, ActAt
<1>2. a \in Act /\ Shaped(a) /\ a.about \in SUBSET Things
  BY <1>1, ActIs
<1>3. S \subseteq Chans /\ IsFiniteSet(S) /\ \A c \in S : channels[c] \in ChannelRow /\ PlaceIn(channels, c) \in Place
  <2>1. S \subseteq Existing(channels)
    BY DEF Within
  <2>2. /\ Existing(channels) \subseteq Chans /\ IsFiniteSet(Existing(channels))
        /\ \A c \in Existing(channels) : channels[c] \in ChannelRow /\ PlaceIn(channels, c) \in Place
    BY ListsAre
  <2> HIDE DEF S
  <2> QED
    BY <2>1, <2>2, FS_Subset
<1>4. list \in Seq(S) /\ Once(list) /\ ToSet(list) = S
  <2>1. list = ByPlace(channels, S) /\ S \in SUBSET Things
    BY <1>3 DEF Children, Things
  <2> HIDE DEF list, S
  <2> QED
    BY <1>3, <2>1, OrderIs
<1> HIDE DEF list, S
<1>5. list \in Seq(Chans) /\ DOMAIN list = 1..Len(list) /\ Len(list) \in Nat /\ \A i \in DOMAIN list : list[i] \in S
  BY <1>3, <1>4
<1>6. ASSUME NEW i \in DOMAIN list PROVE move(i) \in Move
  BY <1>3, <1>5, <1>6 DEF Move, Things
<1>7. todo \in Seq(Move) /\ DOMAIN todo = DOMAIN list
  <2> HIDE DEF move
  <2> QED
    BY <1>5, <1>6
<1>8. about \in SUBSET Things /\ clash \subseteq Things
  <2>1. about \in SUBSET Things
    BY <1>2, <1>3, <1>4 DEF Things
  <2> HIDE DEF about
  <2> QED
    BY <2>1, ClashingIs
<1> HIDE DEF about, clash, todo
<1>9. /\ b \in Act /\ b.todo = todo /\ b.stage = "drop" /\ b.about = about /\ b.op = a.op /\ b.x = a.x /\ b.cat = a.cat
      /\ b.ids = a.ids /\ b.mine = a.mine /\ b.place = a.place
  BY <1>2, <1>7, <1>8 DEF Act
<1>10. acts' = [acts EXCEPT ![k] = b]
  BY <1>1 DEF SidebarTypeOK
<1>11. /\ trail' \in Trail /\ trail'.suspect = trail.suspect \cup clash /\ trail'.torn = trail.torn \cup clash
       /\ trail'.raced = trail.raced /\ trail'.gone = trail.gone
  BY <1>1, <1>8 DEF SidebarTypeOK, Trail
<1> HIDE DEF b
<1>12. \E e \in Act : /\ acts' = [acts EXCEPT ![k] = e] /\ e.todo = todo /\ e.stage = "drop"
                      /\ e.about = a.about \cup ToSet(list)
                      /\ e.op = a.op /\ e.x = a.x /\ e.cat = a.cat /\ e.ids = a.ids
                      /\ e.mine = a.mine /\ e.place = a.place
  BY <1>9, <1>10 DEF about
<1> QED
  BY <1>1, <1>2, <1>3, <1>4, <1>5, <1>7, <1>11, <1>12 DEF list, S, todo, about, clash

LEMMA ListChildrenSteps ==
  ASSUME SidebarTypeOK, AllShaped, NEW k \in Acts, ListChildren(k) PROVE Stepping(k)
<1> DEFINE a == acts[k]
           list == Children(a.x)
           todo == [i \in DOMAIN list |-> [id |-> list[i], place |-> None, moved |-> TRUE,
                                           cat |-> None, row |-> channels[list[i]]]]
<1>1. /\ a \in Act /\ a.op = "dropcat" /\ list \in Seq(Chans) /\ Once(list) /\ ToSet(list) = Within(channels, a.x)
      /\ Within(channels, a.x) \subseteq Chans /\ todo \in Seq(Move) /\ DOMAIN todo = DOMAIN list
      /\ trail' \in Trail /\ trail.suspect \subseteq trail'.suspect /\ trail.torn \subseteq trail'.torn
      /\ trail'.raced = trail.raced /\ trail'.gone = trail.gone
      /\ UNCHANGED <<channels, categories, sidebar, loads>>
  BY ListChildrenIs
<1>2. PICK b \in Act : /\ acts' = [acts EXCEPT ![k] = b] /\ b.todo = todo /\ b.stage = "drop"
                       /\ b.about = a.about \cup ToSet(list)
                       /\ b.op = a.op /\ b.x = a.x /\ b.cat = a.cat /\ b.ids = a.ids
                       /\ b.mine = a.mine /\ b.place = a.place
  BY ListChildrenIs
<1>3. \A i \in DOMAIN list : list[i] \in Chans /\ list[i] \in Within(channels, a.x) /\ list[i] \in b.about
                             /\ channels[list[i]] \in ChannelRow
  <2>1. \A i \in DOMAIN list : list[i] \in ToSet(list)
    BY DEF ToSet
  <2>2. \A c \in Within(channels, a.x) : channels[c] \in ChannelRow
    BY ListsAre DEF Within
  <2> HIDE DEF list
  <2> QED
    BY <1>1, <1>2, <2>1, <2>2
<1>4. \A i \in DOMAIN b.todo : /\ i \in DOMAIN list /\ b.todo[i].id = list[i] /\ b.todo[i].place = None
                               /\ b.todo[i].moved = TRUE /\ b.todo[i].cat = None /\ b.todo[i].row = channels[list[i]]
  BY <1>1, <1>2
<1> HIDE DEF list, todo
<1>5. Freeing(b)
  BY <1>1, <1>2, <1>3, <1>4 DEF Freeing, Once
<1>6. Shaped(b)
  <2>1. Shaped(a)
    BY <1>1, SidebarRecords, ActIs
  <2> QED
    BY <1>1, <1>2, <1>5, <2>1 DEF Shaped
<1>7. Onward(k)
  BY <1>2, <1>6 DEF Onward
<1>8. TrailGrows(trail, trail')
  BY <1>1 DEF TrailGrows
<1> QED
  BY <1>1, <1>7, <1>8, QuietStep, NothingWritten DEF Stepping

LEMMA SwapIs ==
  ASSUME SidebarTypeOK, AllShaped, NEW k \in Acts, acts[k] # None, acts[k].op = "swap"
  PROVE  LET a == acts[k]
         IN /\ a \in Act /\ Shaped(a) /\ Exchanged(a) /\ a.about \in SUBSET Things /\ a.todo \in Seq(Move)
            /\ a.place \in Place \cup {None}
            /\ a.ids[1] \in Cats \cap a.about /\ a.ids[2] \in Cats \cap a.about /\ a.ids[1] # a.ids[2]
            /\ a.about = {a.ids[1], a.ids[2]}
<1> DEFINE a == acts[k]
<1>1. a \in Act /\ Shaped(a) /\ a.about \in SUBSET Things /\ Exchanged(a)
  BY ActIs DEF Shaped
<1>2. a.ids[1] \in Cats /\ a.ids[2] \in Cats
  BY <1>1 DEF Exchanged
<1> QED
  BY <1>1, <1>2 DEF Act, Exchanged

LEMMA SwapReadsOtherSteps ==
  ASSUME SidebarTypeOK, AllShaped, NEW k \in Acts, SwapReadsOther(k) PROVE Stepping(k)
<1> DEFINE a == acts[k]
           g == a.ids[1]
           h == a.ids[2]
           to(id, place) == [id |-> id, place |-> place, moved |-> FALSE, cat |-> None, row |-> None]
           todo == <<to(g, categories[h]), to(h, a.place)>>
<1>1. /\ a # None /\ a.op = "swap" /\ a.stage = "list" /\ UNCHANGED <<channels, categories, sidebar, loads, trail>>
      /\ IF categories[h] = None THEN ActOver(k) ELSE Planned(k, todo)
  BY DEF SwapReadsOther, ActAt
<1>2. /\ a \in Act /\ Shaped(a) /\ Exchanged(a) /\ g \in Cats \cap a.about /\ h \in Cats \cap a.about
      /\ a.place \in Place
  BY <1>1, SwapIs DEF Exchanged
<1>3. CASE categories[h] # None
  <2>1. categories[h] \in Place
    BY <1>2, <1>3, ListsAre DEF Headed
  <2>2. to(g, categories[h]) \in Move /\ to(h, a.place) \in Move
    BY <1>2, <2>1 DEF Move, Things
  <2>3. PICK m \in Move, n \in Move : m = to(g, categories[h]) /\ n = to(h, a.place)
    BY <2>2
  <2>4. m.id = g /\ m.place = categories[h] /\ n.id = h /\ n.place = a.place
    BY <2>3
  <2>5. PICK list : list = <<m, n>>
    OBVIOUS
  <2>51. list \in Seq(Move)
    BY <2>5
  <2>6. Len(list) = 2 /\ list[1] = m /\ list[2] = n /\ list # <<>> /\ DOMAIN list = 1..2
    BY <2>5
  <2>7. Planned(k, list)
    BY <1>1, <1>3, <2>3, <2>5
  <2>8. PICK b \in Act :
              /\ acts' = [acts EXCEPT ![k] = b] /\ b.todo = list /\ b.stage = "write"
              /\ b.op = a.op /\ b.x = a.x /\ b.cat = a.cat /\ b.ids = a.ids
              /\ b.mine = a.mine /\ b.about = a.about /\ b.place = a.place
    BY <1>1, <2>51, <2>6, <2>7, PlannedForm
  <2>9. \A i \in DOMAIN list : list[i].id \in a.about /\ list[i].place \in Place
    BY <1>2, <2>1, <2>4, <2>6
  <2>10. Exchanged(b)
    BY <1>2, <2>6, <2>8, <2>9 DEF Exchanged
  <2>11. Shaped(b)
    BY <1>1, <2>8, <2>10 DEF Shaped
  <2>12. Onward(k)
    BY <2>8, <2>11 DEF Onward
  <2> QED
    BY <1>1, <2>12, QuietStep, NothingWritten DEF Stepping
<1>4. CASE categories[h] = None
  BY <1>1, <1>4, GoneOnward, QuietStep, NothingWritten DEF Stepping
<1> QED
  BY <1>3, <1>4

LEMMA SwapWritesSteps ==
  ASSUME SidebarTypeOK, AllShaped, NEW k \in Acts, SwapWrites(k) PROVE Stepping(k)
<1> DEFINE a == acts[k]
           m == Head(a.todo)
           stage == IF Len(a.todo) = 1 THEN "read" ELSE "write"
           todo == Tail(a.todo)
           b == [a EXCEPT !.todo = todo, !.stage = stage]
<1>1. /\ a # None /\ a.op = "swap" /\ a.stage = "write" /\ UNCHANGED <<channels, sidebar, loads, trail>>
      /\ categories' = IF categories[m.id] = None THEN categories ELSE [categories EXCEPT ![m.id] = m.place]
      /\ acts' = [acts EXCEPT ![k].todo = todo, ![k].stage = IF Len(a.todo) = 1 THEN "read" ELSE @]
  BY DEF SwapWrites, ActAt
<1>2. a \in Act /\ Shaped(a) /\ Exchanged(a) /\ a.todo \in Seq(Move) /\ a.todo # <<>> /\ a.about \in SUBSET Things
      /\ a.about \subseteq Cats
  BY <1>1, SwapIs DEF Exchanged
<1>3. /\ Len(a.todo) \in Nat /\ Len(a.todo) # 0 /\ m = a.todo[1] /\ 1 \in DOMAIN a.todo /\ todo \in Seq(Move)
      /\ Len(todo) = Len(a.todo) - 1 /\ \A i \in DOMAIN todo : i + 1 \in DOMAIN a.todo /\ todo[i] = a.todo[i + 1]
  BY <1>2, TodoIs
<1>4. m.id \in a.about /\ m.id \in Cats /\ m.place \in Place
  BY <1>2, <1>3 DEF Exchanged
<1>5. todo = <<>> <=> Len(a.todo) = 1
  BY <1>2, TodoIs
<1> HIDE DEF m, todo
<1>6. acts' = [acts EXCEPT ![k] = b]
  BY <1>1 DEF SidebarTypeOK
<1>7. /\ b \in Act /\ b.todo = todo /\ b.stage = stage /\ b.op = a.op /\ b.x = a.x /\ b.cat = a.cat /\ b.ids = a.ids
      /\ b.mine = a.mine /\ b.about = a.about /\ b.place = a.place
  BY <1>2, <1>3 DEF Act
<1> HIDE DEF b
<1>8. Exchanged(b)
  <2>1. \A i \in DOMAIN todo : todo[i].id \in a.about /\ todo[i].place \in Place
    BY <1>2, <1>3 DEF Exchanged
  <2>2. stage \in {"read", "write"} /\ (todo # <<>> <=> stage = "write")
    BY <1>5
  <2> HIDE DEF stage
  <2> QED
    BY <1>2, <1>7, <2>1, <2>2 DEF Exchanged
<1>9. Shaped(b)
  BY <1>1, <1>7, <1>8 DEF Shaped
<1>10. Onward(k)
  BY <1>6, <1>7, <1>9 DEF Onward
<1>11. Writes(a.about)
  <2>1. PICK g \in Cats, p \in Place : g = m.id /\ p = m.place
    BY <1>4
  <2> DEFINE S == a.about
  <2>5. S \in SUBSET Things /\ m.id \in S
    BY <1>2, <1>4
  <2> HIDE DEF S
  <2>2. categories' = categories \/ categories' = [categories EXCEPT ![g] = p]
    BY <1>1, <2>1
  <2>3. g \in S /\ p \in Place \cup {None} /\ UNCHANGED channels
    BY <1>1, <2>1, <2>5
  <2>4. Writes(S)
    BY <2>2, <2>3, <2>5, HeadsWritten
  <2> QED
    BY <2>4 DEF S
<1> QED
  BY <1>1, <1>10, <1>11, QuietStep DEF Stepping

LEMMA SwapReadsAgainSteps ==
  ASSUME SidebarTypeOK, AllShaped, NEW k \in Acts, SwapReadsAgain(k) PROVE Stepping(k)
<1> DEFINE a == acts[k]
           p == categories[a.ids[1]]
           b == [a EXCEPT !.stage = "tell", !.place = p]
<1>1. /\ a # None /\ a.op = "swap" /\ a.stage = "read" /\ UNCHANGED <<channels, categories, sidebar, loads, trail>>
      /\ acts' = [acts EXCEPT ![k].stage = "tell", ![k].place = p]
  BY DEF SwapReadsAgain, ActAt
<1>2. a \in Act /\ Shaped(a) /\ Exchanged(a) /\ a.ids[1] \in Cats
  BY <1>1, SwapIs
<1>3. p \in Place \cup {None}
  BY <1>2, ListsAre DEF Headed
<1>4. acts' = [acts EXCEPT ![k] = b]
  BY <1>1 DEF SidebarTypeOK
<1> HIDE DEF p
<1>5. /\ b \in Act /\ b.todo = a.todo /\ b.stage = "tell" /\ b.op = a.op /\ b.x = a.x /\ b.cat = a.cat /\ b.ids = a.ids
      /\ b.mine = a.mine /\ b.about = a.about
  BY <1>2, <1>3 DEF Act
<1> HIDE DEF b
<1>6. Exchanged(b)
  BY <1>1, <1>2, <1>5 DEF Exchanged
<1>7. Shaped(b)
  BY <1>1, <1>5, <1>6 DEF Shaped
<1>8. Onward(k)
  BY <1>4, <1>5, <1>7 DEF Onward
<1> QED
  BY <1>1, <1>8, QuietStep, NothingWritten DEF Stepping

LEMMA SwapTellsSteps ==
  ASSUME SidebarTypeOK, AllShaped, NEW k \in Acts, SwapTells(k) PROVE Stepping(k)
<1> DEFINE a == acts[k]
           g == a.ids[1]
           h == a.ids[2]
           once == Patching(sidebar.headings, g, a.place)
           twice == Patching(once, h, categories[h])
<1>1. /\ a # None /\ a.op = "swap" /\ ActOver(k) /\ UNCHANGED <<channels, categories>>
      /\ EmitServer(WithHeadings(twice), {g, h}, trail)
  BY DEF SwapTells, ActAt
<1>2. /\ a.about \in SUBSET Things /\ g \in Cats \cap a.about /\ h \in Cats \cap a.about
      /\ a.place \in Place \cup {None} /\ categories[h] \in Place \cup {None} /\ sidebar.headings \in Headed
  BY <1>1, SwapIs, ListsAre DEF Headed
<1>3. once \in Headed /\ \A i \in Cats : i # g => once[i] = sidebar.headings[i]
  BY <1>2, HeadsLocal
<1> HIDE DEF once
<1>4. twice \in Headed /\ \A i \in Cats : i # h => twice[i] = once[i]
  BY <1>2, <1>3, HeadsLocal
<1>5. \A i \in Cats \ a.about : twice[i] = sidebar.headings[i]
  BY <1>2, <1>3, <1>4
<1> HIDE DEF twice
<1>6. Shows(a.about) /\ LoadsKept /\ TrailGrows(trail, trail')
  BY <1>1, <1>2, <1>4, <1>5, TrailItself, TellsHeads
<1> QED
  BY <1>1, <1>6, GoneOnward, NothingWritten DEF Stepping

LEMMA ActThrowsSteps ==
  ASSUME SidebarTypeOK, AllShaped, NEW k \in Acts, ActThrows(k) PROVE Stepping(k)
<1> DEFINE a == acts[k]
<1>1. /\ a # None /\ trail.throws < MaxThrows /\ Refused(k) /\ loads' = Outdated(a.about)
      /\ UNCHANGED <<channels, categories>>
      /\ trail' = [trail EXCEPT !.throws = trail.throws + 1, !.suspect = trail.suspect \cup a.about,
                     !.torn = trail.torn \cup a.about, !.raced = trail.raced \cup Placing(a.op)]
  BY DEF ActThrows
<1>2. a.about \in SUBSET Things /\ Placing(a.op) \subseteq {"channels", "categories"}
  BY <1>1, ActIs DEF Placing
<1>3. trail \in Trail /\ trail.throws + 1 \in 0..MaxThrows
  BY <1>1, SidebarBounds DEF SidebarTypeOK, Trail
<1>4. trail' \in Trail /\ TrailGrows(trail, trail')
  BY <1>1, <1>2, <1>3 DEF Trail, TrailGrows
<1>5. LoadsKept
  BY <1>1, <1>2, OutdatedTypes DEF LoadsKept
<1> QED
  BY <1>1, <1>4, <1>5, RefusedShows, NothingWritten DEF Stepping

LEMMA StepIs ==
  ASSUME SidebarTypeOK, AllShaped, NEW k \in Acts, ActStep(k) PROVE Stepping(k)
BY InsertChannelSteps, PurgeChannelSteps, WriteChannelSteps, ReadChannelAgainSteps, DropChannelSteps,
   ListForMovesSteps, WriteMoveSteps, TellMoveSteps, InsertCategorySteps, ListChildrenSteps, FreeChildSteps,
   DropCategorySteps, SwapReadsOtherSteps, SwapWritesSteps, SwapReadsAgainSteps, SwapTellsSteps, ActThrowsSteps
   DEF ActStep

LEMMA ReorderedIs ==
  ASSUME SidebarTypeOK, NEW rws \in Listed, NEW ids \in Seq(Chans), ToSet(ids) \subseteq Existing(rws),
         NEW cat \in Cats \cup {None}
  PROVE  /\ Reordered(rws, ids, cat) \in Listed
         /\ \A c \in Chans : IF c \in ToSet(ids)
              THEN /\ Reordered(rws, ids, cat)[c] = [rws[c] EXCEPT !.place = Dealt(rws, ids)[IndexIn(ids, c)], !.cat = cat]
                   /\ Reordered(rws, ids, cat)[c] \in ChannelRow
              ELSE Reordered(rws, ids, cat)[c] = rws[c]
<1>1. \A c \in ToSet(ids) : rws[c] \in ChannelRow /\ PlaceIn(rws, c) \in Place
  BY ListsAre
<1>2. \A i \in DOMAIN ids : ids[i] \in ToSet(ids)
  BY DEF ToSet
<1>3. \A i \in DOMAIN ids : Dealt(rws, ids)[i] \in Place
  BY <1>1, <1>2, DealtTypes
<1>4. ASSUME NEW c \in ToSet(ids)
      PROVE  [rws[c] EXCEPT !.place = Dealt(rws, ids)[IndexIn(ids, c)], !.cat = cat] \in ChannelRow
  <2>1. IndexIn(ids, c) \in DOMAIN ids
    BY IndexIs
  <2>2. PICK p \in Place, row \in ChannelRow : p = Dealt(rws, ids)[IndexIn(ids, c)] /\ row = rws[c]
    BY <1>1, <1>3, <2>1
  <2>3. [row EXCEPT !.place = p, !.cat = cat] \in ChannelRow
    BY DEF ChannelRow
  <2> QED
    BY <2>2, <2>3
<1>5. \A c \in Chans : rws[c] \in ChannelRow \cup {None}
  BY DEF Listed
<1>6. \A c \in Chans : Reordered(rws, ids, cat)[c] =
        IF c \in ToSet(ids) THEN [rws[c] EXCEPT !.place = Dealt(rws, ids)[IndexIn(ids, c)], !.cat = cat] ELSE rws[c]
  BY DEF Reordered
<1>7. \A c \in Chans : Reordered(rws, ids, cat)[c] \in ChannelRow \cup {None}
  BY <1>4, <1>5, <1>6
<1>8. Reordered(rws, ids, cat) = [c \in Chans |-> Reordered(rws, ids, cat)[c]]
  BY DEF Reordered
<1>9. Reordered(rws, ids, cat) \in Listed
  <2> DEFINE r == Reordered(rws, ids, cat)
  <2>1. r = [c \in Chans |-> r[c]] /\ \A c \in Chans : r[c] \in ChannelRow \cup {None}
    BY <1>7, <1>8
  <2> HIDE DEF r
  <2>2. r \in Listed
    BY <2>1 DEF Listed
  <2> QED
    BY <2>2 DEF r
<1> QED
  BY <1>4, <1>6, <1>9

LEMMA ResortedIs ==
  ASSUME SidebarTypeOK, NEW heads \in Headed, NEW ids \in Seq(Cats), ToSet(ids) \subseteq Existing(heads)
  PROVE  /\ Resorted(heads, ids) \in Headed
         /\ \A g \in Cats : IF g \in ToSet(ids)
              THEN /\ Resorted(heads, ids)[g] = Dealt(heads, ids)[IndexIn(ids, g)]
                   /\ Resorted(heads, ids)[g] \in Place
              ELSE Resorted(heads, ids)[g] = heads[g]
<1>1. \A g \in ToSet(ids) : PlaceIn(heads, g) \in Place
  BY ListsAre
<1>2. \A i \in DOMAIN ids : ids[i] \in ToSet(ids)
  BY DEF ToSet
<1>3. \A i \in DOMAIN ids : Dealt(heads, ids)[i] \in Place
  BY <1>1, <1>2, DealtTypes
<1>4. \A g \in ToSet(ids) : Dealt(heads, ids)[IndexIn(ids, g)] \in Place
  BY <1>3, IndexIs
<1>5. \A g \in Cats : heads[g] \in Place \cup {None}
  BY DEF Headed
<1>6. \A g \in Cats : Resorted(heads, ids)[g] = IF g \in ToSet(ids) THEN Dealt(heads, ids)[IndexIn(ids, g)] ELSE heads[g]
  BY DEF Resorted
<1>7. Resorted(heads, ids) = [g \in Cats |-> Resorted(heads, ids)[g]]
  BY DEF Resorted
<1>8. Resorted(heads, ids) \in Headed
  <2> DEFINE r == Resorted(heads, ids)
  <2>1. r = [g \in Cats |-> r[g]] /\ \A g \in Cats : r[g] \in Place \cup {None}
    BY <1>4, <1>5, <1>6, <1>7
  <2> HIDE DEF r
  <2>2. r \in Headed
    BY <2>1 DEF Headed
  <2> QED
    BY <2>2 DEF r
<1> QED
  BY <1>4, <1>6, <1>8

(* What a drag of ours shows at once.                                      *)
LEMMA DraggingIs ==
  ASSUME SidebarTypeOK, NEW a, Begun(a), NEW more, Dragging(a, more)
  PROVE  /\ sidebar' \in Sidebar /\ sidebar'.open = sidebar.open /\ sidebar'.due = sidebar.due
         /\ a.op = "reorder" => sidebar'.headings = sidebar.headings /\ a.ids \in Seq(Chans)
                                /\ sidebar'.shown = Reordered(sidebar.shown, a.ids, a.cat)
         /\ a.op = "sortcats" => sidebar'.shown = sidebar.shown /\ a.ids \in Seq(Cats)
                                 /\ sidebar'.headings = Resorted(sidebar.headings, a.ids)
         /\ ToSet(a.ids) \subseteq a.about /\ a.cat \in Cats \cup {None} /\ Once(a.ids) /\ a.stage = "list"
<1>1. a \in Act /\ Shaped(a) /\ a.op \in Ordering /\ a.cat \in Cats \cup {None} /\ a.stage = "list"
  BY DEF Begun, Dragging, Act
<1>2. ToSet(a.ids) \subseteq a.about /\ Once(a.ids)
  BY <1>1 DEF Shaped, Drawn, Ordering
<1>3. CASE a.op = "reorder"
  <2>1. a.ids \in Seq(Chans) /\ sidebar.shown \in Listed /\ ToSet(a.ids) \subseteq Existing(sidebar.shown)
    BY <1>1, <1>3, ListsAre DEF Shaped, Drawn, Dragging
  <2>2. Reordered(sidebar.shown, a.ids, a.cat) \in Listed /\ sidebar' = WithChannels(Reordered(sidebar.shown, a.ids, a.cat))
    BY <1>1, <1>3, <2>1, ReorderedIs DEF Dragging
  <2> QED
    BY <1>1, <1>2, <1>3, <2>1, <2>2, WithRows
<1>4. CASE a.op = "sortcats"
  <2>1. a.ids \in Seq(Cats) /\ sidebar.headings \in Headed /\ ToSet(a.ids) \subseteq Existing(sidebar.headings)
    BY <1>1, <1>4, ListsAre DEF Shaped, Drawn, Dragging
  <2>2. Resorted(sidebar.headings, a.ids) \in Headed /\ sidebar' = WithHeadings(Resorted(sidebar.headings, a.ids))
    BY <1>1, <1>4, <2>1, ResortedIs DEF Dragging
  <2> QED
    BY <1>1, <1>2, <1>4, <2>1, <2>2, WithHeads
<1> QED
  BY <1>1, <1>3, <1>4 DEF Ordering

LEMMA BeginningTypes ==
  ASSUME SidebarTypeOK, AllShaped, NEW k \in Acts, Beginning(k) PROVE SidebarTypeOK' /\ AllShaped'
<1>1. PICK a, more : /\ Begun(a) /\ more \in SUBSET Things /\ Starts(k, a, more)
                     /\ (sidebar' = sidebar /\ ~a.mine) \/ Dragging(a, more)
  BY DEF Beginning
<1>2. UNCHANGED <<channels, categories, loads>>
  BY DEF Beginning
<1>3. a \in Act /\ Shaped(a)
  BY <1>1 DEF Begun
<1>4. acts' \in [Acts -> Act \cup {None}] /\ AllShaped' /\ trail' \in Trail
  BY <1>1, <1>3, BeginTypes
<1>5. sidebar' \in Sidebar
  BY <1>1, DraggingIs DEF SidebarTypeOK
<1> QED
  BY <1>2, <1>4, <1>5 DEF SidebarTypeOK

LEMMA SteppingTypes ==
  ASSUME SidebarTypeOK, AllShaped, NEW k \in Acts, Stepping(k) PROVE SidebarTypeOK' /\ AllShaped'
<1>1. PICK a : acts' = [acts EXCEPT ![k] = a] /\ (a = None \/ (a \in Act /\ Shaped(a)))
  BY DEF Stepping, Onward
<1>2. acts' \in [Acts -> Act \cup {None}] /\ AllShaped'
  BY <1>1, ActsMove
<1> QED
  BY <1>2 DEF Stepping, Writes, Shows, LoadsKept, TrailGrows, SidebarTypeOK

-----------------------------------------------------------------------------
(* The loads of the sidebar.                                               *)
LEMMA LoadIs ==
  ASSUME SidebarTypeOK, NEW l \in Loads, loads[l] # None
  PROVE  /\ loads[l] \in Load /\ loads[l].stale \subseteq Things
         /\ loads[l].chans \in Listed \cup {None} /\ loads[l].cats \in Headed \cup {None}
BY DEF SidebarTypeOK, Load

LEMMA NowhereIs == Nowhere \in Listed /\ NoHeading \in Headed
BY DEF Nowhere, NoHeading, Listed, Headed

LEMMA VisitTypes ==
  ASSUME SidebarTypeOK, trail.visits < MaxVisits
  PROVE  /\ Visited \in Trail /\ Visited.suspect = trail.suspect /\ Visited.torn = trail.torn
         /\ Visited.raced = trail.raced /\ Visited.gone = trail.gone
<1>1. trail.visits + 1 \in 0..MaxVisits
  BY SidebarBounds DEF SidebarTypeOK, Trail
<1> QED
  BY <1>1 DEF Visited, SidebarTypeOK, Trail

LEMMA StartingIs ==
  ASSUME NEW kind \in {"open", "refresh"}
  PROVE  /\ Starting(kind) \in Load /\ Starting(kind).chans = None /\ Starting(kind).cats = None
         /\ Starting(kind).stale = {}
BY DEF Starting, Load

LEMMA OpensIs ==
  ASSUME SidebarTypeOK, NEW l \in Loads, OpenServer(l) \/ Refresh(l)
  PROVE  /\ SidebarTypeOK'
         /\ UNCHANGED <<channels, categories, acts>>
         /\ trail'.suspect = trail.suspect /\ trail'.torn = trail.torn /\ trail'.raced = trail.raced
         /\ loads[l] = None /\ loads'[l] # None /\ loads'[l].chans = None /\ loads'[l].cats = None
         /\ \A m \in Loads \ {l} : loads'[m] = loads[m]
         /\ \/ ~sidebar.open /\ sidebar'.open /\ sidebar'.shown = Nowhere /\ sidebar'.headings = NoHeading
               /\ loads'[l].kind = "open"
            \/ sidebar.open /\ sidebar'.open /\ sidebar'.shown = sidebar.shown /\ sidebar'.headings = sidebar.headings
               /\ loads'[l].kind = "refresh"
<1>1. /\ loads[l] = None /\ trail.visits < MaxVisits /\ trail' = Visited /\ UNCHANGED <<channels, categories, acts>>
      /\ (\/ ~sidebar.open /\ loads' = [loads EXCEPT ![l] = Starting("open")]
             /\ sidebar' = [open |-> TRUE, shown |-> Nowhere, headings |-> NoHeading, due |-> FALSE]
          \/ sidebar.open /\ loads' = [loads EXCEPT ![l] = Starting("refresh")]
             /\ sidebar' = [sidebar EXCEPT !.due = FALSE])
  BY DEF OpenServer, Refresh
<1>2. PICK x \in Load : /\ x.chans = None /\ x.cats = None /\ loads' = [loads EXCEPT ![l] = x]
                        /\ x = Starting("open") \/ x = Starting("refresh")
  BY <1>1, StartingIs
<1>3. loads' \in [Loads -> Load \cup {None}] /\ loads'[l] = x /\ x # None /\ \A m \in Loads \ {l} : loads'[m] = loads[m]
  BY <1>2, SidebarRecords DEF SidebarTypeOK
<1>4. /\ trail' \in Trail /\ trail'.suspect = trail.suspect /\ trail'.torn = trail.torn /\ trail'.raced = trail.raced
  BY <1>1, VisitTypes
<1>5. CASE ~sidebar.open
  <2>1. sidebar' = [open |-> TRUE, shown |-> Nowhere, headings |-> NoHeading, due |-> FALSE] /\ loads'[l] = Starting("open")
    BY <1>1, <1>5 DEF SidebarTypeOK
  <2>2. sidebar' \in Sidebar /\ sidebar'.open /\ sidebar'.shown = Nowhere /\ sidebar'.headings = NoHeading
    BY <2>1, NowhereIs DEF Sidebar
  <2>3. loads'[l].kind = "open"
    BY <2>1 DEF Starting
  <2> QED
    BY <1>1, <1>2, <1>3, <1>4, <1>5, <2>2, <2>3 DEF SidebarTypeOK
<1>6. CASE sidebar.open
  <2>1. sidebar' = [sidebar EXCEPT !.due = FALSE] /\ loads'[l] = Starting("refresh")
    BY <1>1, <1>6 DEF SidebarTypeOK
  <2>2. sidebar' \in Sidebar /\ sidebar'.open /\ sidebar'.shown = sidebar.shown /\ sidebar'.headings = sidebar.headings
    BY <1>6, <2>1, WithDue
  <2>3. loads'[l].kind = "refresh"
    BY <2>1 DEF Starting
  <2> QED
    BY <1>1, <1>2, <1>3, <1>4, <1>6, <2>2, <2>3 DEF SidebarTypeOK
<1> QED
  BY <1>5, <1>6

LEMMA ReadsIs ==
  ASSUME SidebarTypeOK, NEW l \in Loads, ReadChannels(l) \/ ReadCategories(l)
  PROVE  /\ SidebarTypeOK' /\ UNCHANGED <<channels, categories, acts, sidebar, trail>>
         /\ loads[l] # None /\ loads'[l] # None /\ loads'[l].kind = loads[l].kind /\ loads'[l].stale = loads[l].stale
         /\ \A m \in Loads \ {l} : loads'[m] = loads[m]
         /\ \/ loads[l].chans = None /\ loads'[l].chans = LiveRows /\ loads'[l].cats = loads[l].cats
            \/ loads[l].cats = None /\ loads'[l].cats = categories /\ loads'[l].chans = loads[l].chans
<1>1. UNCHANGED <<channels, categories, acts, sidebar, trail>> /\ loads[l] # None /\ loads[l] \in Load
  BY DEF ReadChannels, ReadCategories, SidebarTypeOK
<1> DEFINE x == [loads[l] EXCEPT !.chans = LiveRows]
           y == [loads[l] EXCEPT !.cats = categories]
<1>2. /\ x \in Load /\ x.chans = LiveRows /\ x.cats = loads[l].cats /\ x.kind = loads[l].kind /\ x.stale = loads[l].stale
      /\ y \in Load /\ y.cats = categories /\ y.chans = loads[l].chans /\ y.kind = loads[l].kind /\ y.stale = loads[l].stale
  BY <1>1, ListsAre DEF Load
<1>3. (loads[l].chans = None /\ loads' = [loads EXCEPT ![l] = x]) \/ (loads[l].cats = None /\ loads' = [loads EXCEPT ![l] = y])
  BY DEF ReadChannels, ReadCategories, SidebarTypeOK
<1> HIDE DEF x, y
<1>4. PICK z \in Load : /\ loads' = [loads EXCEPT ![l] = z]
                        /\ (loads[l].chans = None /\ z = x) \/ (loads[l].cats = None /\ z = y)
  BY <1>2, <1>3
<1>5. loads' \in [Loads -> Load \cup {None}] /\ loads'[l] = z /\ z # None /\ \A m \in Loads \ {l} : loads'[m] = loads[m]
  BY <1>4, SidebarRecords DEF SidebarTypeOK
<1>6. SidebarTypeOK'
  BY <1>1, <1>5 DEF SidebarTypeOK
<1> QED
  BY <1>1, <1>2, <1>4, <1>5, <1>6

LEMMA ReplacedIs ==
  ASSUME SidebarTypeOK, NEW l \in Loads, ListsReplaced(l)
  PROVE  /\ SidebarTypeOK' /\ UNCHANGED <<channels, categories, acts>>
         /\ loads[l] # None /\ loads[l].chans \in Listed /\ loads[l].cats \in Headed
         /\ sidebar'.shown = loads[l].chans /\ sidebar'.headings = loads[l].cats
         /\ sidebar'.open = sidebar.open /\ sidebar'.due = sidebar.due
         /\ loads'[l] = None /\ \A m \in Loads \ {l} : loads'[m] = loads[m]
         /\ trail'.suspect = loads[l].stale \cup (trail.suspect \cap InWork)
         /\ trail'.torn = trail.torn /\ trail'.raced = trail.raced
<1>1. /\ loads[l] # None /\ loads[l].chans # None /\ loads[l].cats # None
      /\ sidebar' = [sidebar EXCEPT !.shown = loads[l].chans, !.headings = loads[l].cats]
      /\ loads' = [loads EXCEPT ![l] = None]
      /\ trail' = [trail EXCEPT !.suspect = loads[l].stale \cup (trail.suspect \cap InWork)]
      /\ UNCHANGED <<channels, categories, acts>>
  BY DEF ListsReplaced, SidebarTypeOK
<1>2. loads[l].stale \subseteq Things /\ loads[l].chans \in Listed /\ loads[l].cats \in Headed
  BY <1>1, LoadIs
<1>3. /\ sidebar' \in Sidebar /\ sidebar'.shown = loads[l].chans /\ sidebar'.headings = loads[l].cats
      /\ sidebar'.open = sidebar.open /\ sidebar'.due = sidebar.due
  BY <1>1, <1>2 DEF SidebarTypeOK, Sidebar
<1>4. /\ trail' \in Trail /\ trail'.suspect = loads[l].stale \cup (trail.suspect \cap InWork)
      /\ trail'.torn = trail.torn /\ trail'.raced = trail.raced
  BY <1>1, <1>2 DEF SidebarTypeOK, Trail
<1>5. loads' \in [Loads -> Load \cup {None}] /\ loads'[l] = None /\ \A m \in Loads \ {l} : loads'[m] = loads[m]
  BY <1>1 DEF SidebarTypeOK
<1> QED
  BY <1>1, <1>2, <1>3, <1>4, <1>5 DEF SidebarTypeOK

LEMMA ThrowsIs ==
  ASSUME SidebarTypeOK, NEW l \in Loads, LoadThrows(l)
  PROVE  /\ SidebarTypeOK' /\ UNCHANGED <<channels, categories, acts>>
         /\ loads[l] # None /\ trail'.suspect = Things /\ trail'.torn = trail.torn /\ trail'.raced = trail.raced
         /\ \A m \in Loads \ {l} : loads'[m] = loads[m]
         /\ \/ /\ loads[l].cats = None /\ loads'[l] # None /\ loads'[l].cats = NoHeading
               /\ loads'[l].chans = loads[l].chans /\ loads'[l].kind = loads[l].kind
               /\ loads'[l].stale = loads[l].stale \cup Cats /\ sidebar' = sidebar
            \/ /\ loads'[l] = None /\ sidebar'.open = sidebar.open /\ sidebar'.headings = sidebar.headings
               /\ sidebar'.due = sidebar.due
               /\ sidebar'.shown = IF loads[l].kind = "open" THEN Nowhere ELSE sidebar.shown
<1>1. /\ loads[l] # None /\ trail.throws < MaxThrows /\ UNCHANGED <<channels, categories, acts>>
      /\ trail' = [trail EXCEPT !.throws = trail.throws + 1, !.suspect = trail.suspect \cup Things]
  BY DEF LoadThrows
<1> DEFINE x == [loads[l] EXCEPT !.cats = NoHeading, !.stale = loads[l].stale \cup Cats]
           s == [sidebar EXCEPT !.shown = Nowhere]
<1>2. \/ loads[l].cats = None /\ loads' = [loads EXCEPT ![l] = x] /\ sidebar' = sidebar
      \/ loads' = [loads EXCEPT ![l] = None] /\ sidebar' = IF loads[l].kind = "open" THEN s ELSE sidebar
  BY DEF LoadThrows, SidebarTypeOK
<1>3. loads[l] \in Load /\ loads[l].stale \cup Cats \subseteq Things
  BY <1>1, LoadIs DEF Things
<1>4. /\ x \in Load /\ x.cats = NoHeading /\ x.chans = loads[l].chans /\ x.kind = loads[l].kind
      /\ x.stale = loads[l].stale \cup Cats
  BY <1>3, NowhereIs DEF Load
<1>5. s \in Sidebar /\ s.shown = Nowhere /\ s.open = sidebar.open /\ s.headings = sidebar.headings /\ s.due = sidebar.due
  BY NowhereIs DEF SidebarTypeOK, Sidebar
<1>6. /\ trail' \in Trail /\ trail'.suspect = Things /\ trail'.torn = trail.torn /\ trail'.raced = trail.raced
  <2>1. trail.throws + 1 \in 0..MaxThrows /\ trail.suspect \subseteq Things
    BY <1>1, SidebarBounds DEF SidebarTypeOK, Trail
  <2> QED
    BY <1>1, <2>1 DEF SidebarTypeOK, Trail
<1> HIDE DEF x, s
<1>7. CASE loads[l].cats = None /\ loads' = [loads EXCEPT ![l] = x] /\ sidebar' = sidebar
  <2>1. loads' \in [Loads -> Load \cup {None}] /\ loads'[l] = x /\ x # None /\ \A m \in Loads \ {l} : loads'[m] = loads[m]
    BY <1>4, <1>7, SidebarRecords DEF SidebarTypeOK
  <2> QED
    BY <1>1, <1>4, <1>6, <1>7, <2>1 DEF SidebarTypeOK
<1>8. CASE loads' = [loads EXCEPT ![l] = None] /\ sidebar' = IF loads[l].kind = "open" THEN s ELSE sidebar
  <2>1. loads' \in [Loads -> Load \cup {None}] /\ loads'[l] = None /\ \A m \in Loads \ {l} : loads'[m] = loads[m]
    BY <1>8 DEF SidebarTypeOK
  <2>2. sidebar' \in Sidebar
    BY <1>5, <1>8 DEF SidebarTypeOK
  <2> QED
    BY <1>1, <1>5, <1>6, <1>8, <2>1, <2>2 DEF SidebarTypeOK
<1> QED
  BY <1>2, <1>7, <1>8

SideInv == SidebarTypeOK /\ AllShaped

LEMMA ShapedStands == ASSUME AllShaped, UNCHANGED acts PROVE AllShaped'
BY DEF AllShaped, Busy

LEMMA SideTypes ==
  ASSUME SideInv, [ServerNext]_serverVars PROVE SideInv'
<1>1. CASE UNCHANGED serverVars
  BY <1>1, ShapedStands DEF serverVars, SideInv, SidebarTypeOK
<1>2. ASSUME NEW k \in Acts, ActStarts(k) \/ ActStep(k) PROVE SideInv'
  BY <1>2, ActBegins, BeginningTypes, StepIs, SteppingTypes DEF SideInv
<1>3. ASSUME NEW l \in Loads, SidebarStep(l) \/ ShowLists(l) PROVE SideInv'
  <2>1. SidebarTypeOK' /\ UNCHANGED acts
    BY <1>3, OpensIs, ReadsIs, ThrowsIs, ReplacedIs DEF SidebarStep, ShowLists, SideInv
  <2> QED
    BY <2>1, ShapedStands DEF SideInv
<1> QED
  BY <1>1, <1>2, <1>3 DEF ServerNext

LEMMA SideStarts == ServerInit => SideInv
<1> SUFFICES ASSUME ServerInit PROVE SideInv
  OBVIOUS
<1>1. PICK c \in Chans : channels = [Nowhere EXCEPT ![c] = [place |-> 0, cat |-> None, deleted |-> FALSE]]
  BY DEF ServerInit
<1>2. 0 \in Place
  BY SidebarBounds DEF Place
<1>3. channels \in Listed
  <2>1. PICK row \in ChannelRow : row = [place |-> 0, cat |-> None, deleted |-> FALSE]
    BY <1>2 DEF ChannelRow
  <2> QED
    BY <1>1, <2>1, NowhereIs DEF Listed
<1>4. sidebar \in Sidebar
  BY NowhereIs DEF ServerInit, Sidebar
<1>5. trail \in Trail
  BY SidebarBounds DEF ServerInit, Trail
<1>6. categories \in Headed
  BY NowhereIs DEF ServerInit
<1>7. acts = [k \in Acts |-> None] /\ loads = [l \in Loads |-> None]
  BY DEF ServerInit
<1> QED
  BY <1>3, <1>4, <1>5, <1>6, <1>7 DEF SideInv, SidebarTypeOK, AllShaped, Busy

-----------------------------------------------------------------------------
(* The messages of a channel.                                              *)
TalkTypeOK ==
  /\ rows \in [Messages -> Row \cup {None}] /\ pins \subseteq Messages
  /\ clock \in 0..MaxPosts /\ due \subseteq Messages
  /\ jobs \in [Jobs -> Job \cup {None}] /\ fetches \in [Fetches -> Fetch \cup {None}]
  /\ reveal \in BOOLEAN /\ app \in App /\ log \in Log
JobShaped(j) ==
  /\ j.stage = "pins" => j.op \in Pinning \cup {"harddelete"}
  /\ j.stage = "read" => j.op \in {"delete", "restore"}
  /\ j.stage = "tell" /\ j.op \in {"post", "send", "restore"} \cup Edits => j.copy # None
  /\ j.stage = "answer" => j.op = "send" /\ j.copy # None
JobsShaped == \A k \in Jobs : jobs[k] # None => JobShaped(jobs[k])
TalkInv == TalkTypeOK /\ JobsShaped

LEMMA JobIs ==
  ASSUME TalkInv, NEW k \in Jobs, jobs[k] # None
  PROVE  /\ jobs[k] \in Job /\ JobShaped(jobs[k]) /\ jobs[k].m \in Messages
         /\ jobs[k].copy \in Row \cup {None} /\ rows[jobs[k].m] \in Row \cup {None}
<1>1. jobs[k] \in Job
  BY DEF TalkInv, TalkTypeOK
<1> QED
  BY <1>1 DEF TalkInv, TalkTypeOK, JobsShaped, Job

LEMMA JobsMove ==
  ASSUME TalkInv, NEW k \in Jobs, NEW j, jobs' = [jobs EXCEPT ![k] = j],
         j = None \/ (j \in Job /\ JobShaped(j))
  PROVE  jobs' \in [Jobs -> Job \cup {None}] /\ JobsShaped'
BY DEF TalkInv, TalkTypeOK, JobsShaped

LEMMA JobsEnd ==
  ASSUME TalkInv, NEW k \in Jobs, JobOver(k) PROVE jobs' \in [Jobs -> Job \cup {None}] /\ JobsShaped'
BY JobsMove DEF JobOver

LEMMA JobsStand == ASSUME TalkInv, UNCHANGED jobs PROVE jobs' \in [Jobs -> Job \cup {None}] /\ JobsShaped'
BY DEF TalkInv, TalkTypeOK, JobsShaped

LEMMA PostedIsRow == Posted \in Row
BY DEF Posted, Row

LEMMA CopyIs == ASSUME NEW m \in Messages, NEW row \in Row PROVE [id |-> m, row |-> row] \in Copy
BY DEF Copy

LEMMA AppIs == ASSUME TalkInv PROVE app \in App /\ app.cache \in Seq(Copy) /\ app.open \in BOOLEAN
                                    /\ app.more \in BOOLEAN /\ app.busy \in BOOLEAN /\ Len(app.cache) \in Nat
                                    /\ DOMAIN app.cache = 1..Len(app.cache)
<1>1. app \in App
  BY DEF TalkInv, TalkTypeOK
<1>2. app.cache \in Seq(Copy)
  BY <1>1 DEF App
<1> QED
  BY <1>1, <1>2 DEF App

LEMMA WithoutTypes == ASSUME TalkInv, NEW m \in Messages PROVE Without(m) \in Seq(Copy)
<1> DEFINE S == {i \in DOMAIN app.cache : app.cache[i].id # m}
           V == {app.cache[i] : i \in S}
<1>1. S \in SUBSET (1..Len(app.cache)) /\ Len(app.cache) \in Nat
  BY AppIs
<1>2. PICK o, q : PickedBy(app.cache, S, o, q)
  BY <1>1, PickedIs
<1>3. Without(m) \in Seq(V)
  BY <1>2 DEF Without, PickedBy
<1>4. V \subseteq Copy
  BY AppIs
<1> HIDE DEF V
<1> QED
  BY <1>3, <1>4

LEMMA CacheTypes ==
  ASSUME TalkInv, NEW m \in Messages, NEW row \in Row, NEW flag \in BOOLEAN
  PROVE  /\ Added(m, row) \in Seq(Copy) /\ Patched(m, row) \in Seq(Copy) /\ Updated(m, row) \in Seq(Copy)
         /\ RePinned(m, flag) \in Seq(Copy)
<1>1. PICK c \in Copy : c = [id |-> m, row |-> row]
  BY CopyIs
<1>2. app.cache \in Seq(Copy) /\ DOMAIN app.cache = 1..Len(app.cache) /\ Len(app.cache) \in Nat
  BY AppIs
<1>3. Added(m, row) \in Seq(Copy)
  BY <1>1, <1>2 DEF Added
<1>4. Patched(m, row) \in Seq(Copy)
  BY <1>1, <1>2 DEF Patched
<1>5. RePinned(m, flag) \in Seq(Copy)
  <2>1. \A i \in DOMAIN app.cache : [app.cache[i] EXCEPT !.row.pinned = flag] \in Copy
    <3> SUFFICES ASSUME NEW i \in DOMAIN app.cache PROVE [app.cache[i] EXCEPT !.row.pinned = flag] \in Copy
      OBVIOUS
    <3>1. app.cache[i] \in Copy
      BY <1>2
    <3>2. PICK e : e = app.cache[i]
      OBVIOUS
    <3>3. e \in Copy /\ e.row \in Row
      BY <3>1, <3>2 DEF Copy
    <3> DEFINE r == [e.row EXCEPT !.pinned = flag]
    <3>4. r \in Row
      BY <3>3 DEF Row
    <3>5. [e EXCEPT !.row.pinned = flag] = [e EXCEPT !.row = r]
      BY <3>3 DEF Copy
    <3> HIDE DEF r
    <3>6. [e EXCEPT !.row = r] \in Copy
      BY <3>3, <3>4 DEF Copy
    <3> QED
      BY <3>2, <3>5, <3>6
  <2>2. \A i \in DOMAIN app.cache :
          (IF app.cache[i].id = m THEN [app.cache[i] EXCEPT !.row.pinned = flag] ELSE app.cache[i]) \in Copy
    BY <1>2, <2>1
  <2> QED
    BY <1>2, <2>2 DEF RePinned
<1>6. Updated(m, row) \in Seq(Copy)
  BY <1>4, WithoutTypes DEF Updated
<1> QED
  BY <1>3, <1>4, <1>5, <1>6

LEMMA WrittenTypes ==
  ASSUME NEW op \in Ops, NEW row \in Row \cup {None}, row # None \/ op \in {"post", "send"}
  PROVE  IF op = "harddelete" THEN Written(op, row) = None ELSE Written(op, row) \in Row
<1>1. CASE op \in {"post", "send"}
  BY <1>1, PostedIsRow DEF Written, Pinning
<1>2. CASE op = "update"
  <2>1. row \in Row /\ 1 - row.text \in 0..1
    BY <1>2 DEF Row
  <2> QED
    BY <1>2, <2>1 DEF Written, Row
<1>3. CASE op \in {"embed", "clear"}
  BY <1>3 DEF Written, Row
<1>4. CASE op \in {"delete", "restore"}
  BY <1>4 DEF Written, Row
<1>5. CASE op \in Pinning
  BY <1>5 DEF Written, Row, Pinning
<1>6. CASE op = "harddelete"
  BY <1>6 DEF Written, Pinning
<1> QED
  BY <1>1, <1>2, <1>3, <1>4, <1>5, <1>6 DEF Ops, Edits, Pinning

LEMMA LogTypes ==
  ASSUME TalkInv, NEW t \in Log, NEW S \in SUBSET Messages, NEW b \in BOOLEAN
  PROVE  /\ [t EXCEPT !.suspect = S] \in Log /\ [t EXCEPT !.rivals = b] \in Log /\ [t EXCEPT !.crossed = b] \in Log
         /\ [t EXCEPT !.suspect = S, !.crossed = b] \in Log
         /\ [t EXCEPT !.suspect = S, !.rivals = b] \in Log
         /\ \A c \in BOOLEAN : [t EXCEPT !.suspect = S, !.crossed = b, !.rivals = c] \in Log
         /\ t.suspect \in SUBSET Messages /\ t.crossed \in BOOLEAN /\ t.rivals \in BOOLEAN
         /\ (t.jobs < MaxJobs => [t EXCEPT !.jobs = t.jobs + 1] \in Log)
         /\ (t.loads < MaxLoads => [t EXCEPT !.loads = t.loads + 1] \in Log)
         /\ (t.flips < MaxFlips => [t EXCEPT !.flips = t.flips + 1] \in Log)
         /\ (t.faults < MaxFaults => [t EXCEPT !.faults = t.faults + 1] \in Log)
<1>1. /\ t.jobs < MaxJobs => t.jobs + 1 \in 0..MaxJobs
      /\ t.loads < MaxLoads => t.loads + 1 \in 0..MaxLoads
      /\ t.flips < MaxFlips => t.flips + 1 \in 0..MaxFlips
      /\ t.faults < MaxFaults => t.faults + 1 \in 0..MaxFaults
  BY PageBounds DEF Log
<1> QED
  BY <1>1 DEF Log

LEMMA BeginsTypes ==
  ASSUME TalkInv, NEW k \in Jobs, NEW op \in Ops, NEW m \in Messages, NEW more \in Log, Begin(k, op, m, more)
  PROVE  jobs' \in [Jobs -> Job \cup {None}] /\ JobsShaped' /\ log' \in Log
<1> DEFINE j == [op |-> op, m |-> m, stage |-> FirstStage(op), copy |-> None]
<1>1. FirstStage(op) = "pins" \/ FirstStage(op) = "write"
  BY DEF FirstStage
<1>2. FirstStage(op) = "pins" => op \in Pinning \cup {"harddelete"}
  BY DEF FirstStage
<1>3. j \in Job /\ JobShaped(j)
  BY <1>1, <1>2 DEF Job, JobShaped
<1>4. jobs' = [jobs EXCEPT ![k] = j]
  BY DEF Begin
<1> HIDE DEF j
<1>5. log' = more \/ log' = [more EXCEPT !.suspect = more.suspect \cup {m}]
  <2>1. more = [more EXCEPT !.suspect = more.suspect]
    BY DEF Log
  <2> QED
    BY <2>1 DEF Begin
<1>6. more.suspect \cup {m} \subseteq Messages
  BY DEF Log
<1>7. jobs' \in [Jobs -> Job \cup {None}] /\ JobsShaped'
  BY <1>3, <1>4, JobsMove
<1>8. [more EXCEPT !.suspect = more.suspect \cup {m}] \in Log
  BY <1>6, LogTypes
<1> QED
  BY <1>5, <1>7, <1>8

LEMMA OvertakenTypes ==
  ASSUME TalkInv, NEW m \in Messages PROVE Overtaken(m) \in [Fetches -> Fetch \cup {None}]
<1> SUFFICES ASSUME NEW f \in Fetches PROVE Overtaken(m)[f] \in Fetch \cup {None}
  BY DEF Overtaken
<1> DEFINE x == [fetches[f] EXCEPT !.stale = fetches[f].stale \cup {m}]
<1>1. Overtaken(m)[f] = IF fetches[f] # None /\ fetches[f].read THEN x ELSE fetches[f]
  BY DEF Overtaken
<1>2. CASE fetches[f] = None
  BY <1>1, <1>2
<1>3. CASE fetches[f] # None
  <2>1. fetches[f] \in Fetch
    BY <1>3 DEF TalkInv, TalkTypeOK
  <2>2. x \in Fetch
    BY <2>1 DEF Fetch
  <2> HIDE DEF x
  <2> QED
    BY <1>1, <2>1, <2>2
<1> QED
  BY <1>2, <1>3

LEMMA PostTypes == ASSUME TalkInv, NEW k \in Jobs, NEW op, Post(k, op) PROVE TalkInv'
<1>1. /\ op \in {"post", "send"} /\ clock < MaxPosts /\ clock' = clock + 1
      /\ Begin(k, op, clock + 1, log) /\ UNCHANGED <<rows, pins, due, fetches, reveal, app>>
  BY DEF Post
<1>2. log \in Log /\ clock \in 0..MaxPosts
  BY DEF TalkInv, TalkTypeOK
<1>3. clock + 1 \in Messages /\ clock' \in 0..MaxPosts /\ op \in Ops
  BY <1>1, <1>2, PageBounds DEF Messages, Ops
<1>4. jobs' \in [Jobs -> Job \cup {None}] /\ JobsShaped' /\ log' \in Log
  BY <1>1, <1>2, <1>3, BeginsTypes
<1> QED
  BY <1>1, <1>3, <1>4 DEF TalkInv, TalkTypeOK

LEMMA ResolveTypes == ASSUME TalkInv, NEW k \in Jobs, NEW m \in Messages, ResolveEmbeds(k, m) PROVE TalkInv'
<1>1. due' = due \ {m} /\ Begin(k, "embed", m, log) /\ UNCHANGED <<rows, pins, clock, fetches, reveal, app>>
  BY DEF ResolveEmbeds
<1>2. "embed" \in Ops /\ log \in Log
  BY DEF Ops, Edits, TalkInv, TalkTypeOK
<1>3. jobs' \in [Jobs -> Job \cup {None}] /\ JobsShaped' /\ log' \in Log
  BY <1>1, <1>2, BeginsTypes
<1> QED
  BY <1>1, <1>3 DEF TalkInv, TalkTypeOK

LEMMA RequestTypes ==
  ASSUME TalkInv, NEW k \in Jobs, NEW op \in Ops, NEW m \in Messages, Request(k, op, m) PROVE TalkInv'
<1> DEFINE more == [log EXCEPT !.jobs = log.jobs + 1]
<1>1. log.jobs < MaxJobs /\ Begin(k, op, m, more) /\ UNCHANGED <<rows, pins, clock, due, fetches, reveal, app>>
  BY DEF Request
<1>2. more \in Log
  BY <1>1, LogTypes DEF TalkInv, TalkTypeOK
<1> HIDE DEF more
<1>3. jobs' \in [Jobs -> Job \cup {None}] /\ JobsShaped' /\ log' \in Log
  BY <1>1, <1>2, BeginsTypes
<1> QED
  BY <1>1, <1>3 DEF TalkInv, TalkTypeOK

LEMMA JobToTypes ==
  ASSUME TalkInv, NEW k \in Jobs, jobs[k] # None, NEW stage, JobTo(k, stage),
         stage = "write" \/ (stage = "answer" /\ jobs[k].op = "send" /\ jobs[k].copy # None)
  PROVE  jobs' \in [Jobs -> Job \cup {None}] /\ JobsShaped'
<1> DEFINE j == [jobs[k] EXCEPT !.stage = stage]
<1>1. jobs[k] \in Job /\ JobShaped(jobs[k])
  BY JobIs
<1>2. j \in Job /\ j.stage = stage /\ j.op = jobs[k].op /\ j.copy = jobs[k].copy
  BY <1>1 DEF Job
<1>3. jobs' = [jobs EXCEPT ![k] = j]
  BY DEF JobTo, TalkInv, TalkTypeOK
<1> HIDE DEF j
<1>4. JobShaped(j)
  BY <1>1, <1>2 DEF JobShaped
<1> QED
  BY <1>2, <1>3, <1>4, JobsMove

LEMMA WritePinsTypes == ASSUME TalkInv, NEW k \in Jobs, WritePins(k) PROVE TalkInv'
<1>1. /\ jobs[k] # None /\ JobTo(k, "write") /\ UNCHANGED <<rows, clock, due, fetches, reveal, app, log>>
      /\ pins' = IF jobs[k].op = "pin" THEN pins \cup {jobs[k].m} ELSE pins \ {jobs[k].m}
  BY DEF WritePins, JobAt
<1>2. jobs[k].m \in Messages
  BY <1>1, JobIs
<1>3. jobs' \in [Jobs -> Job \cup {None}] /\ JobsShaped'
  BY <1>1, JobToTypes
<1> QED
  BY <1>1, <1>2, <1>3 DEF TalkInv, TalkTypeOK

(* The stage and the copy of a request change.                             *)
StagedAs(k, stage, copy) == jobs' = [jobs EXCEPT ![k].stage = stage, ![k].copy = copy]
LEMMA JobForm ==
  ASSUME TalkInv, NEW k \in Jobs, jobs[k] # None, NEW stage \in {"pins", "write", "read", "tell", "answer"},
         NEW copy \in Row \cup {None}, StagedAs(k, stage, copy)
  PROVE  \E j \in Job : /\ jobs' = [jobs EXCEPT ![k] = j] /\ j.stage = stage /\ j.copy = copy
                        /\ j.op = jobs[k].op /\ j.m = jobs[k].m
<1> DEFINE j == [jobs[k] EXCEPT !.stage = stage, !.copy = copy]
<1>1. jobs[k] \in Job
  BY JobIs
<1>2. jobs' = [jobs EXCEPT ![k] = j]
  BY DEF StagedAs, TalkInv, TalkTypeOK
<1>3. j \in Job /\ j.stage = stage /\ j.copy = copy /\ j.op = jobs[k].op /\ j.m = jobs[k].m
  BY <1>1 DEF Job
<1> HIDE DEF j
<1> QED
  BY <1>2, <1>3

LEMMA WriteRowTypes == ASSUME TalkInv, NEW k \in Jobs, WriteRow(k) PROVE TalkInv'
<1> DEFINE op == jobs[k].op
           m == jobs[k].m
           row == IF rows[m] = None /\ op \notin {"post", "send"} THEN None ELSE Written(op, rows[m])
           stage == IF op \in {"delete", "restore"} THEN "read" ELSE "tell"
           copy == IF op \in Edits \cup {"post", "send"} THEN row ELSE None
<1>1. /\ jobs[k] # None /\ jobs[k].stage = "write" /\ UNCHANGED <<pins, clock, fetches, reveal, app, log>>
      /\ rows' = [rows EXCEPT ![m] = row]
      /\ IF op \in Edits /\ row = None THEN JobOver(k) ELSE jobs' = [jobs EXCEPT ![k].stage = stage, ![k].copy = copy]
      /\ due' = due \/ due' = due \cup {m}
  BY DEF WriteRow, JobAt
<1>2. jobs[k] \in Job /\ JobShaped(jobs[k]) /\ m \in Messages /\ op \in Ops /\ rows[m] \in Row \cup {None}
  BY <1>1, JobIs DEF Job
<1>3. row \in Row \cup {None} /\ (op \in {"post", "send"} => row \in Row)
  BY <1>2, WrittenTypes
<1> HIDE DEF row
<1>4. rows' \in [Messages -> Row \cup {None}] /\ due' \subseteq Messages
  BY <1>1, <1>2, <1>3 DEF TalkInv, TalkTypeOK
<1>5. jobs' \in [Jobs -> Job \cup {None}] /\ JobsShaped'
  <2>1. CASE op \in Edits /\ row = None
    BY <1>1, <2>1, JobsEnd
  <2>2. CASE ~(op \in Edits /\ row = None)
    <3>1. stage \in {"pins", "write", "read", "tell", "answer"} /\ copy \in Row \cup {None}
      BY <1>3
    <3>2. PICK j \in Job : /\ jobs' = [jobs EXCEPT ![k] = j] /\ j.stage = stage /\ j.copy = copy /\ j.op = op
      <4>1. StagedAs(k, stage, copy)
        BY <1>1, <2>2 DEF StagedAs
      <4> HIDE DEF stage, copy, m
      <4> QED
        BY <1>1, <3>1, <4>1, JobForm
    <3>3. (stage = "read" => op \in {"delete", "restore"}) /\ (stage = "tell" \/ stage = "read")
      OBVIOUS
    <3>4. op \in {"post", "send", "restore"} \cup Edits /\ stage = "tell" => copy # None
      BY <1>3, <2>2, MessageRecords
    <3>5. JobShaped(j)
      BY <3>2, <3>3, <3>4 DEF JobShaped
    <3> QED
      BY <3>2, <3>5, JobsMove
  <2> QED
    BY <2>1, <2>2
<1> QED
  BY <1>1, <1>4, <1>5 DEF TalkInv, TalkTypeOK

LEMMA ReadAgainTypes == ASSUME TalkInv, NEW k \in Jobs, ReadAgain(k) PROVE TalkInv'
<1> DEFINE row == rows[jobs[k].m]
<1>1. /\ jobs[k] # None /\ jobs[k].stage = "read" /\ UNCHANGED <<rows, pins, clock, due, fetches, reveal, app, log>>
      /\ IF jobs[k].op = "restore" /\ row = None THEN JobOver(k)
         ELSE jobs' = [jobs EXCEPT ![k].stage = "tell", ![k].copy = row]
  BY DEF ReadAgain, JobAt
<1>2. jobs[k] \in Job /\ JobShaped(jobs[k]) /\ row \in Row \cup {None} /\ jobs[k].op \in {"delete", "restore"}
  BY <1>1, JobIs DEF JobShaped
<1> HIDE DEF row
<1>3. jobs' \in [Jobs -> Job \cup {None}] /\ JobsShaped'
  <2>1. CASE jobs[k].op = "restore" /\ row = None
    BY <1>1, <2>1, JobsEnd
  <2>2. CASE ~(jobs[k].op = "restore" /\ row = None)
    <3>1. StagedAs(k, "tell", row)
      BY <1>1, <2>2 DEF StagedAs
    <3>2. PICK stage \in {"pins", "write", "read", "tell", "answer"} : stage = "tell" /\ StagedAs(k, stage, row)
      BY <3>1
    <3>3. PICK j \in Job : /\ jobs' = [jobs EXCEPT ![k] = j] /\ j.stage = stage /\ j.copy = row
                           /\ j.op = jobs[k].op
      BY <1>1, <1>2, <3>2, JobForm
    <3>4. JobShaped(j)
      BY <1>2, <2>2, <3>2, <3>3 DEF JobShaped, Edits
    <3> QED
      BY <3>3, <3>4, JobsMove
  <2> QED
    BY <2>1, <2>2
<1> QED
  BY <1>1, <1>3 DEF TalkInv, TalkTypeOK

LEMMA CacheAfterTypes ==
  ASSUME TalkInv, NEW op \in Ops, NEW m \in Messages, NEW copy \in Row \cup {None},
         op \in {"post", "send", "restore"} \cup Edits => copy # None
  PROVE  CacheAfter(op, m, copy) \in Seq(Copy)
<1>1. CASE op \in {"post", "send"}
  <2>1. copy \in Row
    BY <1>1
  <2> QED
    BY <1>1, <2>1, CacheTypes DEF CacheAfter
<1>2. CASE op \in Edits \cup {"restore"}
  <2>1. copy \in Row
    BY <1>2
  <2>3. op \notin {"post", "send"} /\ op # "delete" /\ op # "harddelete" /\ op \notin Pinning
    BY <1>2 DEF Edits, Pinning
  <2>2. CacheAfter(op, m, copy) = Updated(m, copy)
    BY <1>2, <2>3, Zenon DEF CacheAfter
  <2> QED
    BY <2>1, <2>2, CacheTypes
<1>3. CASE op = "delete"
  <2>3. op \notin {"post", "send"} /\ op \notin Edits \cup {"restore"} /\ op # "harddelete" /\ op \notin Pinning
    BY <1>3 DEF Edits, Pinning
  <2>1. CacheAfter(op, m, copy) = Without(m) \/ (copy = None /\ CacheAfter(op, m, copy) = app.cache)
          \/ (copy # None /\ CacheAfter(op, m, copy) = Updated(m, copy))
    BY <1>3, <2>3, Zenon DEF CacheAfter
  <2> QED
    BY <2>1, CacheTypes, WithoutTypes, AppIs
<1>4. CASE op = "harddelete"
  <2>3. op \notin {"post", "send"} /\ op \notin Edits \cup {"restore"} /\ op # "delete" /\ op \notin Pinning
    BY <1>4 DEF Edits, Pinning
  <2>1. CacheAfter(op, m, copy) = Without(m)
    BY <1>4, <2>3, Zenon DEF CacheAfter
  <2> QED
    BY <2>1, WithoutTypes
<1>5. CASE op \in Pinning
  <2>1. CacheAfter(op, m, copy) = RePinned(m, op = "pin")
    BY <1>5 DEF CacheAfter, Edits, Pinning
  <2>2. PICK flag \in BOOLEAN : flag = (op = "pin")
    OBVIOUS
  <2>3. RePinned(m, flag) \in Seq(Copy)
    BY CacheTypes, PostedIsRow
  <2> QED
    BY <2>1, <2>2, <2>3
<1> QED
  BY <1>1, <1>2, <1>3, <1>4, <1>5 DEF Ops

LEMMA StoreTypes ==
  ASSUME TalkInv, NEW a \in App, NEW cache \in Seq(Copy), NEW b \in BOOLEAN, NEW d \in BOOLEAN
  PROVE  /\ [a EXCEPT !.cache = cache] \in App /\ [a EXCEPT !.busy = b] \in App
         /\ [a EXCEPT !.cache = cache, !.more = d] \in App
         /\ [a EXCEPT !.open = b, !.cache = cache] \in App
         /\ [a EXCEPT !.open = b, !.cache = cache, !.more = d] \in App
BY DEF App

LEMMA TellTypes == ASSUME TalkInv, NEW k \in Jobs, Tell(k) PROVE TalkInv'
<1> DEFINE op == jobs[k].op
           m == jobs[k].m
           copy == jobs[k].copy
           cache == CacheAfter(op, m, copy)
           S == log.suspect \cup {m}
<1>1. /\ jobs[k] # None /\ jobs[k].stage = "tell" /\ UNCHANGED <<rows, pins, clock, due, reveal>>
      /\ app' = app \/ app' = [app EXCEPT !.cache = cache]
      /\ fetches' = Overtaken(m)
      /\ IF op = "send" THEN JobTo(k, "answer") ELSE JobOver(k)
  BY DEF Tell, JobAt
<1>20. PICK b : b = (log.rivals \/ Outruns(k))
  OBVIOUS
<1>2. log' = IF LostOn(op, m) THEN [log EXCEPT !.suspect = S, !.rivals = b]
                              ELSE [log EXCEPT !.suspect = log.suspect, !.rivals = b]
  BY <1>20 DEF Tell
<1>3. log \in Log /\ log.suspect \in SUBSET Messages /\ app \in App
  BY DEF TalkInv, TalkTypeOK, Log
<1>4. jobs[k] \in Job /\ JobShaped(jobs[k]) /\ m \in Messages /\ op \in Ops /\ copy \in Row \cup {None}
  BY <1>1, JobIs DEF Job
<1>5. op \in {"post", "send", "restore"} \cup Edits => copy # None
  BY <1>1, <1>4 DEF JobShaped
<1>6. cache \in Seq(Copy)
  BY <1>4, <1>5, CacheAfterTypes
<1> HIDE DEF cache
<1>7. app' \in App
  BY <1>1, <1>3, <1>6, StoreTypes
<1>8. S \in SUBSET Messages
  BY <1>3, <1>4
<1> HIDE DEF S
<1>9. log' \in Log
  <2>1. b \in BOOLEAN
    BY <1>3, <1>20 DEF Log
  <2> QED
    BY <1>2, <1>3, <1>8, <2>1, LogTypes
<1>10. fetches' \in [Fetches -> Fetch \cup {None}]
  BY <1>1, <1>4, OvertakenTypes
<1>11. jobs' \in [Jobs -> Job \cup {None}] /\ JobsShaped'
  <2>1. CASE op = "send"
    BY <1>1, <1>5, <2>1, JobToTypes
  <2>2. CASE op # "send"
    BY <1>1, <2>2, JobsEnd
  <2> QED
    BY <2>1, <2>2
<1> QED
  BY <1>1, <1>7, <1>9, <1>10, <1>11 DEF TalkInv, TalkTypeOK

LEMMA SendAnsweredTypes == ASSUME TalkInv, NEW k \in Jobs, SendAnswered(k) PROVE TalkInv'
<1> DEFINE m == jobs[k].m
           cache == Added(m, jobs[k].copy)
<1>1. /\ jobs[k] # None /\ jobs[k].stage = "answer" /\ UNCHANGED <<rows, pins, clock, due, reveal, log>>
      /\ app' = app \/ app' = [app EXCEPT !.cache = cache]
      /\ fetches' = Overtaken(m) /\ JobOver(k)
  BY DEF SendAnswered, JobAt
<1>2. jobs[k] \in Job /\ JobShaped(jobs[k]) /\ m \in Messages /\ jobs[k].copy \in Row \cup {None}
  BY <1>1, JobIs
<1>3. jobs[k].copy \in Row
  BY <1>1, <1>2 DEF JobShaped
<1>4. cache \in Seq(Copy)
  BY <1>2, <1>3, CacheTypes
<1> HIDE DEF cache
<1>5. app' \in App
  BY <1>1, <1>4, AppIs, StoreTypes
<1>6. fetches' \in [Fetches -> Fetch \cup {None}]
  BY <1>1, <1>2, OvertakenTypes
<1> QED
  BY <1>1, <1>5, <1>6, JobsEnd DEF TalkInv, TalkTypeOK

LEMMA JobFailsTypes == ASSUME TalkInv, NEW k \in Jobs, JobFails(k) PROVE TalkInv'
<1> DEFINE m == jobs[k].m
           t == [log EXCEPT !.faults = log.faults + 1]
<1>1. /\ jobs[k] # None /\ log.faults < MaxFaults /\ UNCHANGED <<rows, pins, clock, due, reveal, app>>
      /\ fetches' = Overtaken(m) /\ JobOver(k)
      /\ log' = [log EXCEPT !.faults = log.faults + 1, !.suspect = log.suspect \cup {m}]
  BY DEF JobFails
<1>2. m \in Messages /\ log \in Log
  BY <1>1, JobIs DEF TalkInv, TalkTypeOK
<1>3. t \in Log /\ t.suspect = log.suspect /\ log' = [t EXCEPT !.suspect = log.suspect \cup {m}]
  BY <1>1, <1>2, LogTypes DEF Log
<1> HIDE DEF t
<1>4. log.suspect \cup {m} \in SUBSET Messages
  BY <1>2 DEF Log
<1>5. log' \in Log
  BY <1>3, <1>4, LogTypes
<1>6. fetches' \in [Fetches -> Fetch \cup {None}]
  BY <1>1, <1>2, OvertakenTypes
<1> QED
  BY <1>1, <1>5, <1>6, JobsEnd DEF TalkInv, TalkTypeOK

-----------------------------------------------------------------------------
(* The loads of a page.                                                    *)
LEMMA EmptyPage == \E page \in Seq(Copy) : page = <<>>
<1>1. <<>> \in Seq(Copy)
  OBVIOUS
<1> QED
  BY <1>1, Zenon

LEMMA FetchIs ==
  ASSUME TalkInv, NEW f \in Fetches, fetches[f] # None
  PROVE  /\ fetches[f] \in Fetch /\ fetches[f].page \in Seq(Copy) /\ fetches[f].stale \in SUBSET Messages
         /\ fetches[f].kind \in {"load", "refetch", "scroll", "jump"} /\ fetches[f].old \in BOOLEAN
         /\ fetches[f].all \in BOOLEAN /\ fetches[f].want \in 0..MaxPosts /\ fetches[f].before \in 0..MaxPosts
<1>1. fetches[f] \in Fetch
  BY DEF TalkInv, TalkTypeOK
<1> QED
  BY <1>1 DEF Fetch

LEMMA AskTypes ==
  ASSUME TalkInv, NEW kind \in {"load", "refetch", "scroll", "jump"}, NEW before \in 0..MaxPosts,
         NEW want \in 0..MaxPosts, NEW b \in BOOLEAN
  PROVE  /\ Ask(0, kind, before, want) \in Fetch /\ [Ask(0, kind, before, want) EXCEPT !.all = b] \in Fetch
         /\ \A f : Ask(f, kind, before, want) = Ask(0, kind, before, want)
<1>1. reveal \in BOOLEAN
  BY DEF TalkInv, TalkTypeOK
<1>2. PICK page \in Seq(Copy) : page = <<>>
  BY EmptyPage
<1>3. Ask(0, kind, before, want) =
        [kind |-> kind, before |-> before, all |-> reveal, want |-> want, page |-> page,
         read |-> FALSE, stale |-> {}, old |-> FALSE]
  BY <1>2, Zenon DEF Ask
<1>4. [kind |-> kind, before |-> before, all |-> reveal, want |-> want, page |-> page,
       read |-> FALSE, stale |-> {}, old |-> FALSE] \in Fetch
  BY <1>1, <1>2 DEF Fetch
<1> DEFINE a == Ask(0, kind, before, want)
<1>5. a \in Fetch
  BY <1>3, <1>4
<1>6. \A f : Ask(f, kind, before, want) = a
  BY Zenon DEF Ask
<1> HIDE DEF a
<1>7. [a EXCEPT !.all = b] \in Fetch
  BY <1>5 DEF Fetch
<1> QED
  BY <1>5, <1>6, <1>7 DEF a

LEMMA AgedTypes ==
  ASSUME NEW fs \in [Fetches -> Fetch \cup {None}] PROVE Aged(fs) \in [Fetches -> Fetch \cup {None}]
<1> SUFFICES ASSUME NEW f \in Fetches PROVE Aged(fs)[f] \in Fetch \cup {None}
  BY DEF Aged
<1>1. CASE fs[f] = None
  BY <1>1 DEF Aged
<1>2. CASE fs[f] # None
  <2>1. PICK x \in Fetch : x = fs[f]
    BY <1>2
  <2>2. [x EXCEPT !.old = TRUE] \in Fetch
    BY <2>1 DEF Fetch
  <2>3. Aged(fs)[f] = [x EXCEPT !.old = TRUE]
    BY <1>2, <2>1 DEF Aged
  <2> QED
    BY <2>2, <2>3
<1> QED
  BY <1>1, <1>2

LEMMA FetchMoves ==
  ASSUME NEW fs \in [Fetches -> Fetch \cup {None}], NEW f \in Fetches, NEW g \in Fetch \cup {None}
  PROVE  [fs EXCEPT ![f] = g] \in [Fetches -> Fetch \cup {None}]
OBVIOUS

LEMMA OldestTypes == ASSUME TalkInv, app.cache # <<>> PROVE Oldest \in Messages /\ Oldest \in 0..MaxPosts
<1>1. app.cache \in Seq(Copy)
  BY AppIs
<1>2. Head(app.cache) \in Copy
  BY <1>1
<1>3. MaxPosts \in Nat
  BY PageBounds
<1> QED
  BY <1>2, <1>3 DEF Oldest, Copy, Messages

LEMMA OpenTypes == ASSUME TalkInv, NEW f \in Fetches, Open(f) PROVE TalkInv'
<1> DEFINE t == [log EXCEPT !.loads = log.loads + 1]
<1>1. /\ log.loads < MaxLoads /\ UNCHANGED <<rows, pins, clock, due, jobs, reveal>>
      /\ fetches' = [Aged(fetches) EXCEPT ![f] = Ask(f, "load", 0, 0)]
      /\ log' = [t EXCEPT !.crossed = FALSE]
      /\ app' = [app EXCEPT !.open = TRUE, !.cache = <<>>, !.more = TRUE]
  BY DEF Open, Counted
<1>2. log \in Log /\ app \in App /\ fetches \in [Fetches -> Fetch \cup {None}] /\ 0 \in 0..MaxPosts
  BY PageBounds DEF TalkInv, TalkTypeOK
<1>3. t \in Log
  BY <1>1, <1>2, LogTypes
<1> HIDE DEF t
<1>4. log' \in Log
  BY <1>1, <1>3, LogTypes
<1>5. PICK cache \in Seq(Copy) : cache = <<>>
  BY EmptyPage
<1>6. app' = [app EXCEPT !.open = TRUE, !.cache = cache, !.more = TRUE]
  BY <1>1, <1>5, Zenon
<1>7. app' \in App
  BY <1>2, <1>5, <1>6, StoreTypes
<1>8. Ask(f, "load", 0, 0) \in Fetch
  BY <1>2, AskTypes
<1>9. fetches' \in [Fetches -> Fetch \cup {None}]
  BY <1>1, <1>2, <1>8, AgedTypes, FetchMoves
<1> QED
  BY <1>1, <1>4, <1>7, <1>9, JobsStand DEF TalkInv, TalkTypeOK

LEMMA LeaveTypes == ASSUME TalkInv, Leave PROVE TalkInv'
<1>1. /\ UNCHANGED <<rows, pins, clock, due, jobs, fetches, reveal, log>>
      /\ app' = [app EXCEPT !.open = FALSE, !.cache = <<>>]
  BY DEF Leave
<1>2. PICK cache \in Seq(Copy) : cache = <<>>
  BY EmptyPage
<1>3. app' = [app EXCEPT !.open = FALSE, !.cache = cache]
  BY <1>1, <1>2, Zenon
<1>4. app' \in App
  BY <1>2, <1>3, AppIs, StoreTypes
<1> QED
  BY <1>1, <1>4, JobsStand DEF TalkInv, TalkTypeOK

LEMMA ScrollUpTypes == ASSUME TalkInv, NEW f \in Fetches, ScrollUp(f) PROVE TalkInv'
<1>1. /\ log.loads < MaxLoads /\ app.cache # <<>> /\ UNCHANGED <<rows, pins, clock, due, jobs, reveal>>
      /\ fetches' = [fetches EXCEPT ![f] = Ask(f, "scroll", Oldest, 0)]
      /\ log' = [log EXCEPT !.loads = log.loads + 1]
      /\ app' = [app EXCEPT !.busy = TRUE]
  BY DEF ScrollUp, Counted
<1>2. log \in Log /\ app \in App /\ fetches \in [Fetches -> Fetch \cup {None}] /\ 0 \in 0..MaxPosts
  BY PageBounds DEF TalkInv, TalkTypeOK
<1>3. log' \in Log
  BY <1>1, <1>2, LogTypes
<1>4. app' \in App
  BY <1>1, <1>2, AppIs, StoreTypes
<1>5. Ask(f, "scroll", Oldest, 0) \in Fetch
  BY <1>1, <1>2, OldestTypes, AskTypes
<1>6. fetches' \in [Fetches -> Fetch \cup {None}]
  BY <1>1, <1>2, <1>5, FetchMoves
<1> QED
  BY <1>1, <1>3, <1>4, <1>6, JobsStand DEF TalkInv, TalkTypeOK

LEMMA JumpTypes == ASSUME TalkInv, NEW f \in Fetches, NEW m \in Messages, Jump(f, m) PROVE TalkInv'
<1>1. /\ log.loads < MaxLoads /\ app.cache # <<>> /\ UNCHANGED <<rows, pins, clock, due, jobs, reveal, app>>
      /\ fetches' = [fetches EXCEPT ![f] = Ask(f, "jump", Oldest, m)]
      /\ log' = [log EXCEPT !.loads = log.loads + 1]
  BY DEF Jump, Counted
<1>2. log \in Log /\ fetches \in [Fetches -> Fetch \cup {None}] /\ m \in 0..MaxPosts
  BY PageBounds DEF TalkInv, TalkTypeOK, Messages
<1>3. log' \in Log
  BY <1>1, <1>2, LogTypes
<1>5. Ask(f, "jump", Oldest, m) \in Fetch
  BY <1>1, <1>2, OldestTypes, AskTypes
<1>6. fetches' \in [Fetches -> Fetch \cup {None}]
  BY <1>1, <1>2, <1>5, FetchMoves
<1> QED
  BY <1>1, <1>3, <1>6, JobsStand DEF TalkInv, TalkTypeOK

LEMMA FlipTypes == ASSUME TalkInv, NEW f \in Fetches, Flip(f) PROVE TalkInv'
<1> DEFINE b == ~reveal
           g == [Ask(f, "refetch", 0, 0) EXCEPT !.all = b]
<1>1. /\ log.flips < MaxFlips /\ UNCHANGED <<rows, pins, clock, due, jobs, app>>
      /\ reveal' = b
      /\ fetches' = IF app.open THEN [fetches EXCEPT ![f] = g] ELSE fetches
      /\ log' = [log EXCEPT !.flips = log.flips + 1]
  BY DEF Flip
<1>2. /\ log \in Log /\ fetches \in [Fetches -> Fetch \cup {None}] /\ 0 \in 0..MaxPosts /\ b \in BOOLEAN
      /\ reveal' \in BOOLEAN
  BY <1>1, PageBounds DEF TalkInv, TalkTypeOK
<1> HIDE DEF b
<1>3. log' \in Log
  BY <1>1, <1>2, LogTypes
<1>5. g \in Fetch
  <2>1. \A h : Ask(h, "refetch", 0, 0) = Ask(0, "refetch", 0, 0)
    BY <1>2, AskTypes
  <2>2. [Ask(0, "refetch", 0, 0) EXCEPT !.all = b] \in Fetch
    BY <1>2, AskTypes
  <2>3. g = [Ask(0, "refetch", 0, 0) EXCEPT !.all = b]
    BY <2>1, Zenon
  <2> QED
    BY <2>2, <2>3
<1> HIDE DEF g
<1>6. fetches' \in [Fetches -> Fetch \cup {None}]
  BY <1>1, <1>2, <1>5, FetchMoves
<1> QED
  BY <1>1, <1>2, <1>3, <1>6, JobsStand DEF TalkInv, TalkTypeOK

(* The rows of a page, oldest first and once each.                         *)
LEMMA NumbersSort ==
  ASSUME NEW S \in SUBSET Messages
  PROVE  LET ids == Ascending(S, [m \in S |-> m])
         IN /\ ids \in Seq(S) /\ ToSet(ids) = S /\ Len(ids) \in Nat /\ DOMAIN ids = 1..Len(ids)
            /\ Len(ids) = Cardinality(S)
            /\ \A i, j \in DOMAIN ids : i < j => ids[i] < ids[j]
<1> DEFINE key == [m \in S |-> m]
           ids == Ascending(S, key)
<1>1. IsFiniteSet(S) /\ MaxPosts \in Nat
  <2>1. MaxPosts \in Nat
    BY PageBounds
  <2>2. IsFiniteSet(1..MaxPosts)
    BY <2>1, FS_Interval
  <2> QED
    BY <2>1, <2>2, FS_Subset DEF Messages
<1>2. \A m \in S : m \in 1..MaxPosts /\ key[m] = m /\ key[m] \in 0..MaxPosts
  BY <1>1 DEF Messages
<1>3. ids \in Enumerations(S) /\ Sorted(ids, S, key)
  <2> HIDE DEF key
  <2> QED
    BY <1>1, <1>2, AscendingSorts
<1> HIDE DEF ids, key
<1>4. /\ Cardinality(S) \in Nat /\ ids \in [1..Cardinality(S) -> S]
      /\ ids \in Seq(S) /\ ToSet(ids) = S /\ Len(ids) = Cardinality(S) /\ DOMAIN ids = 1..Cardinality(S)
      /\ \A i, j \in DOMAIN ids : ids[i] = ids[j] => i = j
  BY <1>1, <1>3, EnumerationOnto
<1>5. ASSUME NEW i \in 1..Cardinality(S), NEW j \in 1..Cardinality(S), i < j PROVE ids[i] < ids[j]
  <2>1. ids[i] \in S /\ ids[j] \in S
    BY <1>4
  <2>2. key[ids[i]] <= key[ids[j]]
    BY <1>3, <1>5, Zenon DEF Sorted
  <2>3. i # j
    BY <1>4, <1>5
  <2>4. ids[i] # ids[j]
    BY <1>4, <2>3
  <2>5. key[ids[i]] = ids[i] /\ key[ids[j]] = ids[j] /\ ids[i] \in 1..MaxPosts /\ ids[j] \in 1..MaxPosts
    BY <1>2, <2>1
  <2> QED
    BY <1>1, <2>2, <2>4, <2>5
<1> QED
  BY <1>4, <1>5 DEF ids, key

Older(before) == {m \in Messages : rows[m] # None /\ (before = 0 \/ m < before)}
SeenOf(before, all) == {m \in Newest(Older(before), Page) : all \/ ~rows[m].deleted}
PageBy(before, all, ids) ==
  /\ ids \in Seq(SeenOf(before, all)) /\ ToSet(ids) = SeenOf(before, all)
  /\ Len(ids) \in Nat /\ DOMAIN ids = 1..Len(ids) /\ Len(ids) = Cardinality(SeenOf(before, all))
  /\ \A i, j \in DOMAIN ids : i < j => ids[i] < ids[j]
  /\ PageOf(before, all) = [i \in DOMAIN ids |-> [id |-> ids[i], row |-> rows[ids[i]]]]
  /\ PageOf(before, all) \in Seq(Copy)

LEMMA PageIs == ASSUME TalkInv, NEW before, NEW all PROVE \E ids : PageBy(before, all, ids)
<1> DEFINE S == SeenOf(before, all)
           ids == Ascending(S, [m \in S |-> m])
<1>1. S \in SUBSET Messages /\ \A m \in S : rows[m] # None
  BY DEF SeenOf, Newest, Older
<1>2. PageOf(before, all) = [i \in DOMAIN ids |-> [id |-> ids[i], row |-> rows[ids[i]]]]
  BY DEF PageOf, SeenOf, Older
<1> HIDE DEF S
<1>3. /\ ids \in Seq(S) /\ ToSet(ids) = S /\ Len(ids) \in Nat /\ DOMAIN ids = 1..Len(ids)
      /\ Len(ids) = Cardinality(S)
      /\ \A i, j \in DOMAIN ids : i < j => ids[i] < ids[j]
  BY <1>1, NumbersSort
<1> HIDE DEF ids
<1>4. \A i \in DOMAIN ids : ids[i] \in S
  BY <1>3
<1>5. \A i \in DOMAIN ids : [id |-> ids[i], row |-> rows[ids[i]]] \in Copy
  <2> SUFFICES ASSUME NEW i \in DOMAIN ids PROVE [id |-> ids[i], row |-> rows[ids[i]]] \in Copy
    OBVIOUS
  <2>1. ids[i] \in Messages /\ rows[ids[i]] \in Row
    BY <1>1, <1>4 DEF TalkInv, TalkTypeOK
  <2> QED
    BY <2>1, CopyIs
<1>6. PageOf(before, all) \in Seq(Copy)
  BY <1>2, <1>3, <1>5
<1>7. PageBy(before, all, ids)
  BY <1>2, <1>3, <1>6 DEF PageBy, S
<1> QED
  BY <1>7

LEMMA QueryTypes == ASSUME TalkInv, NEW f \in Fetches, Query(f) PROVE TalkInv'
<1>0. PICK all \in BOOLEAN : all = (fetches[f].all /\ reveal)
  OBVIOUS
<1>1. /\ fetches[f] # None /\ UNCHANGED <<rows, pins, clock, due, jobs, reveal, app, log>>
      /\ fetches' = [fetches EXCEPT ![f].read = TRUE, ![f].all = all,
                                    ![f].page = PageOf(fetches[f].before, all)]
  BY <1>0, Zenon DEF Query
<1>2. fetches[f] \in Fetch /\ fetches \in [Fetches -> Fetch \cup {None}]
  BY <1>1, FetchIs DEF TalkInv, TalkTypeOK
<1>3. PICK page \in Seq(Copy) : page = PageOf(fetches[f].before, all)
  <2>1. PICK ids : PageBy(fetches[f].before, all, ids)
    BY PageIs, Zenon
  <2> QED
    BY <2>1, Zenon DEF PageBy
<1>4. fetches' = [fetches EXCEPT ![f].read = TRUE, ![f].all = all, ![f].page = page]
  BY <1>1, <1>3, Zenon
<1> DEFINE g == [fetches[f] EXCEPT !.read = TRUE, !.all = all, !.page = page]
<1>5. g \in Fetch
  BY <1>2 DEF Fetch
<1>6. fetches' = [fetches EXCEPT ![f] = g]
  BY <1>2, <1>4
<1> HIDE DEF g
<1>7. fetches' \in [Fetches -> Fetch \cup {None}]
  BY <1>2, <1>5, <1>6, FetchMoves
<1> QED
  BY <1>1, <1>7, JobsStand DEF TalkInv, TalkTypeOK

LEMMA ListReplacedTypes == ASSUME TalkInv, NEW f \in Fetches, ListReplaced(f) PROVE TalkInv'
<1>1. /\ fetches[f] # None /\ UNCHANGED <<rows, pins, clock, due, jobs, reveal>>
      /\ fetches \in [Fetches -> Fetch \cup {None}]
  BY DEF ListReplaced, TalkInv, TalkTypeOK
<1>2. [fetches EXCEPT ![f] = None] \in [Fetches -> Fetch \cup {None}]
  BY <1>1
<1>3. CASE ~app.open
  <2>1. UNCHANGED <<app, log>> /\ fetches' = [fetches EXCEPT ![f] = None]
    BY <1>3 DEF ListReplaced
  <2> QED
    BY <1>1, <1>2, <2>1, JobsStand DEF TalkInv, TalkTypeOK
<1>4. CASE app.open
  <2> DEFINE b == Len(fetches[f].page) >= Page
             S == fetches[f].stale \cup (log.suspect \cap AtWork)
             d == fetches[f].all # reveal
             c == \E k \in Jobs : Posting(k) /\ jobs[k].m # clock
  <2>1. /\ app' = [app EXCEPT !.cache = fetches[f].page, !.more = b]
        /\ fetches' = Aged([fetches EXCEPT ![f] = None])
    BY <1>4 DEF ListReplaced
  <2>2. log' = [log EXCEPT !.suspect = S, !.crossed = d, !.rivals = c]
    BY <1>4, Zenon DEF ListReplaced
  <2>3. log \in Log /\ fetches[f].page \in Seq(Copy) /\ fetches[f].stale \in SUBSET Messages /\ app \in App
    BY <1>1, FetchIs DEF TalkInv, TalkTypeOK
  <2>4. S \in SUBSET Messages /\ b \in BOOLEAN /\ d \in BOOLEAN /\ c \in BOOLEAN
    <3>1. log.suspect \in SUBSET Messages
      BY <2>3 DEF Log
    <3>2. b \in BOOLEAN /\ d \in BOOLEAN /\ c \in BOOLEAN
      OBVIOUS
    <3> QED
      BY <2>3, <3>1, <3>2
  <2> HIDE DEF S, b, d, c
  <2>5. app' \in App
    BY <2>1, <2>3, <2>4, StoreTypes
  <2>6. log' \in Log
    BY <2>2, <2>3, <2>4, LogTypes
  <2>7. fetches' \in [Fetches -> Fetch \cup {None}]
    BY <1>2, <2>1, AgedTypes
  <2> QED
    BY <1>1, <2>5, <2>6, <2>7, JobsStand DEF TalkInv, TalkTypeOK
<1> QED
  BY <1>3, <1>4

LEMMA OlderShownTypes == ASSUME TalkInv, NEW f \in Fetches, OlderShown(f) PROVE TalkInv'
<1> DEFINE g == fetches[f]
           shown == g.page \o app.cache
           full == Len(g.page) >= Page
           onward == g.kind = "jump" /\ app.open /\ full /\ \A i \in DOMAIN shown : shown[i].id # g.want
           next == IF onward THEN Ask(f, "jump", Head(shown).id, g.want) ELSE None
           rest == [fetches EXCEPT ![f] = next]
           busy == app.busy /\ g.kind = "jump"
           free == [app EXCEPT !.busy = busy]
           more == app.more /\ full
           others == [h \in Fetches |-> IF h # f /\ fetches[h] # None /\ fetches[h].kind \in {"scroll", "jump"}
                              THEN [fetches[h] EXCEPT !.old = TRUE] ELSE rest[h]]
           crossed == log.crossed \/ g.old
           S == log.suspect \cup {m \in g.stale : m < g.before}
<1>1. /\ g # None /\ UNCHANGED <<rows, pins, clock, due, jobs, reveal>>
      /\ fetches \in [Fetches -> Fetch \cup {None}] /\ app \in App /\ log \in Log
  BY DEF OlderShown, TalkInv, TalkTypeOK
<1>2. (~app.open /\ app' = free /\ fetches' = rest /\ UNCHANGED log)
      \/ (app' = [free EXCEPT !.cache = shown, !.more = more] /\ fetches' = others
          /\ log' = [log EXCEPT !.crossed = crossed, !.suspect = S])
  BY Zenon DEF OlderShown
<1>3. /\ g \in Fetch /\ g.page \in Seq(Copy) /\ g.stale \in SUBSET Messages /\ g.want \in 0..MaxPosts
      /\ app.cache \in Seq(Copy) /\ app.more \in BOOLEAN /\ app.busy \in BOOLEAN /\ g.old \in BOOLEAN
      /\ log.suspect \in SUBSET Messages /\ log.crossed \in BOOLEAN
  BY <1>1, FetchIs, AppIs, LogTypes
<1>4. shown \in Seq(Copy) /\ (full => shown # <<>>)
  BY <1>3, PageBounds
<1>50. (onward => full /\ next = Ask(f, "jump", Head(shown).id, g.want)) /\ (~onward => next = None)
  OBVIOUS
<1> HIDE DEF next, shown, full, onward
<1>5. next \in Fetch \cup {None}
  <2>1. CASE onward
    <3>1. Head(shown) \in Copy
      BY <1>4, <1>50, <2>1
    <3>2. Head(shown).id \in 0..MaxPosts
      BY <3>1, PageBounds DEF Copy, Messages
    <3> QED
      <4>1. PICK older \in 0..MaxPosts : older = Head(shown).id
        BY <3>2
      <4>2. next = Ask(f, "jump", older, g.want)
        BY <1>50, <2>1, <4>1
      <4>3. Ask(f, "jump", older, g.want) \in Fetch
        <5>1. PICK want \in 0..MaxPosts : want = g.want
          BY <1>3
        <5>2. Ask(0, "jump", older, want) \in Fetch /\ Ask(f, "jump", older, want) = Ask(0, "jump", older, want)
          BY AskTypes
        <5> QED
          BY <5>1, <5>2
      <4> QED
        BY <4>2, <4>3
  <2>2. CASE ~onward
    BY <1>50, <2>2
  <2> QED
    BY <2>1, <2>2
<1>6. busy \in BOOLEAN /\ more \in BOOLEAN /\ crossed \in BOOLEAN /\ S \in SUBSET Messages
  BY <1>3
<1> HIDE DEF busy, more, crossed, S
<1>7. free \in App /\ rest \in [Fetches -> Fetch \cup {None}]
  <2>1. free \in App
    BY <1>1, <1>4, <1>6, StoreTypes
  <2> QED
    BY <1>1, <1>5, <2>1, FetchMoves
<1> HIDE DEF free, rest
<1>8. others \in [Fetches -> Fetch \cup {None}]
  <2> SUFFICES ASSUME NEW h \in Fetches PROVE others[h] \in Fetch \cup {None}
    OBVIOUS
  <2>1. PICK x : x = fetches[h]
    OBVIOUS
  <2>2. x \in Fetch \cup {None} /\ (x # None => [x EXCEPT !.old = TRUE] \in Fetch)
    BY <1>1, <2>1 DEF Fetch
  <2>3. others[h] = rest[h] \/ (x # None /\ others[h] = [x EXCEPT !.old = TRUE])
    BY <2>1
  <2> QED
    BY <1>7, <2>2, <2>3
<1> HIDE DEF others
<1>9. [free EXCEPT !.cache = shown, !.more = more] \in App
  BY <1>4, <1>6, <1>7, StoreTypes
<1>10. [log EXCEPT !.crossed = crossed, !.suspect = S] \in Log
  BY <1>1, <1>6 DEF Log
<1>11. app' \in App /\ log' \in Log /\ fetches' \in [Fetches -> Fetch \cup {None}]
  BY <1>1, <1>2, <1>7, <1>8, <1>9, <1>10
<1> QED
  BY <1>1, <1>11, JobsStand DEF TalkInv, TalkTypeOK

LEMMA FetchFailsTypes == ASSUME TalkInv, NEW f \in Fetches, FetchFails(f) PROVE TalkInv'
<1> DEFINE busy == app.busy /\ fetches[f].kind # "scroll"
           crossed == log.crossed \/ fetches[f].kind = "refetch"
           t == [log EXCEPT !.faults = log.faults + 1]
<1>1. /\ log.faults < MaxFaults /\ UNCHANGED <<rows, pins, clock, due, jobs, reveal>>
      /\ fetches' = [fetches EXCEPT ![f] = None]
      /\ app' = [app EXCEPT !.busy = busy]
      /\ log' = [t EXCEPT !.crossed = crossed]
  BY DEF FetchFails
<1>2. app \in App /\ log \in Log /\ fetches \in [Fetches -> Fetch \cup {None}]
  BY DEF TalkInv, TalkTypeOK
<1>3. busy \in BOOLEAN /\ crossed \in BOOLEAN
  BY <1>2, AppIs, LogTypes
<1> HIDE DEF busy, crossed
<1>4. t \in Log
  BY <1>1, <1>2, LogTypes
<1> HIDE DEF t
<1>5. app' \in App /\ log' \in Log
  BY <1>1, <1>2, <1>3, <1>4, AppIs, StoreTypes, LogTypes
<1>6. fetches' \in [Fetches -> Fetch \cup {None}]
  BY <1>1, <1>2, FetchMoves
<1> QED
  BY <1>1, <1>5, <1>6, JobsStand DEF TalkInv, TalkTypeOK

-----------------------------------------------------------------------------
(* The whole page.                                                         *)
LEMMA JobStepTypes == ASSUME TalkInv, NEW k \in Jobs, JobStep(k) PROVE TalkInv'
<1>1. ASSUME NEW op \in Exercised, Post(k, op) PROVE TalkInv'
  BY <1>1, PostTypes
<1>2. ASSUME NEW op \in Exercised, NEW m \in Messages, Request(k, op, m) PROVE TalkInv'
  BY <1>2, ExercisedOps, RequestTypes
<1>3. ASSUME NEW m \in Messages, ResolveEmbeds(k, m) PROVE TalkInv'
  BY <1>3, ResolveTypes
<1> QED
  BY <1>1, <1>2, <1>3, WritePinsTypes, WriteRowTypes, ReadAgainTypes, TellTypes, SendAnsweredTypes, JobFailsTypes
     DEF JobStep

LEMMA PageStepTypes == ASSUME TalkInv, NEW f \in Fetches, PageStep(f) PROVE TalkInv'
BY OpenTypes, ScrollUpTypes, JumpTypes, FlipTypes, QueryTypes, OlderShownTypes, FetchFailsTypes DEF PageStep

LEMMA TalkStands == ASSUME TalkInv, UNCHANGED channelVars PROVE TalkInv'
BY JobsStand DEF channelVars, TalkInv, TalkTypeOK

LEMMA TalkTypes == ASSUME TalkInv, ChannelNext \/ UNCHANGED channelVars PROVE TalkInv'
<1>1. ASSUME NEW k \in Jobs, JobStep(k) PROVE TalkInv'
  BY <1>1, JobStepTypes
<1>2. ASSUME NEW f \in Fetches, PageStep(f) \/ LoadShown(f) PROVE TalkInv'
  BY <1>2, PageStepTypes, ListReplacedTypes DEF LoadShown
<1> QED
  BY <1>1, <1>2, LeaveTypes, TalkStands DEF ChannelNext

(* What the messages and the sidebar do to the client is a move of its.    *)
LEMMA ClientOnly == ASSUME ChannelNext \/ ServerNext \/ UNCHANGED clientVars PROVE [ClientMoves]_clientVars
<1>1. ASSUME NEW f \in Fetches, LoadShown(f) PROVE [ClientMoves]_clientVars
  <2>1. UNCHANGED clientVars \/ \E k \in Calls : Subscription(k, [op |-> "subscribe", topics |-> {Channel}])
    BY <1>1 DEF LoadShown
  <2>2. PICK g \in Frame : g = [op |-> "subscribe", topics |-> {Channel}]
    BY ChannelKnown DEF Frame
  <2>3. ASSUME NEW k \in Calls, Subscription(k, [op |-> "subscribe", topics |-> {Channel}]) PROVE ClientMoves
    <3>1. Subscription(k, g)
      BY <2>2, <2>3, Zenon
    <3> QED
      BY <3>1, Zenon DEF ClientMoves
  <2> QED
    BY <2>1, <2>3, Zenon
<1>2. ASSUME NEW l \in Loads, ShowLists(l) PROVE [ClientMoves]_clientVars
  <2>1. UNCHANGED clientVars \/ \E k \in Calls : Subscription(k, [op |-> "subscribe", topics |-> {Server}])
    BY <1>2 DEF ShowLists
  <2>2. PICK g \in Frame : g = [op |-> "subscribe", topics |-> {Server}]
    BY ServerKnown DEF Frame
  <2>3. ASSUME NEW k \in Calls, Subscription(k, [op |-> "subscribe", topics |-> {Server}]) PROVE ClientMoves
    <3>1. Subscription(k, g)
      BY <2>2, <2>3, Zenon
    <3> QED
      BY <3>1, Zenon DEF ClientMoves
  <2> QED
    BY <2>1, <2>3, Zenon
<1> QED
  BY <1>1, <1>2, Zenon DEF ChannelNext, ServerNext, ClientMoves

LEMMA TalkStarts == ChannelInit => TalkInv
<1> SUFFICES ASSUME ChannelInit PROVE TalkInv
  OBVIOUS
<1>1. PICK cache \in Seq(Copy) : cache = <<>>
  BY EmptyPage
<1>2. app = [open |-> FALSE, cache |-> cache, more |-> TRUE, busy |-> FALSE]
  BY <1>1, Zenon DEF ChannelInit
<1>3. app \in App
  BY <1>1, <1>2 DEF App
<1>4. log \in Log
  BY PageBounds DEF ChannelInit, Log
<1>5. clock \in 0..MaxPosts
  BY PageBounds DEF ChannelInit
<1>6. TalkTypeOK
  BY <1>3, <1>4, <1>5 DEF ChannelInit, TalkTypeOK
<1>7. JobsShaped
  BY DEF ChannelInit, JobsShaped
<1> QED
  BY <1>6, <1>7 DEF TalkInv

SoundInv == ClientTypeOK /\ MirrorInv /\ TalkInv /\ SideInv

LEMMA SoundStarts == PageInit => SoundInv
BY ClientStarts, MirrorStarts, TalkStarts, SideStarts DEF PageInit, ChannelInit, SoundInv

LEMMA SoundSteps == SoundInv /\ [PageNext]_pageVars => SoundInv'
<1> SUFFICES ASSUME SoundInv, [PageNext]_pageVars PROVE SoundInv'
  OBVIOUS
<1>1. CASE UNCHANGED pageVars
  <2>1. UNCHANGED clientVars /\ UNCHANGED channelVars /\ UNCHANGED serverVars
    BY <1>1 DEF pageVars, allVars
  <2> QED
    BY <2>1, ClientTypes, ClientMirrors, TalkTypes, SideTypes DEF SoundInv
<1>2. CASE ChannelNext /\ UNCHANGED serverVars
  BY <1>2, ClientOnly, ClientTypes, ClientMirrors, TalkTypes, SideTypes DEF SoundInv
<1>3. CASE ServerNext /\ UNCHANGED channelVars
  BY <1>3, ClientOnly, ClientTypes, ClientMirrors, TalkTypes, SideTypes DEF SoundInv
<1> QED
  BY <1>1, <1>2, <1>3 DEF PageNext

(* Whatever is declared of the page has its type.                          *)
THEOREM PageTypes == PageSpec => []PageTypeOK
<1>1. SoundInv => PageTypeOK
  BY DEF SoundInv, PageTypeOK, AllTypeOK, TalkInv, TalkTypeOK, SideInv
<1> QED
  BY <1>1, SoundStarts, SoundSteps, PTL DEF PageSpec

(* Through whatever the requests, the loads, the sidebar and the client's  *)
(* own loops do: once a connection stands and nobody is inside a call, the *)
(* frames it was sent ask for what the application wants.                  *)
THEOREM PageSafe == PageSpec => []FramesMirror
<1>1. SoundInv => FramesMirror
  BY MirrorSays DEF SoundInv
<1> QED
  BY <1>1, SoundStarts, SoundSteps, PTL DEF PageSpec
================================================================================

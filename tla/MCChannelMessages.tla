-------------------------- MODULE MCChannelMessages --------------------------
(* ChannelPage for TLC.                                                    *)
EXTENDS ChannelPage

CONSTANTS n1, n2, n3, g1, g2

(* Acts and Loads have the values of Jobs and Fetches in the configuration *)
(* (fewer permutations): messages and sidebar are not busy at once.        *)
Symmetric == Permutations(Conns) \cup Permutations(Loops) \cup Permutations(Calls)
               \cup Permutations(Jobs) \cup Permutations(Fetches)

(* The app is connected and has some topics.                               *)
Connected(topics, breaks) ==
  \E c \in Conns, l \in Loops :
    /\ client = [state |-> "identified", stopped |-> FALSE, outgoing |-> c,
                 subscribed |-> topics, pending |-> <<>>]
    /\ loops = [x \in Loops |-> IF x = l THEN [stage |-> "pump", conn |-> c] ELSE None]
    /\ calls = [k \in Calls |-> None]
    /\ conns = [x \in Conns |-> IF x = c THEN [Opened EXCEPT !.user = TRUE, !.topics = topics, !.told = topics] ELSE None]
    /\ past = [cut |-> FALSE, mixed |-> FALSE, again |-> {}, calls |-> MaxCalls, breaks |-> MaxBreaks - breaks]

(* A channel with some messages, of which some are in the trash; some      *)
(* requests, loads and changes of the permission are left.                 *)
Trashed(trash, posted, requests, visits, changes, failures) ==
  /\ rows = [m \in Messages |-> IF m > posted THEN None ELSE [Posted EXCEPT !.deleted = m \in trash]]
  /\ pins = {} /\ clock = posted /\ due = {}
  /\ jobs = [k \in Jobs |-> None] /\ fetches = [f \in Fetches |-> None]
  /\ reveal \in BOOLEAN
  /\ app = [open |-> FALSE, cache |-> <<>>, more |-> TRUE, busy |-> FALSE]
  /\ log = [suspect |-> {}, crossed |-> FALSE, rivals |-> FALSE, jobs |-> MaxJobs - requests,
            loads |-> MaxLoads - visits, flips |-> MaxFlips - changes, faults |-> MaxFaults - failures]
Left(posted, requests, visits, changes, failures) ==
  \E trash \in SUBSET {1} : Trashed(trash, posted, requests, visits, changes, failures)
NoMessages == Left(MaxPosts, 0, 0, 0, 0) /\ reveal /\ ~rows[1].deleted

(* A sidebar, looked at or not; some requests, loads and failures are left.*)
At0(cat) == [place |-> 0, cat |-> cat, deleted |-> FALSE]
At1(cat) == [At0(cat) EXCEPT !.place = 1]
Lists ==
  {<<(n1 :> At0(None)) @@ (n2 :> At1(g1)) @@ (n3 :> None), (g1 :> 0) @@ (g2 :> None)>>,
   <<(n1 :> At0(None)) @@ (n2 :> [At1(g1) EXCEPT !.deleted = TRUE]) @@ (n3 :> None), (g1 :> 0) @@ (g2 :> None)>>,
   <<(n1 :> At0(g1)) @@ (n2 :> At1(g1)) @@ (n3 :> [At0(None) EXCEPT !.place = 2]), (g1 :> 0) @@ (g2 :> 1)>>}
Idle(open, requests, visits, failures) ==
  /\ acts = [k \in Acts |-> None] /\ loads = [l \in Loads |-> None]
  /\ sidebar = [open |-> open, shown |-> IF open THEN LiveRows ELSE Nowhere,
                headings |-> IF open THEN categories ELSE NoHeading, due |-> FALSE]
  /\ trail = [suspect |-> {}, torn |-> {}, gone |-> {}, raced |-> {}, acts |-> MaxActs - requests,
              visits |-> MaxVisits - visits, throws |-> MaxThrows - failures]
Kept(open, requests, visits, failures) ==
  (\E l \in Lists : channels = l[1] /\ categories = l[2]) /\ Idle(open, requests, visits, failures)
NoSidebar == channels = Nowhere /\ categories = NoHeading /\ Idle(FALSE, 0, 0, 0)

MessagesInit ==
  \/ ClientInit /\ NoMessages
  \/ Connected({Channel}, 0) /\ Left(2, 1, 1, 0, 0)         \* a message is posted around a load,
  \/ Connected({Channel}, 0) /\ Left(2, 0, 2, 0, 0)         \* or around two
  \/ Connected({Channel}, 0) /\ Left(MaxPosts, 2, 1, 0, 0)  \* requests that overlap
  \/ Connected({Channel}, 0) /\ Left(MaxPosts, 1, 3, 0, 0)  \* loads that overlap
  \/ Connected({Channel}, 0) /\ Left(MaxPosts, 1, 2, 1, 0)
  \/ Connected({Channel}, 0) /\ Trashed({MaxPosts}, MaxPosts, 0, 1, 2, 0)  \* a permission that changes twice
  \/ Connected({Channel}, 0) /\ Left(MaxPosts, 1, 2, 0, 1)
  \/ Connected({Channel}, 1) /\ Left(MaxPosts, 1, 1, 0, 0)
  \/ Connected({Channel}, 1) /\ Left(2, 0, 1, 0, 0)
  \/ Connected({Channel}, 0) /\ Trashed({}, 1, 0, 2, 0, 0) /\ ~reveal  \* two messages at once, around two loads
SidebarInit ==
  \/ Connected({Server}, 0) /\ Kept(TRUE, 2, 0, 0)  \* requests that overlap
  \/ Connected({Server}, 0) /\ Kept(TRUE, 1, 2, 0)  \* loads that overlap
  \/ Connected({}, 0) /\ Kept(FALSE, 1, 1, 0)       \* the server is opened
  \/ Connected({Server}, 0) /\ Kept(TRUE, 1, 1, 1)
  \/ Connected({Server}, 1) /\ Kept(TRUE, 1, 0, 0)
MCInit == (MessagesInit /\ NoSidebar) \/ (SidebarInit /\ NoMessages)
MCSpec == MCInit /\ [][PageNext]_pageVars
===============================================================================

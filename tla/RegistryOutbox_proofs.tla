------------------------- MODULE RegistryOutbox_proofs -------------------------
(***************************************************************************)
(* Nothing is lost in the outbox, for any number of requests, rotations,   *)
(* registries and jobs; a job that is over stays so; and where no call     *)
(* failed and no rotation crossed other work, what may still be sent is of *)
(* the current root, and the list of registries tells the truth.  First,   *)
(* what RootRotation keeps alone and in this company: the chain verifies,  *)
(* the wrapped seed is that of its head, and every delegation is signed by *)
(* a root it vouches for.                                                  *)
(***************************************************************************)
EXTENDS RegistryOutbox, FiniteSetTheorems, WellFoundedInduction, TLAPS

(* A statement that has a place in the chain names the root before it.     *)
Placed(st) ==
  /\ st # None
  /\ st.seq \in 1..(Rows(chain) + 1)
  /\ st.prev = IF st.seq = 1 THEN Genesis ELSE chain[st.seq - 1].new

(* What a rotation or a delegation under way may rely on.                  *)
Underway(k) ==
  LET r == rots[k]
  IN r # None =>
       /\ r.stage # "create" => r.stmt # None
       /\ r.seed = None <=> seed = None
       /\ r.stage = "prepare" => Placed(r.stmt)
       /\ r.stage = "append" => Placed(r.stmt) /\ r.stmt.signer = r.stmt.prev
       /\ r.stage \in {"resign", "republish"} => r.stmt.new \in RootsOf(chain)
       /\ r.stage = "create" => r.seed \in RootsOf(chain)

IInv ==
  /\ RotationTypeOK
  /\ ChainVerifies
  /\ SeedIsHead
  /\ DelegationsVouched
  /\ \A k \in Rotators : Underway(k)

-----------------------------------------------------------------------------
LEMMA RowsNat ==
  ASSUME RotationTypeOK PROVE Rows(chain) \in Nat
BY FS_CardinalityType DEF RotationTypeOK, Rows

(* The head is one of the roots the chain vouches for.                     *)
LEMMA HeadVouched ==
  ASSUME RotationTypeOK, ChainVerifies PROVE CurrentRoot \in RootsOf(chain)
<1>1. Rows(chain) \in Nat BY RowsNat
<1>2. Rows(chain) # 0 => Rows(chain) \in DOMAIN chain
  BY <1>1 DEF ChainVerifies, Verifies
<1> QED BY <1>2 DEF CurrentRoot, RootOf, RootsOf

(* A statement that takes the next place extends the chain.                *)
LEMMA Extends ==
  ASSUME RotationTypeOK, ChainVerifies,
         NEW st \in Statement, Placed(st), st.signer = st.prev,
         st.seq \notin DOMAIN chain
  PROVE LET c == WithRow(chain, st)
        IN /\ IsFiniteSet(DOMAIN c) /\ DOMAIN c \subseteq Nat \ {0}
           /\ \A i \in DOMAIN c : c[i] \in Statement
           /\ Rows(c) = Rows(chain) + 1 /\ Verifies(c)
           /\ RootOf(c) = st.new
           /\ DOMAIN chain \subseteq DOMAIN c
           /\ \A i \in DOMAIN chain : c[i] = chain[i]
           /\ RootsOf(chain) \subseteq RootsOf(c) /\ st.new \in RootsOf(c)
<1> DEFINE c == WithRow(chain, st)
<1>1. Rows(chain) \in Nat BY RowsNat
<1>2. DOMAIN chain = 1..Rows(chain) BY DEF ChainVerifies, Verifies
<1>3. st.seq = Rows(chain) + 1 BY <1>1, <1>2 DEF Placed
<1>4. DOMAIN c = DOMAIN chain \cup {st.seq} BY DEF WithRow
<1>5. /\ IsFiniteSet(DOMAIN c)
      /\ Cardinality(DOMAIN c) = Cardinality(DOMAIN chain) + 1
  BY <1>4, FS_AddElement DEF RotationTypeOK
<1>6. Rows(c) = Rows(chain) + 1 BY <1>5 DEF Rows
<1>7. DOMAIN c = 1..Rows(c) BY <1>1, <1>2, <1>3, <1>4, <1>6
<1>8. \A i \in DOMAIN chain : c[i] = chain[i] BY DEF WithRow
<1>9. c[st.seq] = st BY DEF WithRow
<1>10. Verifies(c)
  <2>1. ASSUME NEW i \in DOMAIN c
        PROVE /\ c[i].seq = i
              /\ c[i].prev = IF i = 1 THEN Genesis ELSE c[i - 1].new
              /\ c[i].signer = c[i].prev
    <3>1. CASE i \in DOMAIN chain
      <4>1. i # 1 => i - 1 \in DOMAIN chain BY <3>1, <1>1, <1>2
      <4> QED BY <3>1, <4>1, <1>8 DEF ChainVerifies, Verifies
    <3>2. CASE i = st.seq
      <4>1. i # 1 => i - 1 \in DOMAIN chain BY <3>2, <1>1, <1>2, <1>3
      <4> QED BY <3>2, <4>1, <1>8, <1>9 DEF Placed
    <3> QED BY <3>1, <3>2, <1>4
  <2> QED BY <2>1, <1>7 DEF Verifies
<1>11. RootOf(c) = st.new BY <1>1, <1>3, <1>6, <1>9 DEF RootOf
<1>12. RootsOf(chain) \subseteq RootsOf(c) /\ st.new \in RootsOf(c)
  BY <1>4, <1>8, <1>9 DEF RootsOf
<1>13. DOMAIN c \subseteq Nat \ {0} /\ \A i \in DOMAIN c : c[i] \in Statement
  BY <1>4, <1>8, <1>9 DEF RotationTypeOK, Statement
<1> QED BY <1>4, <1>5, <1>6, <1>8, <1>10, <1>11, <1>12, <1>13

-----------------------------------------------------------------------------
(* Who waits on may rely on the same things as long as chain and seed are  *)
(* left alone.                                                             *)
LEMMA Waits ==
  ASSUME NEW j \in Rotators, Underway(j),
         rots'[j] = rots[j], chain' = chain, (seed' = None) <=> (seed = None)
  PROVE Underway(j)'
BY DEF Underway, Placed, RootsOf, Rows

LEMMA InitKept == RotationInit => IInv
<1> SUFFICES ASSUME RotationInit PROVE IInv OBVIOUS
<1>1. DOMAIN chain = {} /\ Rows(chain) = 0
  BY FS_EmptySet DEF RotationInit, Rows
<1>2. RotationTypeOK
  BY <1>1, RotationBounds, FS_EmptySet
  DEF RotationInit, RotationTypeOK, Roots, Genesis
<1>3. ChainVerifies BY <1>1 DEF ChainVerifies, Verifies
<1>4. CurrentRoot = Genesis BY <1>1 DEF CurrentRoot, RootOf
<1> QED BY <1>2, <1>3, <1>4
     DEF IInv, RotationInit, SeedIsHead, DelegationsVouched, Underway

(* Nothing but rots[k] changes, and what it becomes may be relied upon.    *)
LEMMA OnlyRots ==
  ASSUME IInv, NEW k \in Rotators, NEW r \in Rot \cup {None},
         rots' = [rots EXCEPT ![k] = r], Underway(k)',
         UNCHANGED <<chain, seed, sigs>>, minted' \in Roots, faults' \in 0..MaxFaults
  PROVE IInv'
<1>1. RotationTypeOK' BY DEF IInv, RotationTypeOK
<1>2. (ChainVerifies /\ SeedIsHead /\ DelegationsVouched)'
  BY DEF IInv, ChainVerifies, Verifies, SeedIsHead, CurrentRoot, RootOf, Rows,
         DelegationsVouched, RootsOf
<1>3. ASSUME NEW j \in Rotators PROVE Underway(j)'
  <2>1. CASE j = k BY <2>1
  <2>2. CASE j # k
    <3>1. rots'[j] = rots[j] BY <2>2 DEF IInv, RotationTypeOK
    <3> QED BY <3>1, Waits DEF IInv
  <2> QED BY <2>1, <2>2
<1> QED BY <1>1, <1>2, <1>3 DEF IInv

(* A request that ends leaves nothing to rely upon.                        *)
LEMMA Ends ==
  ASSUME IInv, NEW k \in Rotators, RotDone(k),
         UNCHANGED <<chain, seed, sigs, minted>>, faults' \in 0..MaxFaults
  PROVE IInv'
<1>1. rots' = [rots EXCEPT ![k] = None] BY DEF RotDone
<1>2. Underway(k)' BY <1>1 DEF Underway, IInv, RotationTypeOK
<1> QED BY <1>1, <1>2, OnlyRots DEF IInv, RotationTypeOK

LEMMA RotateAegisKeeps ==
  ASSUME IInv, NEW k \in Rotators, RotateAegis(k) PROVE IInv'
<1> DEFINE r == [stage |-> "chain", seed |-> seed, todo |-> {},
       stmt |-> [seq |-> 1, prev |-> Genesis, new |-> minted + 1, signer |-> seed]]
<1>1. minted + 1 \in Roots /\ Genesis \in Roots /\ seed \in Roots
  BY RotationBounds DEF RotateAegis, IInv, RotationTypeOK, Roots, Genesis
<1>2. r.stmt \in Statement BY <1>1 DEF Statement
<1>3. r \in Rot BY <1>1, <1>2 DEF Rot, RotStages
<1>4. rots' = [rots EXCEPT ![k] = r] BY DEF RotateAegis
<1>5. Underway(k)'
  <2>1. rots'[k] = r BY <1>4 DEF IInv, RotationTypeOK
  <2> QED BY <2>1, <1>2, RotationNone DEF Underway, RotateAegis
<1> QED BY <1>1, <1>3, <1>4, <1>5, OnlyRots DEF RotateAegis, IInv, RotationTypeOK

LEMMA RotateExternalKeeps ==
  ASSUME IInv, NEW k \in Rotators, RotateExternal(k) PROVE IInv'
<1>1. PICK n \in 0..Rows(chain) :
        LET prev == IF n = 0 THEN Genesis ELSE chain[n].new
        IN rots' = [rots EXCEPT ![k] =
             [stage |-> "chain", seed |-> None, todo |-> {},
              stmt |-> [seq |-> n + 1, prev |-> prev, new |-> minted + 1, signer |-> prev]]]
  BY DEF RotateExternal
<1> DEFINE prev == IF n = 0 THEN Genesis ELSE chain[n].new
           r == [stage |-> "chain", seed |-> None, todo |-> {},
                 stmt |-> [seq |-> n + 1, prev |-> prev, new |-> minted + 1, signer |-> prev]]
<1>2. Rows(chain) \in Nat BY RowsNat DEF IInv
<1>3. n # 0 => n \in DOMAIN chain BY <1>2 DEF IInv, ChainVerifies, Verifies
<1>4. prev \in Roots /\ minted + 1 \in Roots
  BY <1>3, RotationBounds DEF RotateExternal, IInv, RotationTypeOK, Statement, Roots, Genesis
<1>5. r.stmt \in Statement BY <1>2, <1>4 DEF Statement
<1>6. r \in Rot BY <1>5 DEF Rot, RotStages
<1>7. rots' = [rots EXCEPT ![k] = r] BY <1>1
<1>8. Underway(k)'
  <2>1. rots'[k] = r BY <1>7 DEF IInv, RotationTypeOK
  <2> QED BY <2>1, <1>5, RotationNone DEF Underway, RotateExternal
<1> QED BY <1>4, <1>6, <1>7, <1>8, OnlyRots DEF RotateExternal, IInv, RotationTypeOK

LEMMA ReadChainKeeps ==
  ASSUME IInv, NEW k \in Rotators, ReadChain(k) PROVE IInv'
<1>0. /\ rots[k] \in Rot /\ rots[k].stmt \in Statement
      /\ rots[k].seed = None <=> seed = None
      /\ rots[k] # None /\ rots[k].stage = "chain"
  BY DEF ReadChain, RotAt, IInv, RotationTypeOK, Underway, Rot
<1>1. Rows(chain) \in Nat BY RowsNat DEF IInv
<1>2. CurrentRoot \in Roots
  <2>1. Rows(chain) # 0 => chain[Rows(chain)] \in Statement
    BY <1>1 DEF IInv, RotationTypeOK, ChainVerifies, Verifies
  <2>2. Genesis \in Roots BY RotationBounds DEF Genesis, Roots
  <2> QED BY <2>1, <2>2 DEF CurrentRoot, RootOf, Statement
<1>3. CASE /\ Custodial(k) /\ Verifies(chain)
           /\ rots' = [rots EXCEPT ![k] =
                [stage |-> "prepare", seed |-> @.seed, todo |-> {},
                 stmt |-> [seq |-> Rows(chain) + 1, prev |-> CurrentRoot,
                           new |-> @.stmt.new, signer |-> @.stmt.signer]]]
  <2> DEFINE st == [seq |-> Rows(chain) + 1, prev |-> CurrentRoot,
                    new |-> rots[k].stmt.new, signer |-> rots[k].stmt.signer]
             r == [stage |-> "prepare", seed |-> rots[k].seed, todo |-> {}, stmt |-> st]
  <2>1. st \in Statement BY <1>0, <1>1, <1>2 DEF Statement
  <2>2. r \in Rot BY <2>1, <1>0 DEF Rot, RotStages
  <2>3. rots' = [rots EXCEPT ![k] = r] BY <1>3
  <2>4. Underway(k)'
    <3>1. rots'[k] = r BY <2>3 DEF IInv, RotationTypeOK
    <3>2. chain' = chain /\ seed' = seed BY DEF ReadChain, identity
    <3>3. Placed(st)
      <4>1. st # None BY <2>1, RotationNone
      <4>2. (Rows(chain) + 1 = 1) <=> (Rows(chain) = 0) BY <1>1
      <4>3. Rows(chain) + 1 - 1 = Rows(chain) BY <1>1
      <4> QED BY <4>1, <4>2, <4>3, <1>1 DEF Placed, CurrentRoot, RootOf
    <3>4. Placed(rots[k].stmt)' BY <3>1, <3>2, <3>3 DEF Placed, Rows
    <3> QED BY <3>1, <3>2, <3>4, <1>0 DEF Underway, Placed
  <2> QED BY <2>2, <2>3, <2>4, OnlyRots DEF ReadChain, identity, IInv, RotationTypeOK
<1>4. CASE /\ ~Custodial(k) /\ Verifies(chain)
           /\ rots[k].stmt.seq = Rows(chain) + 1
           /\ rots[k].stmt.prev = CurrentRoot
           /\ Verifies(WithRow(chain, rots[k].stmt))
           /\ RotGoto(k, "append")
  <2> DEFINE st == rots[k].stmt
             r == [rots[k] EXCEPT !.stage = "append"]
  <2>1. r \in Rot BY <1>0 DEF Rot, RotStages
  <2>2. rots' = [rots EXCEPT ![k] = r] BY <1>4 DEF RotGoto
  <2>3. chain' = chain /\ seed' = seed BY DEF ReadChain, identity
  <2>4. st.signer = st.prev BY <1>4 DEF Verifies, WithRow
  <2>5. Placed(st)
    <3>1. st # None BY <1>0, RotationNone
    <3>2. (Rows(chain) + 1 = 1) <=> (Rows(chain) = 0) BY <1>1
    <3>3. Rows(chain) + 1 - 1 = Rows(chain) BY <1>1
    <3> QED BY <3>1, <3>2, <3>3, <1>1, <1>4 DEF Placed, CurrentRoot, RootOf
  <2>6. Underway(k)'
    <3>1. rots'[k] = r BY <2>2 DEF IInv, RotationTypeOK
    <3>2. r.stmt = st /\ r.stage = "append" /\ r.seed = rots[k].seed BY <1>0 DEF Rot
    <3>3. Placed(rots[k].stmt)' BY <3>1, <3>2, <2>3, <2>5 DEF Placed, Rows
    <3> QED BY <3>1, <3>2, <3>3, <2>3, <2>4, <1>0 DEF Underway, Placed
  <2> QED BY <2>1, <2>2, <2>6, OnlyRots DEF ReadChain, identity, IInv, RotationTypeOK
<1>5. CASE RotDone(k)
  BY <1>5, Ends DEF ReadChain, identity, IInv, RotationTypeOK
<1> QED BY <1>3, <1>4, <1>5 DEF ReadChain

LEMMA PrepareKeeps ==
  ASSUME IInv, NEW k \in Rotators, Prepare(k) PROVE IInv'
<1>0. /\ rots[k] \in Rot /\ rots[k].stmt \in Statement /\ Placed(rots[k].stmt)
      /\ rots[k].seed = None <=> seed = None
      /\ rots[k] # None /\ rots[k].stage = "prepare"
  BY DEF Prepare, RotAt, IInv, RotationTypeOK, Underway, Rot
<1>1. CASE /\ rots[k].stmt.signer = rots[k].stmt.prev
           /\ rots' = [rots EXCEPT ![k] = [@ EXCEPT !.stage = "append",
                                           !.todo = {d \in Delegations : sigs[d] # None}]]
  <2> DEFINE r == [rots[k] EXCEPT !.stage = "append",
                                  !.todo = {d \in Delegations : sigs[d] # None}]
  <2>1. r \in Rot BY <1>0 DEF Rot, RotStages
  <2>2. rots' = [rots EXCEPT ![k] = r] BY <1>1
  <2>3. chain' = chain /\ seed' = seed BY DEF Prepare, identity
  <2>4. Underway(k)'
    <3>1. rots'[k] = r BY <2>2 DEF IInv, RotationTypeOK
    <3>2. r.stmt = rots[k].stmt /\ r.stage = "append" /\ r.seed = rots[k].seed
      BY <1>0 DEF Rot
    <3>3. Placed(rots[k].stmt)' BY <3>1, <3>2, <2>3, <1>0 DEF Placed, Rows
    <3> QED BY <3>1, <3>2, <3>3, <2>3, <1>0, <1>1 DEF Underway, Placed
  <2> QED BY <2>1, <2>2, <2>4, OnlyRots DEF Prepare, identity, IInv, RotationTypeOK
<1>2. CASE RotDone(k)
  BY <1>2, Ends DEF Prepare, identity, IInv, RotationTypeOK
<1> QED BY <1>1, <1>2 DEF Prepare

(* The rows of the other rotations stay where they are: the chain only     *)
(* grows, and what it vouched for it vouches for.                          *)
LEMMA AppendKeepsOthers ==
  ASSUME IInv, NEW k \in Rotators, NEW j \in Rotators, j # k,
         RotAt(k, "append"), rots[k].stmt.seq \notin DOMAIN chain,
         chain' = WithRow(chain, rots[k].stmt),
         seed' = IF Custodial(k) THEN rots[k].stmt.new ELSE seed,
         rots'[j] = rots[j]
  PROVE Underway(j)'
<1> DEFINE st == rots[k].stmt
<1>0. /\ rots[k] \in Rot /\ st \in Statement /\ Placed(st) /\ st.signer = st.prev
      /\ rots[k].seed = None <=> seed = None
  BY DEF RotAt, IInv, RotationTypeOK, Underway, Rot
<1>1. /\ Rows(chain') = Rows(chain) + 1
      /\ \A i \in DOMAIN chain : chain'[i] = chain[i]
      /\ RootsOf(chain) \subseteq RootsOf(chain')
  BY <1>0, Extends DEF IInv
<1>2. Rows(chain) \in Nat /\ DOMAIN chain = 1..Rows(chain)
  BY RowsNat DEF IInv, ChainVerifies, Verifies
<1>3. (seed' = None) <=> (seed = None)
  BY <1>0, RotationNone DEF Custodial, Statement
<1>4. ASSUME rots[j] # None, Placed(rots[j].stmt) PROVE Placed(rots[j].stmt)'
  <2>1. rots'[j].stmt = rots[j].stmt OBVIOUS
  <2>2. rots[j].stmt.seq # 1 => rots[j].stmt.seq - 1 \in DOMAIN chain
    BY <1>2, <1>4 DEF Placed
  <2>3. rots[j].stmt.seq \in 1..(Rows(chain') + 1) BY <1>1, <1>2, <1>4 DEF Placed
  <2> QED BY <2>1, <2>2, <2>3, <1>1, <1>4 DEF Placed, Rows
<1>5. Underway(j) BY DEF IInv
<1>6. RootsOf(chain)' = RootsOf(chain') BY DEF RootsOf
<1> QED BY <1>1, <1>3, <1>4, <1>5, <1>6 DEF Underway

LEMMA AppendRotationKeeps ==
  ASSUME IInv, NEW k \in Rotators, AppendRotation(k) PROVE IInv'
<1> DEFINE st == rots[k].stmt
<1>0. /\ rots[k] \in Rot /\ st \in Statement /\ Placed(st) /\ st.signer = st.prev
      /\ rots[k].seed = None <=> seed = None
      /\ rots[k] # None
  BY DEF AppendRotation, RotAt, IInv, RotationTypeOK, Underway, Rot
<1>1. CASE /\ st.seq \notin DOMAIN chain
           /\ chain' = WithRow(chain, st)
           /\ seed' = IF Custodial(k) THEN st.new ELSE seed
           /\ RotGoto(k, "resign")
           /\ UNCHANGED faults
  <2> DEFINE r == [rots[k] EXCEPT !.stage = "resign"]
  <2>1. r \in Rot BY <1>0 DEF Rot, RotStages
  <2>2. rots' = [rots EXCEPT ![k] = r] BY <1>1 DEF RotGoto
  <2>3. rots'[k] = r /\ \A j \in Rotators : j # k => rots'[j] = rots[j]
    BY <2>2 DEF IInv, RotationTypeOK
  <2>4. /\ IsFiniteSet(DOMAIN chain') /\ DOMAIN chain' \subseteq Nat \ {0}
        /\ \A i \in DOMAIN chain' : chain'[i] \in Statement
        /\ Verifies(chain') /\ RootOf(chain') = st.new
        /\ RootsOf(chain) \subseteq RootsOf(chain') /\ st.new \in RootsOf(chain')
    BY <1>0, <1>1, Extends DEF IInv
  <2>5. RotationTypeOK'
    <3>1. seed' \in Roots \cup {None} BY <1>0, <1>1 DEF IInv, RotationTypeOK, Statement
    <3>2. rots' \in [Rotators -> Rot \cup {None}]
      BY <2>1, <2>2 DEF IInv, RotationTypeOK
    <3> QED BY <3>1, <3>2, <2>4, <1>1 DEF AppendRotation, IInv, RotationTypeOK
  <2>6. ChainVerifies'
    <3>1. Verifies(chain)' = Verifies(chain') BY DEF Verifies, Rows
    <3> QED BY <3>1, <2>4 DEF ChainVerifies
  <2>7. SeedIsHead'
    <3>1. CurrentRoot' = RootOf(chain') BY DEF CurrentRoot, RootOf, Rows
    <3> QED BY <3>1, <2>4, <1>0, <1>1 DEF SeedIsHead, Custodial
  <2>8. DelegationsVouched'
    <3>1. RootsOf(chain)' = RootsOf(chain') BY DEF RootsOf
    <3> QED BY <3>1, <2>4 DEF AppendRotation, IInv, DelegationsVouched
  <2>9. ASSUME NEW j \in Rotators PROVE Underway(j)'
    <3>1. CASE j # k BY <3>1, <2>3, <1>1, AppendKeepsOthers DEF AppendRotation
    <3>2. CASE j = k
      <4>1. RootsOf(chain)' = RootsOf(chain') BY DEF RootsOf
      <4>2. r.stmt = st /\ r.stage = "resign" /\ r.seed = rots[k].seed
        BY <1>0 DEF Rot
      <4>3. (seed' = None) <=> (seed = None)
        BY <1>0, <1>1, RotationNone DEF Custodial, Statement
      <4> QED BY <3>2, <4>1, <4>2, <4>3, <2>3, <2>4, <1>0, RotationNone DEF Underway
    <3> QED BY <3>1, <3>2
  <2> QED BY <2>5, <2>6, <2>7, <2>8, <2>9 DEF IInv
<1>2. CASE /\ faults' \in 0..MaxFaults
           /\ RotDone(k)
           /\ UNCHANGED <<chain, seed>>
  BY <1>2, Ends DEF AppendRotation
<1>3. faults' = faults \/ Fault => faults' \in 0..MaxFaults
  BY RotationBounds DEF Fault, IInv, RotationTypeOK
<1> QED BY <1>1, <1>2, <1>3 DEF AppendRotation

LEMMA ResignKeeps ==
  ASSUME IInv, NEW k \in Rotators, Resign(k) PROVE IInv'
<1>0. /\ rots[k] \in Rot /\ rots[k].stmt \in Statement
      /\ rots[k].stmt.new \in RootsOf(chain)
      /\ rots[k].seed = None <=> seed = None
      /\ rots[k] # None /\ rots[k].stage = "resign"
  BY DEF Resign, RotAt, IInv, RotationTypeOK, Underway, Rot
<1>1. CASE RotGoto(k, "republish") /\ UNCHANGED <<sigs, faults>>
  <2> DEFINE r == [rots[k] EXCEPT !.stage = "republish"]
  <2>1. r \in Rot BY <1>0 DEF Rot, RotStages
  <2>2. rots' = [rots EXCEPT ![k] = r] BY <1>1 DEF RotGoto
  <2>3. chain' = chain /\ seed' = seed BY DEF Resign
  <2>4. Underway(k)'
    <3>1. rots'[k] = r BY <2>2 DEF IInv, RotationTypeOK
    <3>2. r.stmt = rots[k].stmt /\ r.stage = "republish" /\ r.seed = rots[k].seed
      BY <1>0 DEF Rot
    <3> QED BY <3>1, <3>2, <2>3, <1>0, RotationNone DEF Underway, RootsOf
  <2> QED BY <2>1, <2>2, <2>4, <1>1, OnlyRots DEF Resign, IInv, RotationTypeOK
<1>2. ASSUME NEW d \in rots[k].todo,
             sigs' = [sigs EXCEPT ![d] = rots[k].stmt.new],
             rots' = [rots EXCEPT ![k].todo = @ \ {d}],
             UNCHANGED faults
      PROVE IInv'
  <2> DEFINE r == [rots[k] EXCEPT !.todo = @ \ {d}]
  <2>1. r \in Rot BY <1>0 DEF Rot
  <2>2. rots' = [rots EXCEPT ![k] = r] BY <1>2
  <2>3. UNCHANGED <<chain, seed, minted>> BY DEF Resign
  <2>4. rots'[k] = r /\ \A j \in Rotators : j # k => rots'[j] = rots[j]
    BY <2>2 DEF IInv, RotationTypeOK
  <2>5. d \in Delegations /\ rots[k].stmt.new \in Roots BY <1>0 DEF Rot, Statement
  <2>6. RotationTypeOK'
    <3>1. rots' \in [Rotators -> Rot \cup {None}]
      BY <2>1, <2>2 DEF IInv, RotationTypeOK
    <3>2. sigs' \in [Delegations -> Roots \cup {None}]
      BY <2>5, <1>2 DEF IInv, RotationTypeOK
    <3> QED BY <3>1, <3>2, <2>3, <1>2 DEF IInv, RotationTypeOK
  <2>7. (ChainVerifies /\ SeedIsHead)'
    BY <2>3 DEF IInv, ChainVerifies, Verifies, SeedIsHead, CurrentRoot, RootOf, Rows
  <2>8. DelegationsVouched'
    <3>1. RootsOf(chain)' = RootsOf(chain) BY <2>3 DEF RootsOf
    <3> QED BY <3>1, <2>5, <1>0, <1>2 DEF IInv, RotationTypeOK, DelegationsVouched
  <2>9. ASSUME NEW j \in Rotators PROVE Underway(j)'
    <3>1. CASE j # k BY <3>1, <2>3, <2>4, Waits DEF IInv
    <3>2. CASE j = k
      <4>1. r.stmt = rots[k].stmt /\ r.stage = "resign" /\ r.seed = rots[k].seed
        BY <1>0 DEF Rot
      <4> QED BY <3>2, <4>1, <2>3, <2>4, <1>0, RotationNone DEF Underway, RootsOf
    <3> QED BY <3>1, <3>2
  <2> QED BY <2>6, <2>7, <2>8, <2>9 DEF IInv
<1>3. CASE Fault /\ RotDone(k) /\ UNCHANGED sigs
  <2>1. faults' \in 0..MaxFaults
    BY <1>3, RotationBounds DEF Fault, IInv, RotationTypeOK
  <2> QED BY <2>1, <1>3, Ends DEF Resign
<1> QED BY <1>1, <1>2, <1>3 DEF Resign

LEMMA FinishRotationKeeps ==
  ASSUME IInv, NEW k \in Rotators, FinishRotation(k) PROVE IInv'
BY Ends DEF FinishRotation, identity, IInv, RotationTypeOK

LEMMA DelegateStartKeeps ==
  ASSUME IInv, NEW k \in Rotators, DelegateStart(k) PROVE IInv'
<1> DEFINE r == [stage |-> "create", seed |-> seed, stmt |-> None, todo |-> {}]
<1>1. r \in Rot BY DEF Rot, RotStages, DelegateStart, IInv, RotationTypeOK
<1>2. rots' = [rots EXCEPT ![k] = r] BY DEF DelegateStart
<1>3. Underway(k)'
  <2>1. rots'[k] = r BY <1>2 DEF IInv, RotationTypeOK
  <2>2. seed \in RootsOf(chain) BY HeadVouched DEF IInv, SeedIsHead, DelegateStart
  <2> QED BY <2>1, <2>2 DEF Underway, RootsOf, DelegateStart, identity
<1> QED BY <1>1, <1>2, <1>3, OnlyRots DEF DelegateStart, identity, IInv, RotationTypeOK

LEMMA CreateDelegationKeeps ==
  ASSUME IInv, NEW k \in Rotators, CreateDelegation(k) PROVE IInv'
<1>0. /\ rots[k] \in Rot /\ rots[k] # None /\ rots[k].seed \in RootsOf(chain)
  BY DEF CreateDelegation, RotAt, IInv, RotationTypeOK, Underway
<1>1. CASE UNCHANGED sigs
  BY <1>1, Ends DEF CreateDelegation, IInv, RotationTypeOK
<1>2. ASSUME NEW d \in Delegations, sigs' = [sigs EXCEPT ![d] = rots[k].seed]
      PROVE IInv'
  <2>1. UNCHANGED <<chain, seed, minted, faults>> BY DEF CreateDelegation
  <2>2. rots' = [rots EXCEPT ![k] = None] BY DEF CreateDelegation, RotDone
  <2>3. rots'[k] = None /\ \A j \in Rotators : j # k => rots'[j] = rots[j]
    BY <2>2 DEF IInv, RotationTypeOK
  <2>4. RotationTypeOK' BY <2>1, <2>2, <1>0, <1>2 DEF IInv, RotationTypeOK, Rot
  <2>5. (ChainVerifies /\ SeedIsHead)'
    BY <2>1 DEF IInv, ChainVerifies, Verifies, SeedIsHead, CurrentRoot, RootOf, Rows
  <2>6. DelegationsVouched'
    <3>1. RootsOf(chain)' = RootsOf(chain) BY <2>1 DEF RootsOf
    <3> QED BY <3>1, <1>0, <1>2 DEF IInv, RotationTypeOK, DelegationsVouched
  <2>7. ASSUME NEW j \in Rotators PROVE Underway(j)'
    <3>1. CASE j # k BY <3>1, <2>1, <2>3, Waits DEF IInv
    <3>2. CASE j = k BY <3>2, <2>3 DEF Underway
    <3> QED BY <3>1, <3>2
  <2> QED BY <2>4, <2>5, <2>6, <2>7 DEF IInv
<1> QED BY <1>1, <1>2 DEF CreateDelegation

LEMMA StepKeeps ==
  ASSUME IInv, NEW k \in Rotators, RotationStep(k) \/ FinishRotation(k) PROVE IInv'
BY RotateAegisKeeps, RotateExternalKeeps, ReadChainKeeps, PrepareKeeps,
   AppendRotationKeeps, ResignKeeps, DelegateStartKeeps, CreateDelegationKeeps,
   FinishRotationKeeps DEF RotationStep

(* A step that leaves keys and rotations alone, a failed call elsewhere    *)
(* included.                                                               *)
LEMMA StutterKeeps ==
  ASSUME IInv, UNCHANGED <<identity, rots>>, faults' \in 0..MaxFaults PROVE IInv'
<1>1. RotationTypeOK' BY DEF identity, IInv, RotationTypeOK
<1>2. (ChainVerifies /\ SeedIsHead /\ DelegationsVouched)'
  BY DEF identity, IInv, ChainVerifies, Verifies, SeedIsHead, CurrentRoot, RootOf, Rows,
         DelegationsVouched, RootsOf
<1>3. ASSUME NEW j \in Rotators PROVE Underway(j)' BY Waits DEF IInv, identity
<1> QED BY <1>1, <1>2, <1>3 DEF IInv

LEMMA RotationInductive == RotationSpec => []IInv
<1>1. RotationInit => IInv BY InitKept
<1>2. IInv /\ [RotationNext]_rotationVars => IInv'
  <2> SUFFICES ASSUME IInv, [RotationNext]_rotationVars PROVE IInv' OBVIOUS
  <2>1. CASE RotationNext BY <2>1, StepKeeps DEF RotationNext
  <2>2. CASE UNCHANGED rotationVars
    BY <2>2, StutterKeeps DEF rotationVars, IInv, RotationTypeOK
  <2> QED BY <2>1, <2>2
<1> QED BY <1>1, <1>2, PTL DEF RotationSpec

(* The chain never gaps, forks or carries a statement its predecessor did  *)
(* not sign, however rotations overlap (rotation.service.ts, rotateAegis   *)
(* and rotateExternal).                                                    *)
THEOREM ChainSafe == RotationSpec => []ChainVerifies
<1>1. IInv => ChainVerifies BY DEF IInv
<1> QED BY <1>1, RotationInductive, PTL

(* The wrapped seed is that of the head of the chain: the loser of a race  *)
(* does not wrap its own (idp-rotation.repository.ts, appendRotation).     *)
THEOREM SeedSafe == RotationSpec => []SeedIsHead
<1>1. IInv => SeedIsHead BY DEF IInv
<1> QED BY <1>1, RotationInductive, PTL

(* No delegation is signed by a key that did not enter the chain           *)
(* (rotation.service.ts, finishRotation; platform.service.ts).             *)
THEOREM DelegationsSafe == RotationSpec => []DelegationsVouched
<1>1. IInv => DelegationsVouched BY DEF IInv
<1> QED BY <1>1, RotationInductive, PTL

-----------------------------------------------------------------------------

(* A non-empty set of copies has one of the oldest job.                    *)
LEMMA Oldest ==
  ASSUME NEW S \in SUBSET Copy, S # {}
  PROVE  \E c \in S : \A d \in S : c.job <= d.job
<1> DEFINE T == {c.job : c \in S}
           less == {p \in Nat \X Nat : p[1] < p[2]}
<1>1. T \subseteq Nat /\ T # {}
  BY OutboxBounds DEF Copy
<1>2. PICK x \in T : \A y \in T : <<y, x>> \notin less
  <2> HIDE DEF T, less
  <2>1. IsWellFoundedOn(less, Nat)
    BY NatLessThanWellFounded, Zenon DEF less, OpToRel
  <2> QED
    BY <1>1, <2>1, WFMin
<1>3. \A y \in Nat : y < x => <<y, x>> \in less
  BY <1>1
<1>4. ASSUME NEW y \in T PROVE x <= y
  <2>1. y \in Nat /\ x \in Nat
    BY <1>1
  <2>2. ~(y < x)
    <3> HIDE DEF T, less
    <3> QED
      BY <2>1, <1>2, <1>3
  <2> QED
    BY <2>1, <2>2
<1> QED
  BY <1>2, <1>4 DEF T

-----------------------------------------------------------------------------
(* A handler at one of these stages has a job in hand.                     *)
Holding == {"write", "post", "complete", "synced", "fail", "error"}

(* What a task t knows: the jobs it has read are there; what a registry    *)
(* took is accepted, and if it was an update, the registry shows a record. *)
Chosen(batch) == CHOOSE c \in batch : \A d \in batch : c.job <= d.job

Knows(t, js, taken, sh) ==
  LET j == Chosen(t.batch).job
  IN /\ \A c \in t.batch : c.job \in DOMAIN js
     /\ t.stage \in Holding => t.batch # {}
     /\ t.stage = "complete" =>
          /\ j \in taken
          /\ js[j].action = "update" => sh[js[j].url] # None
     /\ t.stage = "synced" => sh[js[j].url] # None
     /\ t.stage \in {"status", "insert", "enqueue", "drop"} => t.url \in Urls
     /\ t.stage \in {"each", "status", "active", "clear"} => t.urls \subseteq Urls

Told ==
  /\ \A j \in DOMAIN jobs : jobs[j].status = "completed" => j \in accepted
  /\ \A u \in Urls : regs[u] = "synced" => shown[u] # None

OutInv ==
  /\ IInv /\ TypeOK /\ Told
  /\ \A k \in Workers \cup Rotators : tasks[k] # None => Knows(tasks[k], jobs, accepted, shown)

LEMMA JobType ==
  ASSUME TypeOK
  PROVE  /\ DOMAIN jobs = 1..Len(jobs) /\ Len(jobs) \in Nat
         /\ \A j \in DOMAIN jobs : jobs[j] \in Job
  BY DEF TypeOK

LEMMA InHandIsRead ==
  ASSUME OutInv, NEW k \in Workers \cup Rotators, tasks[k] # None, tasks[k].batch # {}
  PROVE  /\ InHand(k) \in tasks[k].batch /\ InHand(k) \in Copy
         /\ InHand(k).job \in DOMAIN jobs /\ InHand(k) = Chosen(tasks[k].batch)
<1>1. tasks[k] \in Task
  BY DEF OutInv, TypeOK
<1>2. tasks[k].batch \in SUBSET Copy
  BY <1>1 DEF Task
<1>3. \E c \in tasks[k].batch : \A d \in tasks[k].batch : c.job <= d.job
  BY <1>2, Oldest
<1>4. InHand(k) = Chosen(tasks[k].batch)
  BY DEF InHand, Chosen
<1>5. Chosen(tasks[k].batch) \in tasks[k].batch
  BY <1>3 DEF Chosen
<1> QED
  BY <1>2, <1>4, <1>5 DEF OutInv, Knows

(* Jobs are added and change their state, but not what they are about; and *)
(* what a registry has seen it does not forget.                            *)
Grows ==
  /\ \A j \in DOMAIN jobs : /\ j \in DOMAIN jobs'
                            /\ jobs'[j].url = jobs[j].url /\ jobs'[j].action = jobs[j].action
  /\ accepted \subseteq accepted'
  /\ \A u \in Urls : shown[u] # None => shown'[u] # None

LEMMA KnowsStill ==
  ASSUME OutInv, Grows, NEW t \in Task, Knows(t, jobs, accepted, shown)
  PROVE  Knows(t, jobs', accepted', shown')
<1> DEFINE c == Chosen(t.batch)
<1>1. t.stage \in Holding => c \in t.batch
  <2>1. ASSUME t.batch # {} PROVE c \in t.batch
    <3>1. t.batch \in SUBSET Copy
      BY DEF Task
    <3>2. \E d \in t.batch : \A e \in t.batch : d.job <= e.job
      BY <2>1, <3>1, Oldest
    <3> QED
      BY <3>2 DEF Chosen
  <2> QED
    BY <2>1 DEF Knows
<1>2. t.stage \in Holding => c.job \in DOMAIN jobs /\ jobs[c.job].url \in Urls
  <2>1. \A j \in DOMAIN jobs : jobs[j].url \in Urls
    BY JobType DEF OutInv, Job
  <2> QED
    BY <1>1, <2>1 DEF Knows
<1> HIDE DEF c
<1> QED
  BY <1>2 DEF Knows, Grows, Holding, c

(* One handler moves.                                                      *)
LEMMA TaskStep ==
  ASSUME OutInv, IInv', TypeOK', Told', Grows,
         NEW k \in Workers \cup Rotators, NEW t, t = None \/ (t \in Task /\ Knows(t, jobs', accepted', shown')),
         tasks' = [tasks EXCEPT ![k] = t]
  PROVE  OutInv'
<1>1. ASSUME NEW j \in Workers \cup Rotators, tasks'[j] # None PROVE Knows(tasks'[j], jobs', accepted', shown')
  <2>1. CASE j = k
    BY <1>1, <2>1 DEF OutInv, TypeOK
  <2>2. CASE j # k
    <3>1. tasks[j] \in Task /\ Knows(tasks[j], jobs, accepted, shown) /\ tasks'[j] = tasks[j]
      BY <1>1, <2>2 DEF OutInv, TypeOK
    <3> QED
      BY <3>1, KnowsStill
  <2> QED
    BY <2>1, <2>2
<1> QED
  BY <1>1 DEF OutInv

LEMMA OutInit == Init => OutInv
<1> SUFFICES ASSUME Init PROVE OutInv
  OBVIOUS
<1>1. IInv /\ RotationTypeOK
  BY InitKept DEF Init, IInv
<1>2. jobs = <<>> /\ jobs \in Seq(Job) /\ Len(jobs) = 0
  BY DEF Init
<1>3. DOMAIN jobs = {}
  BY <1>2
<1>4. TypeOK
  <2>1. Len(jobs) <= MaxJobs /\ 0 \in 0..MaxRequests /\ accepted \subseteq 1..Len(jobs)
    BY <1>2, OutboxBounds DEF Init
  <2>2. /\ regs \in [Urls -> {None, "pending", "synced", "error"}]
        /\ shown \in [Urls -> Roots \cup {None}] /\ gone \subseteq Urls
        /\ tasks \in [Workers \cup Rotators -> Task \cup {None}]
        /\ requests \in 0..MaxRequests /\ crossed \in BOOLEAN
    BY <2>1 DEF Init
  <2> QED
    BY <1>1, <1>2, <2>1, <2>2 DEF TypeOK
<1>5. Told
  BY <1>3, OutboxNone DEF Told, Init
<1>6. \A k \in Workers \cup Rotators : tasks[k] = None
  BY DEF Init
<1> QED
  BY <1>1, <1>4, <1>5, <1>6 DEF OutInv

-----------------------------------------------------------------------------
Slots == Workers \cup Rotators

(* What becomes of the handler that moves.                                 *)
Fits(t) == t = None \/ (t \in Task /\ Knows(t, jobs', accepted', shown'))
Becomes(k, t) == tasks' = [tasks EXCEPT ![k] = t] /\ Fits(t)

LEMMA FaultType == ASSUME IInv, Fault PROVE faults' \in 0..MaxFaults
  BY RotationBounds DEF Fault, IInv, RotationTypeOK

(* A step of one handler, by what it does to the outbox.                   *)
LEMMA HandlerStep ==
  ASSUME OutInv, UNCHANGED <<identity, rots>>, faults' \in 0..MaxFaults,
         regs' \in [Urls -> {None, "pending", "synced", "error"}],
         jobs' \in Seq(Job), Len(jobs') <= MaxJobs, Grows,
         shown' \in [Urls -> Roots \cup {None}], gone' \subseteq Urls,
         accepted' \subseteq 1..Len(jobs'),
         UNCHANGED requests, crossed' \in BOOLEAN, Told',
         NEW k \in Slots, NEW t, Becomes(k, t)
  PROVE  OutInv'
<1>1. IInv'
  BY StutterKeeps DEF OutInv
<1>2. tasks' \in [Slots -> Task \cup {None}]
  BY DEF OutInv, TypeOK, Slots, Becomes, Fits
<1>3. TypeOK'
  BY <1>1, <1>2 DEF OutInv, TypeOK, IInv, Slots
<1> QED
  BY <1>1, <1>3, TaskStep DEF Slots, Becomes, Fits

(* Nothing happens to the outbox.                                          *)
LEMMA ReadStep ==
  ASSUME OutInv, UNCHANGED <<identity, rots>>, faults' \in 0..MaxFaults,
         UNCHANGED outbox, UNCHANGED requests, crossed' \in BOOLEAN,
         NEW k \in Slots, NEW t, Becomes(k, t)
  PROVE  OutInv'
<1>1. UNCHANGED <<regs, jobs, shown, gone, accepted>>
  BY DEF outbox
<1>2. Grows /\ Told'
  BY <1>1 DEF Grows, Told, OutInv
<1> QED
  BY <1>1, <1>2, HandlerStep DEF OutInv, TypeOK

(* The jobs change: none is lost or completed without being accepted.      *)
LEMMA JobsStep ==
  ASSUME OutInv, UNCHANGED <<identity, rots>>, faults' \in 0..MaxFaults,
         UNCHANGED <<regs, shown, gone, accepted, requests>>, crossed' \in BOOLEAN,
         jobs' \in Seq(Job), Len(jobs') <= MaxJobs, Len(jobs) <= Len(jobs'),
         \A j \in DOMAIN jobs : jobs'[j].url = jobs[j].url /\ jobs'[j].action = jobs[j].action,
         \A j \in DOMAIN jobs' : jobs'[j].status = "completed" => j \in accepted,
         NEW k \in Slots, NEW t, Becomes(k, t)
  PROVE  OutInv'
<1>1. DOMAIN jobs \subseteq DOMAIN jobs'
  OBVIOUS
<1>2. Grows /\ Told'
  BY <1>1 DEF Grows, Told, OutInv
<1>3. accepted' \subseteq 1..Len(jobs')
  BY DEF OutInv, TypeOK
<1> QED
  BY <1>2, <1>3, HandlerStep DEF OutInv, TypeOK

(* A registry changes its standing.                                        *)
LEMMA RegsStep ==
  ASSUME OutInv, UNCHANGED <<identity, rots>>, faults' \in 0..MaxFaults,
         UNCHANGED <<jobs, shown, gone, accepted, requests>>, crossed' \in BOOLEAN,
         NEW u \in Urls, NEW status \in {None, "pending", "synced", "error"},
         regs' = [regs EXCEPT ![u] = status], status = "synced" => shown[u] # None,
         NEW k \in Slots, NEW t, Becomes(k, t)
  PROVE  OutInv'
<1>1. regs' \in [Urls -> {None, "pending", "synced", "error"}]
  BY DEF OutInv, TypeOK
<1>2. Grows /\ Told'
  BY DEF Grows, Told, OutInv, TypeOK
<1> QED
  BY <1>1, <1>2, HandlerStep DEF OutInv, TypeOK

LEMMA DoneFits == ASSUME NEW k \in Slots, Done(k) PROVE Becomes(k, None)
  BY DEF Done, Becomes, Fits

(* A handler at stage s of the same task.                                  *)
LEMMA GotoFits ==
  ASSUME OutInv, NEW k \in Slots, tasks[k] # None, NEW stage \in Stages, Goto(k, stage),
         Grows,
         LET t == tasks[k]
             j == Chosen(t.batch).job
         IN /\ stage \in Holding => t.batch # {}
            /\ stage = "complete" => /\ j \in accepted'
                                     /\ jobs'[j].action = "update" => shown'[jobs'[j].url] # None
            /\ stage = "synced" => shown'[jobs'[j].url] # None
            /\ stage \in {"status", "insert", "enqueue", "drop"} => t.url \in Urls
            /\ stage \in {"each", "status", "active", "clear"} => t.urls \subseteq Urls
  PROVE  Becomes(k, [tasks[k] EXCEPT !.stage = stage])
<1> DEFINE t == tasks[k]
           n == [t EXCEPT !.stage = stage]
<1>1. t \in Task /\ Knows(t, jobs, accepted, shown)
  BY DEF OutInv, TypeOK, Slots
<1>2. n \in Task /\ n.stage = stage /\ n.batch = t.batch /\ n.url = t.url /\ n.urls = t.urls
      /\ n.kind = t.kind /\ n.root = t.root
  BY <1>1 DEF Task
<1>3. \A c \in t.batch : c.job \in DOMAIN jobs'
  BY <1>1 DEF Knows, Grows
<1> HIDE DEF n
<1>4. Knows(n, jobs', accepted', shown')
  BY <1>1, <1>2, <1>3 DEF Knows
<1> QED
  BY <1>2, <1>4 DEF Becomes, Fits, Goto, n

LEMMA StillGrows == ASSUME UNCHANGED outbox PROVE Grows
  BY DEF Grows, outbox

LEMMA SnapshotType ==
  ASSUME TypeOK, NEW js \in SUBSET DOMAIN jobs
  PROVE  Snapshot(js) \in SUBSET Copy /\ \A c \in Snapshot(js) : c.job \in DOMAIN jobs
<1>1. \A j \in js : jobs[j] \in Job /\ j \in 1..MaxJobs
  BY JobType, OutboxBounds DEF TypeOK
<1> QED
  BY <1>1 DEF Snapshot, Copy, Job

-----------------------------------------------------------------------------
(* Requests of the user start.                                             *)
LEMMA BlankType ==
  ASSUME NEW kind \in Kinds, NEW stage \in Stages
  PROVE  LET b == Blank(kind, stage)
         IN b \in Task /\ b.kind = kind /\ b.stage = stage /\ b.batch = {}
<1>1. Genesis \in Roots
  BY RotationBounds DEF Genesis, Roots
<1> QED
  BY <1>1 DEF Blank, Task

LEMMA StartStep ==
  ASSUME OutInv, NEW k \in Slots, NEW task \in Task, Start(k, task),
         UNCHANGED <<rotationVars, outbox>>, requests' \in 0..MaxRequests,
         Knows(task, jobs, accepted, shown)
  PROVE  OutInv'
<1>1. UNCHANGED <<identity, rots, faults>> /\ UNCHANGED <<regs, jobs, shown, gone, accepted>>
  BY DEF rotationVars, outbox
<1>2. IInv' /\ faults' \in 0..MaxFaults
  BY <1>1, StutterKeeps DEF OutInv, IInv, RotationTypeOK
<1>3. crossed' \in BOOLEAN
  <2> DEFINE late == \E r \in Rotators : Unannounced(r)
  <2>1. late \in BOOLEAN
    OBVIOUS
  <2>2. crossed' = (crossed \/ late) /\ crossed \in BOOLEAN
    BY DEF Start, OutInv, TypeOK
  <2> HIDE DEF late
  <2> QED
    BY <2>1, <2>2
<1>4. tasks' = [tasks EXCEPT ![k] = task]
  BY DEF Start
<1>5. tasks' \in [Slots -> Task \cup {None}]
  BY <1>4 DEF OutInv, TypeOK, Slots
<1>6. TypeOK'
  BY <1>1, <1>2, <1>3, <1>5 DEF OutInv, TypeOK, IInv, Slots
<1>7. Grows /\ Told'
  BY <1>1 DEF Grows, Told, OutInv
<1>8. Knows(task, jobs', accepted', shown')
  BY <1>1
<1> QED
  BY <1>2, <1>4, <1>6, <1>7, <1>8, TaskStep DEF Slots

LEMMA AskStep ==
  ASSUME OutInv, NEW k \in Requests, Ask(k)
  PROVE  OutInv'
<1>1. k \in Slots
  BY DEF Slots, Workers
<1>2. ASSUME NEW t \in Task, Request(k, t), Knows(t, jobs, accepted, shown)
      PROVE  OutInv'
  <2>1. Start(k, t) /\ UNCHANGED <<rotationVars, outbox>> /\ requests' \in 0..MaxRequests
    BY <1>2, OutboxBounds DEF Request, OutInv, TypeOK
  <2> QED
    BY <1>1, <1>2, <2>1, StartStep
<1>3. ASSUME NEW u \in Urls, NEW kind \in Kinds, NEW stage \in {"insert", "enqueue"},
             Request(k, [Blank(kind, stage) EXCEPT !.url = u])
      PROVE  OutInv'
  <2> DEFINE b == Blank(kind, stage)
             t == [b EXCEPT !.url = u]
  <2>1. b \in Task /\ b.stage = stage /\ b.batch = {}
    BY BlankType DEF Stages
  <2>2. Request(k, t)
    BY <1>3
  <2> HIDE DEF b
  <2>3. t \in Task /\ t.stage = stage /\ t.batch = {} /\ t.url = u
    BY <2>1 DEF Task
  <2> HIDE DEF t
  <2>4. Knows(t, jobs, accepted, shown)
    BY <2>3 DEF Knows, Holding
  <2> QED
    BY <1>2, <2>2, <2>3, <2>4
<1>4. CASE StartSync(k)
  <2> DEFINE b == Blank("sync", "active")
             t == [b EXCEPT !.root = seed]
  <2>1. b \in Task /\ b.stage = "active" /\ b.batch = {} /\ b.urls = {}
    BY BlankType DEF Stages, Kinds, Blank
  <2>2. Request(k, t) /\ seed \in Roots \cup {None}
    BY <1>4 DEF StartSync, OutInv, IInv, RotationTypeOK
  <2> HIDE DEF b
  <2>3. t \in Task /\ t.stage = "active" /\ t.batch = {} /\ t.urls = {}
    BY <2>1, <2>2 DEF Task
  <2> HIDE DEF t
  <2>4. Knows(t, jobs, accepted, shown)
    BY <2>3 DEF Knows, Holding
  <2> QED
    BY <1>2, <2>2, <2>3, <2>4
<1>5. ASSUME NEW j \in DOMAIN jobs, NEW kind \in {"retry", "cancel"},
             Request(k, [Blank(kind, "write") EXCEPT !.batch = Snapshot({j})])
      PROVE  OutInv'
  <2> DEFINE b == Blank(kind, "write")
             t == [b EXCEPT !.batch = Snapshot({j})]
  <2>1. b \in Task /\ b.stage = "write"
    BY BlankType DEF Stages, Kinds
  <2>2. Request(k, t)
    BY <1>5
  <2>3. Snapshot({j}) \in SUBSET Copy /\ \A c \in Snapshot({j}) : c.job \in DOMAIN jobs
    BY SnapshotType DEF OutInv
  <2>4. Snapshot({j}) # {}
    BY DEF Snapshot
  <2> HIDE DEF b
  <2>5. t \in Task /\ t.stage = "write" /\ t.batch = Snapshot({j})
    BY <2>1, <2>3 DEF Task
  <2> HIDE DEF t
  <2>6. Knows(t, jobs, accepted, shown)
    BY <2>3, <2>4, <2>5 DEF Knows, Holding
  <2> QED
    BY <1>2, <2>2, <2>5, <2>6
<1>6. ASSUME NEW u \in Urls, StartAdd(k, u) \/ StartRemove(k, u) PROVE OutInv'
  BY <1>3, <1>6 DEF StartAdd, StartRemove, Kinds
<1>7. ASSUME NEW j \in DOMAIN jobs, StartRetry(k, j) \/ StartCancel(k, j) PROVE OutInv'
  BY <1>5, <1>7 DEF StartRetry, StartCancel
<1> QED
  BY <1>4, <1>6, <1>7 DEF Ask

LEMMA DeliverStep ==
  ASSUME OutInv, StartDeliver
  PROVE  OutInv'
<1> DEFINE due == {j \in DOMAIN jobs : Deliverable(j)}
           t == [Blank("deliver", "next") EXCEPT !.batch = Snapshot(due)]
<1>1. Snapshot(due) \in SUBSET Copy /\ \A c \in Snapshot(due) : c.job \in DOMAIN jobs
  BY SnapshotType DEF OutInv
<1>2. Start(Poller, t) /\ UNCHANGED <<rotationVars, outbox, requests>>
  BY DEF StartDeliver
<1> HIDE DEF due
<1>3. t \in Task /\ t.stage = "next" /\ t.batch = Snapshot(due)
  BY <1>1, RotationBounds DEF Blank, Task, Genesis, Roots, Kinds, Stages
<1> HIDE DEF t
<1>4. Knows(t, jobs, accepted, shown)
  BY <1>1, <1>3 DEF Knows, Holding
<1>5. Poller \in Slots /\ requests' \in 0..MaxRequests
  BY <1>2 DEF Slots, Workers, OutInv, TypeOK
<1> QED
  BY <1>2, <1>3, <1>4, <1>5, StartStep

-----------------------------------------------------------------------------
(* The handlers, one lemma for those that touch the same variables.        *)
LEMMA TaskType ==
  ASSUME OutInv, NEW k \in Slots, tasks[k] # None
  PROVE  tasks[k] \in Task /\ Knows(tasks[k], jobs, accepted, shown)
  BY DEF OutInv, TypeOK, Slots

LEMMA NoFault == ASSUME OutInv PROVE UNCHANGED faults => faults' \in 0..MaxFaults
  BY DEF OutInv, IInv, RotationTypeOK

LEMMA ThrowStep ==
  ASSUME OutInv, NEW k \in Slots, Throw(k)
  PROVE  OutInv'
<1>1. UNCHANGED <<identity, rots, outbox, requests, crossed>> /\ Done(k) /\ Fault
  BY DEF Throw
<1>2. faults' \in 0..MaxFaults /\ crossed' \in BOOLEAN
  BY <1>1, FaultType DEF OutInv, TypeOK
<1> QED
  BY <1>1, <1>2, DoneFits, ReadStep

LEMMA RegistryStep ==
  ASSUME OutInv, NEW k \in Slots, InsertRegistry(k) \/ DropRegistry(k)
  PROVE  OutInv'
<1> DEFINE u == tasks[k].url
<1>1. tasks[k] # None /\ u \in Urls
  BY TaskType DEF InsertRegistry, DropRegistry, At, Knows
<1>2. UNCHANGED <<identity, rots, faults, jobs, shown, gone, accepted, requests, crossed>>
  BY DEF InsertRegistry, DropRegistry, rotationVars
<1>3. faults' \in 0..MaxFaults /\ crossed' \in BOOLEAN
  BY <1>2, NoFault DEF OutInv, TypeOK
<1>4. CASE Done(k) /\ UNCHANGED regs
  BY <1>2, <1>3, <1>4, DoneFits, ReadStep DEF outbox
<1>5. CASE Done(k) /\ regs' = [regs EXCEPT ![u] = None]
  BY <1>1, <1>2, <1>3, <1>5, DoneFits, RegsStep, OutboxNone
<1>6. CASE Goto(k, "enqueue") /\ regs' = [regs EXCEPT ![u] = "pending"]
  <2>1. Grows
    BY <1>2 DEF Grows
  <2>2. Becomes(k, [tasks[k] EXCEPT !.stage = "enqueue"])
    BY <1>1, <1>6, <2>1, GotoFits DEF Stages, Holding
  <2> QED
    BY <1>1, <1>2, <1>3, <1>6, <2>2, RegsStep
<1> QED
  BY <1>4, <1>5, <1>6 DEF InsertRegistry, DropRegistry

(* A job is added.                                                         *)
LEMMA EnqueueType ==
  ASSUME OutInv, NEW u \in Urls, NEW action \in {"update", "delete"}, Enqueue(action, u)
  PROVE  /\ jobs' \in Seq(Job) /\ Len(jobs') <= MaxJobs /\ Len(jobs) <= Len(jobs')
         /\ \A j \in DOMAIN jobs : jobs'[j].url = jobs[j].url /\ jobs'[j].action = jobs[j].action
         /\ \A j \in DOMAIN jobs' : jobs'[j].status = "completed" => j \in accepted
         /\ DOMAIN jobs \subseteq DOMAIN jobs'
<1> DEFINE new == [action |-> action, url |-> u, status |-> "pending", attempts |-> 0, sig |-> None]
<1>1. new \in Job
  BY OutboxBounds DEF Job
<1>2. new.status = "pending"
  OBVIOUS
<1>3. jobs' = Append(jobs, new) /\ Len(jobs) < MaxJobs
  BY DEF Enqueue
<1> HIDE DEF new
<1>4. jobs \in Seq(Job) /\ Len(jobs) \in Nat
  BY JobType DEF OutInv, TypeOK
<1>5. /\ jobs' \in Seq(Job) /\ Len(jobs') = Len(jobs) + 1 /\ jobs'[Len(jobs) + 1] = new
      /\ \A j \in 1..Len(jobs) : jobs'[j] = jobs[j]
  BY <1>1, <1>3, <1>4
<1>6. DOMAIN jobs = 1..Len(jobs) /\ DOMAIN jobs' = 1..(Len(jobs) + 1)
  BY <1>4, <1>5
<1>7. \A j \in DOMAIN jobs' : jobs'[j].status = "completed" => j \in accepted
  BY <1>2, <1>4, <1>5, <1>6 DEF OutInv, Told
<1> QED
  BY <1>3, <1>4, <1>5, <1>6, <1>7, OutboxBounds

LEMMA EnqueueStep ==
  ASSUME OutInv, NEW k \in Slots, EnqueueAsked(k)
  PROVE  OutInv'
<1> DEFINE u == tasks[k].url
<1>1. tasks[k] # None /\ u \in Urls
  BY TaskType DEF EnqueueAsked, At, Knows
<1>2. UNCHANGED <<identity, rots, faults, regs, shown, gone, accepted, requests, crossed>>
  BY DEF EnqueueAsked, rotationVars
<1>3. faults' \in 0..MaxFaults /\ crossed' \in BOOLEAN
  BY <1>2, NoFault DEF OutInv, TypeOK
<1>4. PICK action \in {"update", "delete"} : Enqueue(action, u)
  BY DEF EnqueueAsked
<1>5. /\ jobs' \in Seq(Job) /\ Len(jobs') <= MaxJobs /\ Len(jobs) <= Len(jobs')
      /\ \A j \in DOMAIN jobs : jobs'[j].url = jobs[j].url /\ jobs'[j].action = jobs[j].action
      /\ \A j \in DOMAIN jobs' : jobs'[j].status = "completed" => j \in accepted
      /\ DOMAIN jobs \subseteq DOMAIN jobs'
  BY <1>1, <1>4, EnqueueType
<1>6. \E t : Becomes(k, t)
  <2>1. CASE Done(k)
    BY <2>1, DoneFits
  <2>2. CASE Goto(k, "drop")
    <3>1. Grows
      BY <1>2, <1>5 DEF Grows
    <3> QED
      BY <1>1, <2>2, <3>1, GotoFits DEF Stages, Holding
  <2> QED
    BY <2>1, <2>2 DEF EnqueueAsked
<1> QED
  BY <1>2, <1>3, <1>5, <1>6, JobsStep

(* A job changes in place.                                                 *)
LEMMA JobChanges ==
  ASSUME OutInv, NEW j \in DOMAIN jobs, NEW new \in Job, jobs' = [jobs EXCEPT ![j] = new],
         new.url = jobs[j].url, new.action = jobs[j].action,
         new.status = "completed" => j \in accepted
  PROVE  /\ jobs' \in Seq(Job) /\ Len(jobs') <= MaxJobs /\ Len(jobs) <= Len(jobs')
         /\ \A i \in DOMAIN jobs : jobs'[i].url = jobs[i].url /\ jobs'[i].action = jobs[i].action
         /\ \A i \in DOMAIN jobs' : jobs'[i].status = "completed" => i \in accepted
         /\ DOMAIN jobs' = DOMAIN jobs
<1>1. jobs \in Seq(Job) /\ Len(jobs) \in Nat /\ DOMAIN jobs = 1..Len(jobs)
  BY JobType DEF OutInv, TypeOK
<1>2. jobs' \in Seq(Job) /\ Len(jobs') = Len(jobs)
  BY <1>1
<1> QED
  BY <1>1, <1>2 DEF OutInv, TypeOK, Told

LEMMA StatusStep ==
  ASSUME OutInv, NEW k \in Slots, WriteStatus(k)
  PROVE  OutInv'
<1> DEFINE j == InHand(k).job
           status == IF tasks[k].kind = "retry" THEN "pending" ELSE "cancelled"
           new == [jobs[j] EXCEPT !.status = status]
<1>1. tasks[k] # None /\ tasks[k].batch # {}
  BY TaskType DEF WriteStatus, At, Knows, Holding
<1>2. j \in DOMAIN jobs
  BY <1>1, InHandIsRead DEF Slots
<1>3. jobs' = [jobs EXCEPT ![j] = new] /\ Done(k)
      /\ UNCHANGED <<identity, rots, faults, regs, shown, gone, accepted, requests, crossed>>
  BY DEF WriteStatus, rotationVars
<1>4. status \in {"pending", "cancelled"} /\ jobs[j] \in Job
  BY <1>2, JobType DEF OutInv
<1> HIDE DEF j, status
<1>5. new \in Job /\ new.url = jobs[j].url /\ new.action = jobs[j].action
      /\ new.status # "completed"
  BY <1>4 DEF Job
<1>6. faults' \in 0..MaxFaults /\ crossed' \in BOOLEAN
  BY <1>3, NoFault DEF OutInv, TypeOK
<1> HIDE DEF new
<1> QED
  BY <1>2, <1>3, <1>5, <1>6, JobChanges, JobsStep, DoneFits

LEMMA BatchFits ==
  ASSUME OutInv, NEW k \in Slots, tasks[k] # None, Grows,
         NEW stage \in Stages \ Holding,
         stage \notin {"status", "insert", "enqueue", "drop", "each", "active", "clear"},
         NEW batch \in SUBSET Copy, \A c \in batch : c.job \in DOMAIN jobs',
         tasks' = [tasks EXCEPT ![k] = [tasks[k] EXCEPT !.stage = stage, !.batch = batch]]
  PROVE  \E t : Becomes(k, t)
<1> DEFINE n == [tasks[k] EXCEPT !.stage = stage, !.batch = batch]
<1>1. n \in Task /\ n.stage = stage /\ n.batch = batch
  BY TaskType DEF Task
<1> HIDE DEF n
<1>2. Knows(n, jobs', accepted', shown')
  BY <1>1 DEF Knows, Holding
<1> QED
  BY <1>1, <1>2 DEF Becomes, Fits, n

LEMMA NextFits ==
  ASSUME OutInv, NEW k \in Slots, tasks[k] # None, Grows, NextJob(k)
  PROVE  \E t : Becomes(k, t)
<1> DEFINE rest == tasks[k].batch \ {InHand(k)}
           n == [tasks[k] EXCEPT !.stage = "next", !.batch = rest]
<1>1. tasks[k] \in Task /\ Knows(tasks[k], jobs, accepted, shown)
  BY TaskType
<1>2. rest \in SUBSET Copy /\ \A c \in rest : c.job \in DOMAIN jobs'
  BY <1>1 DEF Task, Knows, Grows
<1>3. tasks' = [tasks EXCEPT ![k] = n]
  BY <1>1 DEF NextJob, OutInv, TypeOK, Task
<1> QED
  BY <1>2, <1>3, BatchFits DEF Stages, Holding

LEMMA SignStep ==
  ASSUME OutInv, NEW k \in Slots, SignAgain(k) \/ SaveSignature(k)
  PROVE  OutInv'
<1> DEFINE j == InHand(k).job
           new == [jobs[j] EXCEPT !.sig = tasks[k].root]
<1>1. tasks[k] # None /\ tasks[k].stage \in {"sign", "next"}
  BY DEF SignAgain, SaveSignature, At
<1>2. tasks[k] \in Task /\ Knows(tasks[k], jobs, accepted, shown)
  BY <1>1, TaskType
<1>3. UNCHANGED <<identity, rots, regs, shown, gone, accepted, requests, crossed>> /\ crossed' \in BOOLEAN
  BY DEF SignAgain, SaveSignature, rotationVars, OutInv, TypeOK
<1>4. faults' \in 0..MaxFaults
  BY NoFault, FaultType DEF SignAgain, SaveSignature, rotationVars, OutInv
<1>5. CASE Done(k) /\ UNCHANGED jobs
  BY <1>3, <1>4, <1>5, DoneFits, ReadStep DEF outbox
<1>6. CASE tasks[k].batch # {}
  <2>1. InHand(k) \in tasks[k].batch /\ InHand(k) \in Copy /\ j \in DOMAIN jobs
    BY <1>1, <1>6, InHandIsRead DEF Slots
  <2>2. new \in Job /\ new.url = jobs[j].url /\ new.action = jobs[j].action
        /\ new.status = jobs[j].status
    BY <1>2, <2>1, JobType DEF OutInv, Job, Task
  <2>3. new.status = "completed" => j \in accepted
    BY <2>1, <2>2 DEF OutInv, Told
  <2>4. UNCHANGED jobs \/ jobs' = [jobs EXCEPT ![j] = new]
    BY <1>6 DEF SignAgain, SaveSignature
  <2>5. /\ jobs' \in Seq(Job) /\ Len(jobs') <= MaxJobs /\ Len(jobs) <= Len(jobs')
        /\ \A i \in DOMAIN jobs : jobs'[i].url = jobs[i].url /\ jobs'[i].action = jobs[i].action
        /\ \A i \in DOMAIN jobs' : jobs'[i].status = "completed" => i \in accepted
        /\ DOMAIN jobs' = DOMAIN jobs
    <3>1. CASE UNCHANGED jobs
      BY <3>1, JobType DEF OutInv, TypeOK, Told
    <3>2. CASE jobs' = [jobs EXCEPT ![j] = new]
      <4> HIDE DEF j, new
      <4> QED
        BY <3>2, <2>1, <2>2, <2>3, JobChanges
    <3> QED
      BY <2>4, <3>1, <3>2
  <2>6. Grows
    BY <1>3, <2>5 DEF Grows
  <2>7. \E t : Becomes(k, t)
    <3> DEFINE signed == [InHand(k) EXCEPT !.sig = tasks[k].root]
    <3>1. signed \in Copy /\ signed.job = j
      BY <1>2, <2>1 DEF Copy, Task
    <3>2. PICK batch \in {tasks[k].batch \ {InHand(k)},
                          (tasks[k].batch \ {InHand(k)}) \cup {signed}} :
            tasks' = [tasks EXCEPT ![k].batch = batch]
      BY <1>6 DEF SignAgain, SaveSignature
    <3> HIDE DEF signed, j
    <3>3. batch \in SUBSET Copy /\ \A c \in batch : c.job \in DOMAIN jobs'
      BY <1>2, <2>1, <2>5, <3>1 DEF Task, Knows
    <3>4. [tasks[k] EXCEPT !.batch = batch]
            = [tasks[k] EXCEPT !.stage = tasks[k].stage, !.batch = batch]
      BY <1>2 DEF Task
    <3>5. tasks' = [tasks EXCEPT ![k] = [tasks[k] EXCEPT !.stage = tasks[k].stage, !.batch = batch]]
      BY <3>2, <3>4
    <3> QED
      BY <1>1, <2>6, <3>3, <3>5, BatchFits DEF Stages, Holding
  <2> QED
    BY <1>3, <1>4, <2>5, <2>7, JobsStep
<1> QED
  BY <1>5, <1>6 DEF SignAgain, SaveSignature

LEMMA CompletedStep ==
  ASSUME OutInv, NEW k \in Slots, MarkCompleted(k)
  PROVE  OutInv'
<1> DEFINE j == InHand(k).job
           new == [jobs[j] EXCEPT !.status = "completed"]
<1>1. tasks[k] # None /\ tasks[k].stage = "complete" /\ tasks[k].batch # {}
  BY TaskType DEF MarkCompleted, At, Knows, Holding
<1>2. Knows(tasks[k], jobs, accepted, shown) /\ j \in DOMAIN jobs
      /\ InHand(k) = Chosen(tasks[k].batch)
  BY <1>1, TaskType, InHandIsRead DEF Slots
<1>3. j \in accepted /\ (Updates(k) => shown[jobs[j].url] # None)
  BY <1>1, <1>2 DEF Knows, Updates
<1>4. UNCHANGED <<identity, rots, regs, shown, gone, accepted, requests, crossed>> /\ crossed' \in BOOLEAN
  BY DEF MarkCompleted, OutInv, TypeOK
<1>5. faults' \in 0..MaxFaults
  BY NoFault, FaultType DEF MarkCompleted, OutInv
<1>6. CASE Goto(k, "fail") /\ UNCHANGED jobs
  <2>1. UNCHANGED outbox
    BY <1>4, <1>6 DEF outbox
  <2>2. Becomes(k, [tasks[k] EXCEPT !.stage = "fail"])
    BY <1>1, <1>6, <2>1, StillGrows, GotoFits DEF Stages, Holding
  <2> QED
    BY <1>4, <1>5, <2>1, <2>2, ReadStep
<1>7. CASE /\ jobs' = [jobs EXCEPT ![j] = new]
           /\ IF Updates(k) THEN Goto(k, "synced") ELSE NextJob(k)
  <2>1. new \in Job /\ new.url = jobs[j].url /\ new.action = jobs[j].action
    BY <1>2, JobType DEF OutInv, Job
  <2>2. /\ jobs' \in Seq(Job) /\ Len(jobs') <= MaxJobs /\ Len(jobs) <= Len(jobs')
        /\ \A i \in DOMAIN jobs : jobs'[i].url = jobs[i].url /\ jobs'[i].action = jobs[i].action
        /\ \A i \in DOMAIN jobs' : jobs'[i].status = "completed" => i \in accepted
        /\ DOMAIN jobs' = DOMAIN jobs
    <3> HIDE DEF j, new
    <3> QED
      BY <1>2, <1>3, <1>7, <2>1, JobChanges
  <2>3. Grows
    BY <1>4, <2>2 DEF Grows
  <2>4. \E t : Becomes(k, t)
    <3>1. CASE Updates(k)
      <4>1. Goto(k, "synced") /\ shown'[jobs'[Chosen(tasks[k].batch).job].url] # None
        BY <1>2, <1>3, <1>4, <1>7, <2>2, <3>1
      <4> QED
        BY <1>1, <2>3, <4>1, GotoFits DEF Stages, Holding
    <3>2. CASE ~Updates(k)
      BY <1>1, <1>7, <2>3, <3>2, NextFits
    <3> QED
      BY <3>1, <3>2
  <2> QED
    BY <1>4, <1>5, <2>2, <2>4, JobsStep
<1> QED
  BY <1>6, <1>7 DEF MarkCompleted

LEMMA FailedStep ==
  ASSUME OutInv, NEW k \in Slots, MarkFailed(k)
  PROVE  OutInv'
<1> DEFINE j == InHand(k).job
           tried == IF InHand(k).attempts < MaxAttempts THEN InHand(k).attempts + 1
                    ELSE MaxAttempts
           status == IF tried = MaxAttempts THEN "failed" ELSE "pending"
           new == [jobs[j] EXCEPT !.attempts = tried, !.status = status]
<1>1. tasks[k] # None /\ tasks[k].batch # {}
  BY TaskType DEF MarkFailed, At, Knows, Holding
<1>2. j \in DOMAIN jobs /\ jobs[j] \in Job /\ InHand(k).attempts \in 0..MaxAttempts
  BY <1>1, InHandIsRead, JobType DEF Slots, OutInv, Copy
<1>3. jobs' = [jobs EXCEPT ![j] = new]
  BY DEF MarkFailed
<1>4. tried \in 0..MaxAttempts /\ status \in {"failed", "pending"}
  BY <1>2, OutboxBounds
<1> HIDE DEF j, tried, status
<1>5. new \in Job /\ new.url = jobs[j].url /\ new.action = jobs[j].action
      /\ new.status # "completed"
  BY <1>2, <1>4 DEF Job
<1> HIDE DEF new
<1>6. UNCHANGED <<identity, rots, faults, regs, shown, gone, accepted, requests, crossed>>
  BY DEF MarkFailed, rotationVars
<1>7. faults' \in 0..MaxFaults /\ crossed' \in BOOLEAN
  BY <1>6, NoFault DEF OutInv, TypeOK
<1>8. /\ jobs' \in Seq(Job) /\ Len(jobs') <= MaxJobs /\ Len(jobs) <= Len(jobs')
      /\ \A i \in DOMAIN jobs : jobs'[i].url = jobs[i].url /\ jobs'[i].action = jobs[i].action
      /\ \A i \in DOMAIN jobs' : jobs'[i].status = "completed" => i \in accepted
      /\ DOMAIN jobs' = DOMAIN jobs
  BY <1>2, <1>3, <1>5, JobChanges
<1>9. Grows
  BY <1>6, <1>8 DEF Grows
<1>10. \E t : Becomes(k, t)
  <2>1. CASE Goto(k, "error")
    BY <1>1, <1>9, <2>1, GotoFits DEF Stages, Holding
  <2>2. CASE NextJob(k)
    BY <1>1, <1>9, <2>2, NextFits
  <2> QED
    BY <2>1, <2>2 DEF MarkFailed
<1> QED
  BY <1>6, <1>7, <1>8, <1>10, JobsStep

(* An update that is armed again.                                          *)
LEMMA Rearmed ==
  ASSUME NEW b \in Job
  PROVE  LET new == [b EXCEPT !.sig = None, !.status = "pending", !.attempts = 0]
         IN new \in Job /\ new.url = b.url /\ new.action = b.action /\ new.status = "pending"
<1> DEFINE new == [b EXCEPT !.sig = None, !.status = "pending", !.attempts = 0]
<1>1. 0 \in 0..MaxAttempts
  BY OutboxBounds
<1>2. /\ DOMAIN new = {"action", "url", "status", "attempts", "sig"}
      /\ new = [f \in DOMAIN new |-> new[f]]
  BY DEF Job
<1>3. /\ new.action = b.action /\ new.url = b.url
      /\ new.status = "pending" /\ new.attempts = 0 /\ new.sig = None
  BY DEF Job
<1>4. b.action \in {"update", "delete"} /\ b.url \in Urls
  BY DEF Job
<1> HIDE DEF new
<1>5. new \in Job
  BY <1>1, <1>2, <1>3, <1>4 DEF Job
<1> QED
  BY <1>3, <1>5 DEF new

LEMMA ClearStep ==
  ASSUME OutInv, NEW k \in Slots, ClearSignatures(k)
  PROVE  OutInv'
<1>1. tasks[k] # None /\ tasks[k].urls \subseteq Urls
  BY TaskType DEF ClearSignatures, At, Knows
<1>2. UNCHANGED <<identity, rots, faults, regs, shown, gone, accepted, requests, crossed>>
  BY DEF ClearSignatures, rotationVars
<1>3. faults' \in 0..MaxFaults /\ crossed' \in BOOLEAN
  BY <1>2, NoFault DEF OutInv, TypeOK
<1>4. jobs \in Seq(Job) /\ Len(jobs) \in Nat /\ DOMAIN jobs = 1..Len(jobs)
  BY JobType DEF OutInv, TypeOK
<1>5. ASSUME NEW i \in DOMAIN jobs
      PROVE  /\ jobs'[i] \in Job /\ jobs'[i].url = jobs[i].url /\ jobs'[i].action = jobs[i].action
             /\ jobs'[i].status = "completed" => jobs[i].status = "completed"
  <2>1. jobs[i] \in Job
    BY JobType DEF OutInv
  <2>2. jobs'[i] = jobs[i]
        \/ jobs'[i] = [jobs[i] EXCEPT !.sig = None, !.status = "pending", !.attempts = 0]
    BY DEF ClearSignatures
  <2> DEFINE new == [jobs[i] EXCEPT !.sig = None, !.status = "pending", !.attempts = 0]
  <2>3. new \in Job /\ new.url = jobs[i].url /\ new.action = jobs[i].action
        /\ new.status = "pending"
    BY <2>1, Rearmed
  <2> HIDE DEF new
  <2>4. jobs'[i] = jobs[i] \/ jobs'[i] = new
    BY <2>2 DEF new
  <2> QED
    BY <2>1, <2>3, <2>4
<1>6. jobs' \in Seq(Job) /\ Len(jobs') = Len(jobs) /\ DOMAIN jobs' = DOMAIN jobs
  <2>1. jobs' = [i \in 1..Len(jobs) |-> jobs'[i]]
    BY <1>4 DEF ClearSignatures
  <2>2. jobs' \in [1..Len(jobs) -> Job]
    BY <1>4, <1>5, <2>1
  <2> QED
    BY <1>4, <2>2
<1>7. \A i \in DOMAIN jobs' : jobs'[i].status = "completed" => i \in accepted
  BY <1>5, <1>6 DEF OutInv, Told
<1>8. Grows
  BY <1>2, <1>5, <1>6 DEF Grows
<1>9. Becomes(k, [tasks[k] EXCEPT !.stage = "each"])
  BY <1>1, <1>8, GotoFits DEF Stages, Holding, ClearSignatures
<1> QED
  BY <1>2, <1>3, <1>4, <1>5, <1>6, <1>7, <1>9, JobsStep DEF OutInv, TypeOK

(* The registry answers.                                                   *)
LEMMA PostStep ==
  ASSUME OutInv, NEW k \in Slots, Post(k)
  PROVE  OutInv'
<1> DEFINE j == InHand(k).job
           u == jobs[j].url
<1>1. tasks[k] # None /\ tasks[k].batch # {} /\ tasks[k] \in Task
  BY TaskType DEF Post, At, Knows, Holding
<1>2. j \in DOMAIN jobs /\ jobs[j] \in Job /\ InHand(k) = Chosen(tasks[k].batch)
      /\ InHand(k) \in Copy
  BY <1>1, InHandIsRead, JobType DEF Slots, OutInv
<1>3. UNCHANGED <<identity, rots, faults, regs, jobs, requests, crossed>>
  BY DEF Post, rotationVars
<1>4. faults' \in 0..MaxFaults /\ crossed' \in BOOLEAN
  BY <1>3, NoFault DEF OutInv, TypeOK
<1>5. CASE UNCHANGED <<accepted, shown, gone>> /\ Goto(k, "fail")
  <2>1. UNCHANGED outbox
    BY <1>3, <1>5 DEF outbox
  <2>2. Becomes(k, [tasks[k] EXCEPT !.stage = "fail"])
    BY <1>1, <1>5, <2>1, StillGrows, GotoFits DEF Stages, Holding
  <2> QED
    BY <1>3, <1>4, <2>1, <2>2, ReadStep
<1>6. CASE Accept(k) /\ (Goto(k, "complete") \/ Goto(k, "fail"))
  <2>1. accepted' = accepted \cup {j}
    BY <1>6 DEF Accept
  <2>2. /\ shown' \in [Urls -> Roots \cup {None}]
        /\ \A v \in Urls : shown[v] # None => shown'[v] # None
        /\ jobs[j].action = "update" => shown'[u] # None
    <3>1. CASE jobs[j].action = "update"
      <4>1. InHand(k).sig \in Roots /\ shown' = [shown EXCEPT ![u] = InHand(k).sig]
        BY <1>1, <1>6, <3>1 DEF Accept, Task
      <4>2. InHand(k).sig # None /\ u \in Urls
        BY <1>2, <4>1, RotationNone DEF Job
      <4> HIDE DEF u
      <4> QED
        BY <4>1, <4>2 DEF OutInv, TypeOK
    <3>2. CASE jobs[j].action # "update"
      BY <1>6, <3>2 DEF Accept, OutInv, TypeOK
    <3> QED
      BY <3>1, <3>2
  <2>3. accepted' \subseteq 1..Len(jobs') /\ gone' \subseteq Urls
    BY <1>2, <1>3, <1>6, <2>1, JobType DEF Accept, OutInv, TypeOK, Job
  <2>4. Grows
    BY <1>3, <2>1, <2>2 DEF Grows
  <2>5. Told'
    BY <1>3, <2>1, <2>2 DEF OutInv, Told
  <2>6. PICK stage \in {"complete", "fail"} : Goto(k, stage)
    BY <1>6
  <2>7. Becomes(k, [tasks[k] EXCEPT !.stage = stage])
    BY <1>1, <1>2, <1>3, <2>1, <2>2, <2>4, <2>6, GotoFits DEF Stages, Holding
  <2> QED
    BY <1>3, <1>4, <2>2, <2>3, <2>4, <2>5, <2>7, HandlerStep DEF OutInv, TypeOK
<1> QED
  BY <1>5, <1>6 DEF Post

(* The chain is loaded; a list of jobs comes to its end.                   *)
LEMMA ChainStep ==
  ASSUME OutInv, NEW k \in Slots, LoadChain(k) \/ EndBatch(k)
  PROVE  OutInv'
<1>1. tasks[k] # None /\ UNCHANGED <<identity, rots, outbox, requests, crossed>>
  BY DEF LoadChain, EndBatch, At, rotationVars
<1>2. tasks[k] \in Task /\ Knows(tasks[k], jobs, accepted, shown)
  BY <1>1, TaskType
<1>3. faults' \in 0..MaxFaults /\ crossed' \in BOOLEAN
  BY <1>1, NoFault, FaultType DEF LoadChain, EndBatch, rotationVars, OutInv, TypeOK
<1>4. Grows
  BY <1>1, StillGrows
<1>5. \E t : Becomes(k, t)
  <2>1. CASE Done(k)
    BY <2>1, DoneFits
  <2>2. CASE Goto(k, "fail") /\ tasks[k].batch # {}
    BY <1>1, <1>4, <2>2, GotoFits DEF Stages, Holding
  <2>3. CASE /\ tasks' = [tasks EXCEPT ![k] = [tasks[k] EXCEPT !.stage = "post", !.head = CurrentRoot]]
             /\ tasks[k].batch # {}
    <3> DEFINE n == [tasks[k] EXCEPT !.stage = "post", !.head = CurrentRoot]
    <3>1. CurrentRoot \in Roots
      <4>1. RotationTypeOK /\ ChainVerifies
        BY DEF OutInv, IInv
      <4>2. CurrentRoot \in RootsOf(chain)
        BY <4>1, HeadVouched
      <4>3. RootsOf(chain) \subseteq Roots
        BY <4>1, RotationBounds DEF RootsOf, RotationTypeOK, Statement, Genesis, Roots
      <4> QED
        BY <4>2, <4>3
    <3>2. n \in Task /\ n.stage = "post" /\ n.batch = tasks[k].batch
      BY <1>2, <3>1 DEF Task, Stages
    <3>3. tasks' = [tasks EXCEPT ![k] = n]
      BY <2>3
    <3> HIDE DEF n
    <3>4. Knows(n, jobs', accepted', shown')
      BY <1>2, <1>4, <2>3, <3>2 DEF Knows, Grows, Holding
    <3> QED
      BY <3>2, <3>3, <3>4 DEF Becomes, Fits
  <2> QED
    BY <2>1, <2>2, <2>3 DEF LoadChain, EndBatch
<1> QED
  BY <1>1, <1>3, <1>5, ReadStep

(* The status of a registry follows its job.                               *)
LEMMA StandingStep ==
  ASSUME OutInv, NEW k \in Slots, MarkSynced(k) \/ MarkError(k)
  PROVE  OutInv'
<1> DEFINE j == InHand(k).job
           u == jobs[j].url
<1>1. tasks[k] # None /\ tasks[k].batch # {}
  BY TaskType DEF MarkSynced, MarkError, At, Knows, Holding
<1>2. Knows(tasks[k], jobs, accepted, shown) /\ j \in DOMAIN jobs /\ u \in Urls
      /\ InHand(k) = Chosen(tasks[k].batch)
  BY <1>1, TaskType, InHandIsRead, JobType DEF Slots, OutInv, Job
<1>3. UNCHANGED <<identity, rots, jobs, shown, gone, accepted, requests, crossed>> /\ crossed' \in BOOLEAN
  BY DEF MarkSynced, MarkError, rotationVars, OutInv, TypeOK
<1>4. faults' \in 0..MaxFaults
  BY NoFault, FaultType DEF MarkSynced, MarkError, OutInv, rotationVars
<1>5. Grows
  <2>1. CASE UNCHANGED regs
    BY <1>3 DEF Grows
  <2> QED
    BY <1>3 DEF Grows
<1>6. CASE UNCHANGED regs /\ Goto(k, "fail")
  <2>1. Becomes(k, [tasks[k] EXCEPT !.stage = "fail"])
    BY <1>1, <1>5, <1>6, GotoFits DEF Stages, Holding
  <2> QED
    BY <1>3, <1>4, <1>6, <2>1, ReadStep DEF outbox
<1>7. ASSUME NEW status \in {"synced", "error"}, SetStatus(k, status), NextJob(k),
             status = "synced" => tasks[k].stage = "synced"
      PROVE  OutInv'
  <2> DEFINE now == IF regs[u] = None THEN None ELSE status
  <2>1. regs' = [regs EXCEPT ![u] = now]
    BY <1>7 DEF SetStatus
  <2>2. now \in {None, "pending", "synced", "error"}
    BY <1>7
  <2>3. now = "synced" => shown[u] # None
    BY <1>2, <1>7, OutboxNone DEF Knows
  <2>4. \E t : Becomes(k, t)
    BY <1>1, <1>5, <1>7, NextFits
  <2> HIDE DEF now, u
  <2> QED
    BY <1>2, <1>3, <1>4, <2>1, <2>2, <2>3, <2>4, RegsStep
<1> QED
  BY <1>6, <1>7 DEF MarkSynced, MarkError, At

-----------------------------------------------------------------------------
(* The announcement of a new root.                                         *)
LEMMA PlainFits ==
  ASSUME OutInv, NEW k \in Slots, tasks[k] # None, Grows,
         NEW n \in Task, tasks' = [tasks EXCEPT ![k] = n], n.batch = tasks[k].batch,
         n.stage \notin Holding,
         n.stage \in {"status", "insert", "enqueue", "drop"} => n.url \in Urls
  PROVE  Becomes(k, n)
<1>1. Knows(tasks[k], jobs, accepted, shown)
  BY TaskType
<1>2. n.urls \subseteq Urls
  BY DEF Task
<1>3. Knows(n, jobs', accepted', shown')
  BY <1>1, <1>2 DEF Knows, Grows, Holding
<1> QED
  BY <1>3 DEF Becomes, Fits

LEMMA ReadingStep ==
  ASSUME OutInv, NEW k \in Slots,
         \/ ReadRegistries(k) \/ ReadAnnounced(k) \/ ReadUnsigned(k) \/ ReadActive(k)
  PROVE  OutInv'
<1>1. tasks[k] # None /\ UNCHANGED <<identity, rots, faults, outbox, requests>>
  BY DEF ReadRegistries, ReadAnnounced, ReadUnsigned, ReadActive, At, rotationVars
<1>2. tasks[k] \in Task
  BY <1>1, TaskType
<1>3. faults' \in 0..MaxFaults /\ Grows
  BY <1>1, NoFault, StillGrows
<1>4. crossed' \in BOOLEAN
  <2> DEFINE waits == \E j \in DOMAIN jobs : Active(j)
  <2>1. waits \in BOOLEAN
    OBVIOUS
  <2>2. crossed' = crossed \/ crossed' = (crossed \/ waits)
    BY DEF ReadRegistries, ReadAnnounced, ReadUnsigned, ReadActive
  <2>3. crossed \in BOOLEAN
    BY DEF OutInv, TypeOK
  <2> HIDE DEF waits
  <2> QED
    BY <2>1, <2>2, <2>3
<1>5. ASSUME NEW known \in SUBSET Urls,
             tasks' = [tasks EXCEPT ![k] = [tasks[k] EXCEPT !.stage = "active", !.urls = known]]
      PROVE  \E t : Becomes(k, t)
  <2> DEFINE n == [tasks[k] EXCEPT !.stage = "active", !.urls = known]
  <2>1. n \in Task /\ n.stage = "active" /\ n.batch = tasks[k].batch
    BY <1>2 DEF Task, Stages
  <2>2. tasks' = [tasks EXCEPT ![k] = n]
    BY <1>5
  <2> HIDE DEF n
  <2> QED
    BY <1>1, <1>3, <2>1, <2>2, PlainFits DEF Holding
<1>6. CASE ReadRegistries(k)
  <2>1. CASE Done(k)
    BY <1>1, <1>3, <1>4, <2>1, DoneFits, ReadStep
  <2>2. CASE ~Done(k)
    <3> DEFINE known == {u \in Urls : regs[u] # None}
    <3>1. tasks' = [tasks EXCEPT ![k] = [tasks[k] EXCEPT !.stage = "active", !.urls = known]]
      BY <1>6, <2>2 DEF ReadRegistries
    <3>2. \E t : Becomes(k, t)
      BY <1>5, <3>1
    <3> QED
      BY <1>1, <1>3, <1>4, <3>2, ReadStep
  <2> QED
    BY <2>1, <2>2
<1>7. CASE ReadAnnounced(k)
  <2> DEFINE told == {jobs[j].url : j \in {i \in DOMAIN jobs :
                        Active(i) /\ jobs[i].action = "update"}}
             n == [tasks[k] EXCEPT !.stage = "clear", !.active = told]
  <2>1. told \subseteq Urls
    BY JobType DEF OutInv, Job
  <2>2. tasks' = [tasks EXCEPT ![k] = n]
    BY <1>7 DEF ReadAnnounced
  <2> HIDE DEF told
  <2>3. n \in Task /\ n.stage = "clear" /\ n.batch = tasks[k].batch
    BY <1>2, <2>1 DEF Task, Stages
  <2> HIDE DEF n
  <2>4. Becomes(k, n)
    BY <1>1, <1>3, <2>2, <2>3, PlainFits DEF Holding
  <2> QED
    BY <1>1, <1>3, <1>4, <2>4, ReadStep
<1>8. ASSUME NEW js \in SUBSET DOMAIN jobs, NEW stage \in {"sign", "next"},
             tasks' = [tasks EXCEPT ![k] =
               [tasks[k] EXCEPT !.stage = stage, !.batch = Snapshot(js)]]
      PROVE  OutInv'
  <2>1. Snapshot(js) \in SUBSET Copy /\ \A c \in Snapshot(js) : c.job \in DOMAIN jobs
    BY SnapshotType DEF OutInv
  <2>2. \A c \in Snapshot(js) : c.job \in DOMAIN jobs'
    BY <1>1, <2>1 DEF outbox
  <2>3. \E t : Becomes(k, t)
    BY <1>1, <1>3, <1>8, <2>1, <2>2, BatchFits DEF Stages, Holding
  <2> QED
    BY <1>1, <1>3, <1>4, <2>3, ReadStep
<1>9. CASE ReadUnsigned(k)
  BY <1>8, <1>9 DEF ReadUnsigned
<1>10. CASE ReadActive(k)
  BY <1>8, <1>10 DEF ReadActive
<1> QED
  BY <1>6, <1>7, <1>9, <1>10

LEMMA AnnounceStep ==
  ASSUME OutInv, NEW k \in Slots, AnnounceTo(k)
  PROVE  OutInv'
<1>1. tasks[k] # None /\ UNCHANGED <<identity, rots, faults, regs, shown, gone, accepted, requests, crossed>>
  BY DEF AnnounceTo, At, rotationVars
<1>2. tasks[k] \in Task /\ tasks[k].urls \subseteq Urls
  BY <1>1, TaskType DEF Task
<1>3. faults' \in 0..MaxFaults /\ crossed' \in BOOLEAN
  BY <1>1, NoFault DEF OutInv, TypeOK
<1>4. PICK u \in tasks[k].urls :
        /\ UNCHANGED jobs \/ Enqueue("update", u)
        /\ tasks' = [tasks EXCEPT ![k] = [tasks[k] EXCEPT !.stage = "status", !.url = u]]
  BY DEF AnnounceTo
<1>5. /\ jobs' \in Seq(Job) /\ Len(jobs') <= MaxJobs /\ Len(jobs) <= Len(jobs')
      /\ \A i \in DOMAIN jobs : jobs'[i].url = jobs[i].url /\ jobs'[i].action = jobs[i].action
      /\ \A i \in DOMAIN jobs' : jobs'[i].status = "completed" => i \in accepted
      /\ DOMAIN jobs \subseteq DOMAIN jobs'
  <2>1. CASE UNCHANGED jobs
    BY <2>1, JobType DEF OutInv, TypeOK, Told
  <2>2. CASE Enqueue("update", u)
    BY <1>2, <2>2, EnqueueType
  <2> QED
    BY <1>4, <2>1, <2>2
<1>6. Grows
  BY <1>1, <1>5 DEF Grows
<1> DEFINE n == [tasks[k] EXCEPT !.stage = "status", !.url = u]
<1>7. n \in Task /\ n.stage = "status" /\ n.batch = tasks[k].batch /\ n.url \in Urls
  BY <1>2 DEF Task, Stages
<1>8. tasks' = [tasks EXCEPT ![k] = n]
  BY <1>4
<1> HIDE DEF n
<1>9. Becomes(k, n)
  BY <1>1, <1>6, <1>7, <1>8, PlainFits DEF Holding
<1> QED
  BY <1>1, <1>3, <1>5, <1>9, JobsStep

LEMMA PendingStep ==
  ASSUME OutInv, NEW k \in Slots, MarkPending(k)
  PROVE  OutInv'
<1> DEFINE u == tasks[k].url
           left == tasks[k].urls \ {u}
           now == IF regs[u] = None THEN None ELSE "pending"
<1>1. tasks[k] # None /\ u \in Urls
  BY TaskType DEF MarkPending, At, Knows
<1>2. tasks[k] \in Task /\ left \subseteq Urls
  BY <1>1, TaskType DEF Task
<1>3. UNCHANGED <<identity, rots, faults, jobs, shown, gone, accepted, requests, crossed>>
  BY DEF MarkPending, rotationVars
<1>4. faults' \in 0..MaxFaults /\ crossed' \in BOOLEAN
  BY <1>3, NoFault DEF OutInv, TypeOK
<1>5. regs' = [regs EXCEPT ![u] = now]
  BY DEF MarkPending
<1>6. now \in {None, "pending", "synced", "error"} /\ now # "synced"
  BY OutboxNone
<1>7. Grows
  BY <1>3 DEF Grows
<1>8. \E t : Becomes(k, t)
  <2>1. CASE Done(k)
    BY <2>1, DoneFits
  <2>2. CASE ~Done(k)
    <3>1. PICK stage \in {"each", "reread"} :
            tasks' = [tasks EXCEPT ![k] = [tasks[k] EXCEPT !.stage = stage, !.urls = left]]
      BY <2>2 DEF MarkPending
    <3> DEFINE n == [tasks[k] EXCEPT !.stage = stage, !.urls = left]
    <3>2. n \in Task /\ n.stage = stage /\ n.batch = tasks[k].batch
      BY <1>2 DEF Task, Stages
    <3>3. tasks' = [tasks EXCEPT ![k] = n]
      BY <3>1
    <3> HIDE DEF n
    <3> QED
      BY <1>1, <1>7, <3>2, <3>3, PlainFits DEF Holding
  <2> QED
    BY <2>1, <2>2
<1> HIDE DEF now, u
<1> QED
  BY <1>1, <1>3, <1>4, <1>5, <1>6, <1>8, RegsStep

LEMMA RepublishStep ==
  ASSUME OutInv, NEW k \in Rotators, StartRepublish(k)
  PROVE  OutInv'
<1> DEFINE b == Blank("republish", "regs")
           root == IF Custodial(k) THEN rots[k].stmt.new ELSE None
           n == [b EXCEPT !.root = root]
<1>1. IInv'
  BY StepKeeps DEF StartRepublish, OutInv
<1>2. root \in Roots \cup {None}
  <2>1. rots[k] # None /\ rots[k].stage = "republish" /\ rots[k] \in Rot
    BY DEF StartRepublish, FinishRotation, RotAt, OutInv, IInv, RotationTypeOK
  <2>2. rots[k].stmt # None /\ rots[k].stmt \in Statement \cup {None}
    BY <2>1 DEF OutInv, IInv, Underway, Rot
  <2> QED
    BY <2>2 DEF Statement
<1>3. b \in Task /\ b.stage = "regs" /\ b.batch = {}
  BY BlankType DEF Kinds, Stages
<1>4. tasks' = [tasks EXCEPT ![k] = n] /\ UNCHANGED <<outbox, requests, crossed>>
  BY DEF StartRepublish
<1> HIDE DEF b, root
<1>5. n \in Task /\ n.stage = "regs" /\ n.batch = {}
  BY <1>2, <1>3 DEF Task
<1> HIDE DEF n
<1>6. Knows(n, jobs', accepted', shown')
  BY <1>5 DEF Knows, Holding
<1>7. Grows
  BY <1>4, StillGrows
<1>8. TypeOK'
  <2>1. tasks' \in [Workers \cup Rotators -> Task \cup {None}]
    BY <1>4, <1>5 DEF OutInv, TypeOK
  <2> QED
    BY <1>1, <1>4, <2>1 DEF OutInv, TypeOK, IInv, outbox
<1>9. Told'
  BY <1>4 DEF OutInv, Told, outbox
<1> QED
  BY <1>1, <1>4, <1>5, <1>6, <1>7, <1>8, <1>9, TaskStep

LEMMA RotateStep ==
  ASSUME OutInv, NEW k \in Rotators, Rotate(k)
  PROVE  OutInv'
<1>1. IInv'
  BY StepKeeps DEF Rotate, OutInv
<1>2. UNCHANGED <<regs, jobs, shown, gone, accepted, tasks, requests>>
  BY DEF Rotate, outbox
<1>3. crossed' \in BOOLEAN
  <2> DEFINE meets == /\ chain' # chain
                      /\ \/ \E w \in Workers : tasks[w] # None
                         \/ \E r \in Rotators : Unannounced(r)
  <2>1. meets \in BOOLEAN
    OBVIOUS
  <2>2. crossed' = (crossed \/ meets) /\ crossed \in BOOLEAN
    BY DEF Rotate, OutInv, TypeOK
  <2> HIDE DEF meets
  <2> QED
    BY <2>1, <2>2
<1>4. TypeOK'
  BY <1>1, <1>2, <1>3 DEF OutInv, TypeOK, IInv
<1>5. Told'
  BY <1>2 DEF OutInv, Told
<1>6. ASSUME NEW j \in Workers \cup Rotators, tasks'[j] # None
      PROVE  Knows(tasks'[j], jobs', accepted', shown')
  BY <1>2, <1>6 DEF OutInv
<1> QED
  BY <1>1, <1>4, <1>5, <1>6 DEF OutInv

(* Every step keeps the outbox as OutInv says.                             *)
LEMMA OutStep == OutInv /\ [Next]_vars => OutInv'
<1> SUFFICES ASSUME OutInv, [Next]_vars PROVE OutInv'
  OBVIOUS
<1>1. ASSUME NEW k \in Slots, Work(k) PROVE OutInv'
  BY <1>1, RegistryStep, EnqueueStep, StatusStep, ReadingStep, ChainStep, SignStep,
     PostStep, CompletedStep, StandingStep, FailedStep DEF Work
<1>2. ASSUME NEW k \in Slots, Announce(k) PROVE OutInv'
  BY <1>2, ReadingStep, ClearStep, AnnounceStep, PendingStep, SignStep DEF Announce
<1>3. CASE Next
  BY <1>1, <1>2, <1>3, RotateStep, RepublishStep, ThrowStep, AskStep, DeliverStep
     DEF Next, Slots
<1>4. CASE UNCHANGED vars
  <2>1. UNCHANGED <<identity, rots, faults, regs, jobs, shown, gone, accepted, tasks, requests, crossed>>
    BY <1>4 DEF vars, rotationVars, outboxVars, outbox
  <2>2. IInv'
    BY <2>1, StutterKeeps DEF OutInv, IInv, RotationTypeOK
  <2>3. TypeOK'
    BY <2>1, <2>2 DEF OutInv, TypeOK, IInv
  <2>4. Told'
    BY <2>1 DEF OutInv, Told
  <2>5. \A j \in Workers \cup Rotators : tasks'[j] # None => Knows(tasks'[j], jobs', accepted', shown')
    BY <2>1 DEF OutInv
  <2> QED
    BY <2>2, <2>3, <2>4, <2>5 DEF OutInv
<1> QED
  BY <1>3, <1>4

LEMMA OutboxInductive == Spec => []OutInv
  BY OutInit, OutStep, PTL DEF Spec

(* TypeOK, of rotations and the outbox together.                           *)
THEOREM OutboxTypes == Spec => []TypeOK
<1>1. OutInv => TypeOK
  BY DEF OutInv
<1> QED
  BY <1>1, OutboxInductive, PTL

(* No record is lost: pushJob marks a job completed only after a registry  *)
(* has accepted it, and a registry is called synced only if it accepted a  *)
(* record once, whatever requests, polls and rotations overlap.            *)
THEOREM NothingLost == Spec => []AtLeastOnce
<1>1. OutInv => AtLeastOnce
  BY DEF OutInv, Told, AtLeastOnce
<1> QED
  BY <1>1, OutboxInductive, PTL

(* The chain of an identity verifies and its seed is that of the head,     *)
(* also with the announcements of the rotations at work.                   *)
THEOREM ChainOfTheOutbox == Spec => [](ChainVerifies /\ SeedIsHead)
<1>1. OutInv => ChainVerifies /\ SeedIsHead
  BY DEF OutInv, IInv
<1> QED
  BY <1>1, OutboxInductive, PTL

-----------------------------------------------------------------------------
(* Who writes the status of a job has it in hand, or adds or arms jobs.    *)
LEMMA StatusKept ==
  ASSUME OutInv,
         \/ \A j \in DOMAIN jobs : jobs'[j].status = jobs[j].status
         \/ \E k \in Workers : /\ tasks[k] # None /\ tasks[k].batch # {}
                               /\ \A j \in DOMAIN jobs : j # InHand(k).job => jobs'[j] = jobs[j]
         \/ \A j \in DOMAIN jobs : ~Active(j) => jobs'[j] = jobs[j]
  PROVE  LeftAlone
<1> SUFFICES ASSUME NEW j \in DOMAIN jobs,
                    jobs[j].status \in {"completed", "cancelled"}, ~Held(j)
             PROVE  jobs'[j].status = jobs[j].status
  BY DEF LeftAlone
<1>1. ASSUME NEW k \in Workers, tasks[k] # None, tasks[k].batch # {}
      PROVE  j # InHand(k).job
  <2>1. InHand(k) \in tasks[k].batch
    BY <1>1, InHandIsRead
  <2> QED
    BY <1>1, <2>1 DEF Held
<1> QED
  BY <1>1 DEF Active

LEMMA TerminalStep == OutInv /\ [Next]_vars => [LeftAlone]_vars
<1> SUFFICES ASSUME OutInv, Next PROVE LeftAlone
  OBVIOUS
<1>1. CASE UNCHANGED jobs
  BY <1>1, StatusKept
<1>2. ASSUME NEW action, NEW u, Enqueue(action, u) PROVE LeftAlone
  <2>1. \A j \in DOMAIN jobs : jobs'[j] = jobs[j]
    BY <1>2, JobType DEF Enqueue, OutInv, TypeOK
  <2> QED
    BY <2>1, StatusKept
<1>3. ASSUME NEW k \in Workers, tasks[k] # None, tasks[k].batch # {},
             NEW new, jobs' = [jobs EXCEPT ![InHand(k).job] = new]
      PROVE  LeftAlone
  BY <1>3, StatusKept
<1>4. ASSUME NEW k \in Slots, tasks[k] # None, tasks[k].batch # {},
             NEW sig, jobs' = [jobs EXCEPT ![InHand(k).job].sig = sig]
      PROVE  LeftAlone
  <2>1. InHand(k).job \in DOMAIN jobs
    BY <1>4, InHandIsRead DEF Slots
  <2>2. \A j \in DOMAIN jobs : jobs[j] \in Job
    BY JobType DEF OutInv
  <2>3. \A j \in DOMAIN jobs : jobs'[j].status = jobs[j].status
    BY <1>4, <2>1, <2>2 DEF Job
  <2> QED
    BY <2>3, StatusKept
<1>5. ASSUME NEW k \in Slots, ClearSignatures(k) PROVE LeftAlone
  <2>1. \A j \in DOMAIN jobs : ~Active(j) => jobs'[j] = jobs[j]
    BY <1>5 DEF ClearSignatures
  <2> QED
    BY <2>1, StatusKept
<1>6. ASSUME NEW k \in Slots, SignAgain(k) \/ SaveSignature(k) PROVE LeftAlone
  <2>1. tasks[k] # None
    BY <1>6 DEF SignAgain, SaveSignature, At
  <2> QED
    BY <1>1, <1>4, <1>6, <2>1 DEF SignAgain, SaveSignature
<1>7. ASSUME NEW k \in Workers, WriteStatus(k) \/ MarkCompleted(k) \/ MarkFailed(k)
      PROVE  LeftAlone
  <2>1. tasks[k] # None /\ tasks[k].batch # {}
    BY <1>7, TaskType DEF WriteStatus, MarkCompleted, MarkFailed, At, Knows, Holding, Slots
  <2> QED
    BY <1>1, <1>3, <1>7, <2>1 DEF WriteStatus, MarkCompleted, MarkFailed
<1>8. ASSUME NEW k \in Workers, Work(k) PROVE LeftAlone
  <2>1. CASE \/ InsertRegistry(k) \/ DropRegistry(k) \/ ReadActive(k) \/ EndBatch(k)
             \/ LoadChain(k) \/ Post(k) \/ MarkSynced(k) \/ MarkError(k)
    BY <1>1, <2>1 DEF InsertRegistry, DropRegistry, ReadActive, EndBatch, LoadChain, Post,
         MarkSynced, MarkError, outbox
  <2>2. CASE EnqueueAsked(k)
    BY <1>2, <2>2 DEF EnqueueAsked
  <2> QED
    BY <1>6, <1>7, <1>8, <2>1, <2>2 DEF Work, Slots
<1>9. ASSUME NEW k \in Rotators, Announce(k) PROVE LeftAlone
  <2>1. CASE ReadRegistries(k) \/ ReadAnnounced(k) \/ MarkPending(k) \/ ReadUnsigned(k)
    BY <1>1, <2>1 DEF ReadRegistries, ReadAnnounced, MarkPending, ReadUnsigned, outbox
  <2>2. CASE AnnounceTo(k)
    BY <1>1, <1>2, <2>2 DEF AnnounceTo
  <2> QED
    BY <1>5, <1>6, <1>9, <2>1, <2>2 DEF Announce, Slots
<1>10. ASSUME NEW k \in Slots, Throw(k) PROVE LeftAlone
  BY <1>1, <1>10 DEF Throw, outbox
<1>11. ASSUME NEW k \in Rotators, Rotate(k) \/ StartRepublish(k) PROVE LeftAlone
  BY <1>1, <1>11 DEF Rotate, StartRepublish, outbox
<1>12. ASSUME NEW k \in Requests, Ask(k) PROVE LeftAlone
  BY <1>1, <1>12 DEF Ask, StartAdd, StartRemove, StartRetry, StartCancel, StartSync, Request, outbox
<1>13. CASE StartDeliver
  BY <1>1, <1>13 DEF StartDeliver, outbox
<1> QED
  BY <1>8, <1>9, <1>10, <1>11, <1>12, <1>13 DEF Next, Slots

(* What is over stays over: once a job is completed or cancelled, only a   *)
(* handler that read it before writes its status (markFailed, retryJob).   *)
THEOREM OverIsOver == Spec => TerminalStays
<1>1. Spec => [][Next]_vars
  BY PTL DEF Spec
<1> QED
  BY <1>1, TerminalStep, OutboxInductive, PTL DEF TerminalStays

-----------------------------------------------------------------------------
(* What a rotation keeps of the outbox, as long as nothing crossed it and  *)
(* no call failed: js are the jobs, rg the standing of the registries, sh  *)
(* the roots they were shown, and root is the head of the chain.           *)
Calm == ~crossed /\ faults = 0

Clean(js, root) ==
  \A j \in DOMAIN js :
    js[j].status \in {"pending", "failed"} /\ js[j].action = "update"
      => js[j].sig \in {None, root}

Tidy(rg, js, sh, root) ==
  Clean(js, root) /\ \A u \in Urls : rg[u] = "synced" => sh[u] = root

(* An update for the registry at u is waiting, or was cancelled.           *)
Awaited(js, u) ==
  \E j \in DOMAIN js :
    js[j].action = "update" /\ js[j].url = u /\ js[j].status # "completed"

(* A request or a poll, t, that no rotation crossed: what it signs and     *)
(* sends is of the root.  (cancelJob may hold an older record.)            *)
Works(t, js, sh, root) ==
  LET j == Chosen(t.batch).job
  IN /\ t.root \in {None, root}
     /\ t.stage = "insert" => t.kind = "add"
     /\ t.stage = "write" => t.kind \in {"retry", "cancel"}
     /\ t.kind = "cancel" => t.stage = "write"
     /\ t.kind # "cancel" => \A c \in t.batch : js[c.job].action = "update" =>
          c.sig \in {None, root} /\ js[c.job].sig \in {None, root}
     /\ t.stage = "post" => Chosen(t.batch).sig # None
     /\ t.stage = "synced" => js[j].action = "update"
     /\ t.stage \in {"complete", "synced"} =>
          (js[j].action = "update" => sh[js[j].url] = root)

(* And what it will still do about a registry called pending.              *)
Will(t, js, u) ==
  \/ t.stage = "enqueue" /\ t.kind = "add" /\ t.url = u
  \/ t.stage = "synced" /\ js[Chosen(t.batch).job].url = u

(* An announcement t: the registries it has still to mark are those called *)
(* synced, and once the signatures are cleared all there are are of root.  *)
Announces(t, rg, js, root) ==
  /\ t.root \in {None, root}
  /\ t.stage \in {"regs", "active", "clear", "each", "status", "reread", "sign"}
  /\ t.stage \in {"active", "clear", "each", "status"} =>
       \A u \in Urls : rg[u] = "synced" => u \in t.urls
  /\ t.stage \in {"reread", "sign"} => \A u \in Urls : rg[u] # "synced"
  /\ t.stage \in {"each", "status", "reread", "sign"} => Clean(js, root)
  /\ t.stage \in {"clear", "each", "status"} => \A u \in t.active : Awaited(js, u)
  /\ t.stage = "status" => Awaited(js, t.url)

Appended(r) == rots[r] # None /\ rots[r].stage \in {"resign", "republish"}

Alone ==
  /\ \A r, s \in Rotators : Unannounced(r) /\ Unannounced(s) => r = s
  /\ \A r \in Rotators : Unannounced(r) => \A w \in Workers : tasks[w] = None
  /\ \A r \in Rotators : Appended(r) => tasks[r] = None /\ rots[r].stmt.new = CurrentRoot

Steady ==
  /\ Alone
  /\ \A r \in Rotators : tasks[r] # None => Announces(tasks[r], regs, jobs, CurrentRoot)
  /\ \A w \in Workers : tasks[w] # None => Works(tasks[w], jobs, shown, CurrentRoot)
  /\ (\A r \in Rotators : ~Unannounced(r)) => Tidy(regs, jobs, shown, CurrentRoot)
  /\ \A u \in Urls : regs[u] = "pending" =>
       Awaited(jobs, u) \/ \E w \in Workers : tasks[w] # None /\ Will(tasks[w], jobs, u)

LEMMA RootStays == ASSUME UNCHANGED chain PROVE CurrentRoot' = CurrentRoot
BY DEF CurrentRoot, RootOf, Rows

LEMMA UnannouncedBy ==
  ASSUME NEW r PROVE Unannounced(r) <=> Appended(r) \/ tasks[r] # None
BY DEF Unannounced, Appended

LEMMA SlotsApart == Rotators \cap Workers = {}
BY OutboxSlots DEF Workers

(* While a request or a poll is at work nothing is being announced.        *)
LEMMA WorkerAlone ==
  ASSUME Steady, NEW k \in Workers, tasks[k] # None
  PROVE  /\ \A r \in Rotators : ~Unannounced(r) /\ ~Appended(r) /\ tasks[r] = None
         /\ Tidy(regs, jobs, shown, CurrentRoot)
         /\ Works(tasks[k], jobs, shown, CurrentRoot)
<1>1. \A r \in Rotators : ~Unannounced(r)
  BY DEF Steady, Alone
<1> QED
  BY <1>1, UnannouncedBy DEF Steady

LEMMA AnnouncerAlone ==
  ASSUME Steady, NEW k \in Rotators, tasks[k] # None
  PROVE  /\ \A r \in Rotators \ {k} : ~Unannounced(r) /\ ~Appended(r) /\ tasks[r] = None
         /\ ~Appended(k)
         /\ \A w \in Workers : tasks[w] = None
         /\ Announces(tasks[k], regs, jobs, CurrentRoot)
         /\ \A u \in Urls : regs[u] = "pending" => Awaited(jobs, u)
<1>1. Unannounced(k)
  BY UnannouncedBy
<1>2. \A r \in Rotators \ {k} : ~Unannounced(r)
  BY <1>1 DEF Steady, Alone
<1>3. \A w \in Workers : tasks[w] = None
  BY <1>1 DEF Steady, Alone
<1>4. ~Appended(k)
  BY DEF Steady, Alone
<1> QED
  BY <1>2, <1>3, <1>4, UnannouncedBy DEF Steady

(* Jobs stay what they are about, and none gets a signature of an older    *)
(* root that had not one before.                                           *)
Apart ==
  \A j \in DOMAIN jobs :
    /\ j \in DOMAIN jobs'
    /\ jobs'[j].url = jobs[j].url /\ jobs'[j].action = jobs[j].action
    /\ jobs[j].sig \in {None, CurrentRoot} => jobs'[j].sig \in {None, CurrentRoot}

LEMMA ChosenIsRead ==
  ASSUME OutInv, NEW k \in Slots, tasks[k] # None, tasks[k].stage \in Holding
  PROVE  /\ tasks[k].batch # {} /\ InHand(k) = Chosen(tasks[k].batch)
         /\ InHand(k) \in tasks[k].batch /\ InHand(k).job \in DOMAIN jobs
         /\ InHand(k) \in Copy /\ jobs[InHand(k).job] \in Job
<1>1. tasks[k].batch # {}
  BY TaskType DEF Knows
<1> QED
  BY <1>1, InHandIsRead, JobType DEF Slots, OutInv

LEMMA WorksStill ==
  ASSUME OutInv, Apart, NEW k \in Workers, tasks[k] # None,
         Works(tasks[k], jobs, shown, CurrentRoot),
         \A u \in Urls : shown[u] = CurrentRoot => shown'[u] = CurrentRoot
  PROVE  /\ Works(tasks[k], jobs', shown', CurrentRoot)
         /\ \A u : Will(tasks[k], jobs, u) => Will(tasks[k], jobs', u)
<1> DEFINE t == tasks[k]
           j == Chosen(t.batch).job
<1>1. \A c \in t.batch : c.job \in DOMAIN jobs
  BY TaskType DEF Knows, Slots
<1>2. t.stage \in {"synced", "complete"} => j \in DOMAIN jobs /\ jobs[j].url \in Urls
  BY ChosenIsRead DEF Holding, Slots, Job
<1> HIDE DEF t
<1>3. Works(t, jobs', shown', CurrentRoot)
  BY <1>1, <1>2 DEF Works, Apart, t
<1>4. \A u : Will(t, jobs, u) => Will(t, jobs', u)
  BY <1>2 DEF Will, Apart
<1> QED
  BY <1>3, <1>4 DEF t

(* A request or a poll moves on (t None: it ends).                         *)
LEMMA WorkerKeeps ==
  ASSUME OutInv, Steady, NEW k \in Workers, tasks[k] # None, UNCHANGED <<identity, rots>>,
         NEW t, tasks' = [tasks EXCEPT ![k] = t], Apart,
         \A u \in Urls : shown[u] = CurrentRoot => shown'[u] = CurrentRoot,
         t # None => Works(t, jobs', shown', CurrentRoot),
         Tidy(regs', jobs', shown', CurrentRoot),
         \A u \in Urls : regs'[u] = "pending" =>
           \/ Awaited(jobs', u)
           \/ t # None /\ Will(t, jobs', u)
           \/ regs[u] = "pending" /\ ~Awaited(jobs, u) /\ ~Will(tasks[k], jobs, u)
  PROVE  Steady'
<1>1. CurrentRoot' = CurrentRoot
  BY RootStays DEF identity
<1>2. tasks'[k] = t /\ \A i \in Slots \ {k} : tasks'[i] = tasks[i]
  BY DEF OutInv, TypeOK, Slots
<1>3. \A r \in Rotators : tasks'[r] = None /\ ~Appended(r)' /\ ~Unannounced(r)'
  <2>1. ASSUME NEW r \in Rotators PROVE tasks'[r] = None /\ ~Appended(r)'
    <3>1. r \in Slots \ {k} /\ tasks[r] = None /\ ~Appended(r)
      BY WorkerAlone, SlotsApart DEF Slots
    <3> QED
      BY <1>2, <3>1 DEF Appended
  <2> QED
    BY <2>1 DEF Unannounced, Appended
<1>4. Alone'
  BY <1>3 DEF Alone
<1>5. ASSUME NEW w \in Workers, tasks'[w] # None
      PROVE  Works(tasks'[w], jobs', shown', CurrentRoot)
  <2>1. CASE w = k
    BY <1>2, <1>5, <2>1
  <2>2. CASE w # k
    <3>1. tasks'[w] = tasks[w] /\ tasks[w] # None
      BY <1>2, <1>5, <2>2 DEF Slots
    <3>2. Works(tasks[w], jobs, shown, CurrentRoot)
      BY <3>1 DEF Steady
    <3> QED
      BY <3>1, <3>2, WorksStill
  <2> QED
    BY <2>1, <2>2
<1>6. ASSUME NEW u \in Urls, regs'[u] = "pending"
      PROVE  Awaited(jobs', u) \/ \E w \in Workers : tasks'[w] # None /\ Will(tasks'[w], jobs', u)
  <2>1. CASE t # None /\ Will(t, jobs', u)
    BY <1>2, <2>1
  <2>2. CASE regs[u] = "pending" /\ ~Awaited(jobs, u) /\ ~Will(tasks[k], jobs, u)
    <3>1. PICK w \in Workers : tasks[w] # None /\ Will(tasks[w], jobs, u)
      BY <2>2 DEF Steady
    <3>2. w # k /\ tasks'[w] = tasks[w]
      BY <1>2, <2>2, <3>1 DEF Slots
    <3>3. Works(tasks[w], jobs, shown, CurrentRoot)
      BY <3>1 DEF Steady
    <3>4. Will(tasks[w], jobs', u)
      BY <3>1, <3>3, WorksStill
    <3> QED
      BY <3>1, <3>2, <3>4
  <2> QED
    BY <1>6, <2>1, <2>2
<1> QED
  BY <1>1, <1>3, <1>4, <1>5, <1>6 DEF Steady

(* A request or a poll starts.                                             *)
LEMMA WorkerStarts ==
  ASSUME OutInv, Steady, ~crossed', NEW k \in Workers, NEW t, t # None, Start(k, t),
         UNCHANGED <<rotationVars, outbox>>,
         Tidy(regs, jobs, shown, CurrentRoot) => Works(t, jobs, shown, CurrentRoot)
  PROVE  Steady'
<1>1. /\ UNCHANGED <<identity, rots, regs, jobs, shown>> /\ CurrentRoot' = CurrentRoot
      /\ tasks[k] = None /\ tasks'[k] = t /\ \A i \in Slots \ {k} : tasks'[i] = tasks[i]
  BY RootStays DEF Start, rotationVars, identity, outbox, OutInv, TypeOK, Slots
<1>2. \A r \in Rotators : ~Unannounced(r)
  BY DEF Start
<1>3. ASSUME NEW r \in Rotators PROVE tasks'[r] = None /\ ~Appended(r)' /\ ~Unannounced(r)'
  <2>1. r \in Slots \ {k} /\ tasks[r] = None /\ ~Appended(r)
    BY <1>2, UnannouncedBy, SlotsApart DEF Slots
  <2>2. tasks'[r] = None /\ ~Appended(r)'
    BY <1>1, <2>1 DEF Appended
  <2> QED
    BY <2>2 DEF Unannounced, Appended
<1>4. Alone'
  BY <1>3 DEF Alone
<1>5. Tidy(regs, jobs, shown, CurrentRoot)
  BY <1>2 DEF Steady
<1>6. ASSUME NEW w \in Workers, tasks'[w] # None
      PROVE  Works(tasks'[w], jobs, shown, CurrentRoot)
  <2>1. CASE w = k
    BY <1>1, <1>5, <2>1
  <2>2. CASE w # k
    BY <1>1, <1>6, <2>2 DEF Slots, Steady
  <2> QED
    BY <2>1, <2>2
<1>7. ASSUME NEW u \in Urls, regs[u] = "pending"
      PROVE  Awaited(jobs, u) \/ \E w \in Workers : tasks'[w] # None /\ Will(tasks'[w], jobs, u)
  <2>1. ASSUME NEW w \in Workers, tasks[w] # None PROVE tasks'[w] = tasks[w]
    BY <1>1, <2>1 DEF Slots
  <2> QED
    BY <1>7, <2>1 DEF Steady
<1> QED
  BY <1>1, <1>3, <1>4, <1>5, <1>6, <1>7 DEF Steady

(* An announcement moves on (t None: it is over).                          *)
LEMMA AnnouncerKeeps ==
  ASSUME OutInv, Steady, NEW k \in Rotators, tasks[k] # None, UNCHANGED <<identity, rots>>,
         NEW t, tasks' = [tasks EXCEPT ![k] = t],
         t # None => Announces(t, regs', jobs', CurrentRoot),
         t = None => Tidy(regs', jobs', shown', CurrentRoot),
         \A u \in Urls : regs'[u] = "pending" => Awaited(jobs', u)
  PROVE  Steady'
<1>1. CurrentRoot' = CurrentRoot
  BY RootStays DEF identity
<1>2. tasks'[k] = t /\ \A i \in Slots \ {k} : tasks'[i] = tasks[i]
  BY DEF OutInv, TypeOK, Slots
<1>3. \A w \in Workers : tasks'[w] = None
  BY <1>2, AnnouncerAlone, SlotsApart DEF Slots
<1>4. \A r \in Rotators : ~Appended(r)'
  BY AnnouncerAlone DEF Appended
<1>5. \A r \in Rotators \ {k} : tasks'[r] = None
  BY <1>2, AnnouncerAlone DEF Slots
<1>6. \A r \in Rotators : Unannounced(r)' <=> tasks'[r] # None
  BY <1>4 DEF Unannounced, Appended
<1>7. Alone'
  BY <1>3, <1>4, <1>5, <1>6 DEF Alone
<1>8. t # None => Unannounced(k)'
  BY <1>2, <1>6
<1> QED
  BY <1>1, <1>2, <1>3, <1>5, <1>7, <1>8 DEF Steady

-----------------------------------------------------------------------------
(* A job changes in place: its signature gets no older, and if it may      *)
(* still be sent, is of the root.                                          *)
LEMMA JobTurns ==
  ASSUME OutInv, Clean(jobs, CurrentRoot), NEW j \in DOMAIN jobs, NEW new,
         jobs' = [jobs EXCEPT ![j] = new],
         new.url = jobs[j].url, new.action = jobs[j].action,
         jobs[j].sig \in {None, CurrentRoot} => new.sig \in {None, CurrentRoot},
         new.status \in {"pending", "failed"} /\ new.action = "update"
           => new.sig \in {None, CurrentRoot}
  PROVE  /\ Apart /\ Clean(jobs', CurrentRoot)
         /\ \A u : Awaited(jobs, u) =>
              Awaited(jobs', u) \/ (new.status = "completed" /\ new.action = "update" /\ u = new.url)
<1>1. DOMAIN jobs' = DOMAIN jobs /\ jobs'[j] = new /\ \A i \in DOMAIN jobs \ {j} : jobs'[i] = jobs[i]
  BY JobType DEF OutInv, TypeOK
<1> QED
  BY <1>1 DEF Apart, Clean, Awaited

LEMMA JobAdded ==
  ASSUME OutInv, NEW u \in Urls, NEW action \in {"update", "delete"}, Enqueue(action, u)
  PROVE  /\ Apart
         /\ Clean(jobs, CurrentRoot) => Clean(jobs', CurrentRoot)
         /\ \A v : Awaited(jobs, v) => Awaited(jobs', v)
         /\ action = "update" => Awaited(jobs', u)
<1> DEFINE n == Len(jobs) + 1
<1>1. /\ DOMAIN jobs = 1..Len(jobs) /\ Len(jobs) \in Nat /\ DOMAIN jobs' = 1..n
      /\ \A i \in DOMAIN jobs : jobs'[i] = jobs[i]
      /\ jobs'[n] = [action |-> action, url |-> u, status |-> "pending", attempts |-> 0, sig |-> None]
  BY JobType DEF Enqueue, OutInv, TypeOK
<1>2. n \in DOMAIN jobs' /\ \A i \in DOMAIN jobs' : i \in DOMAIN jobs \/ i = n
  BY <1>1
<1>3. /\ jobs'[n].action = action /\ jobs'[n].url = u
      /\ jobs'[n].status = "pending" /\ jobs'[n].sig = None
  BY <1>1
<1>4. \A i \in DOMAIN jobs : i \in DOMAIN jobs'
  BY <1>1
<1> HIDE DEF n
<1> QED
  BY <1>1, <1>2, <1>3, <1>4 DEF Apart, Clean, Awaited

LEMMA JobsStay ==
  ASSUME UNCHANGED jobs
  PROVE  /\ Apart /\ \A root : Clean(jobs', root) <=> Clean(jobs, root)
         /\ \A u : Awaited(jobs', u) <=> Awaited(jobs, u)
BY DEF Apart

-----------------------------------------------------------------------------
(* The steps of requests and polls.                                        *)
LEMMA RegistrySteady ==
  ASSUME OutInv, Steady, NEW k \in Workers, InsertRegistry(k) \/ DropRegistry(k)
  PROVE  Steady'
<1> DEFINE u == tasks[k].url
<1>1. k \in Slots /\ tasks[k] # None /\ tasks[k].stage \in {"insert", "drop"}
  BY DEF InsertRegistry, DropRegistry, At, Slots
<1>2. tasks[k] \in Task /\ u \in Urls
  BY <1>1, TaskType DEF Knows
<1>3. UNCHANGED <<identity, rots, jobs, shown>>
  BY DEF InsertRegistry, DropRegistry, rotationVars
<1>4. /\ Tidy(regs, jobs, shown, CurrentRoot) /\ Works(tasks[k], jobs, shown, CurrentRoot)
      /\ Apart
  BY <1>1, <1>3, WorkerAlone, JobsStay
<1>5. \A v : ~Will(tasks[k], jobs, v)
  BY <1>1 DEF Will
<1>6. CASE Done(k) /\ UNCHANGED regs
  BY <1>1, <1>3, <1>4, <1>5, <1>6, WorkerKeeps DEF Done
<1>7. CASE Done(k) /\ regs' = [regs EXCEPT ![u] = None]
  <2>1. \A v \in Urls : regs'[v] = None \/ regs'[v] = regs[v]
    BY <1>7 DEF OutInv, TypeOK
  <2>2. Tidy(regs', jobs', shown', CurrentRoot)
    BY <1>3, <1>4, <2>1, OutboxNone DEF Tidy
  <2>3. \A v \in Urls : regs'[v] = "pending" => regs[v] = "pending"
    BY <2>1, OutboxNone
  <2> QED
    BY <1>1, <1>3, <1>4, <1>5, <1>7, <2>2, <2>3, WorkerKeeps DEF Done
<1>8. CASE tasks[k].stage = "insert" /\ Goto(k, "enqueue") /\ regs' = [regs EXCEPT ![u] = "pending"]
  <2> DEFINE t == [tasks[k] EXCEPT !.stage = "enqueue"]
  <2>1. /\ t.stage = "enqueue" /\ t.kind = tasks[k].kind /\ t.url = u /\ t.root = tasks[k].root
        /\ t.batch = tasks[k].batch
    BY <1>2 DEF Task
  <2>2. tasks' = [tasks EXCEPT ![k] = t]
    BY <1>8 DEF Goto
  <2>3. t # None
    <3>1. t \in Task
      BY <1>2 DEF Task, Stages
    <3> QED
      BY <3>1, OutboxTasks
  <2> HIDE DEF t
  <2>4. Works(t, jobs', shown', CurrentRoot) /\ Will(t, jobs', u)
    BY <1>3, <1>4, <1>8, <2>1 DEF Works, Will
  <2>5. \A v \in Urls \ {u} : regs'[v] = regs[v]
    BY <1>8 DEF OutInv, TypeOK
  <2>6. regs'[u] = "pending"
    BY <1>2, <1>8 DEF OutInv, TypeOK
  <2>7. Tidy(regs', jobs', shown', CurrentRoot)
    BY <1>3, <1>4, <2>5, <2>6 DEF Tidy
  <2>8. ASSUME NEW v \in Urls, regs'[v] = "pending"
        PROVE  \/ Awaited(jobs', v)
               \/ t # None /\ Will(t, jobs', v)
               \/ regs[v] = "pending" /\ ~Awaited(jobs, v) /\ ~Will(tasks[k], jobs, v)
    BY <1>3, <1>5, <2>3, <2>4, <2>5, <2>8
  <2> QED
    BY <1>1, <1>3, <1>4, <2>2, <2>4, <2>7, <2>8, WorkerKeeps
<1> QED
  BY <1>6, <1>7, <1>8 DEF InsertRegistry, DropRegistry, At

LEMMA NextWorks ==
  ASSUME OutInv, Apart, NEW k \in Workers, tasks[k] # None, tasks[k].stage # "write",
         Works(tasks[k], jobs, shown, CurrentRoot), NextJob(k)
  PROVE  \E t : tasks' = [tasks EXCEPT ![k] = t] /\ Works(t, jobs', shown', CurrentRoot)
<1> DEFINE rest == tasks[k].batch \ {InHand(k)}
           t == [tasks[k] EXCEPT !.stage = "next", !.batch = rest]
<1>1. k \in Slots /\ tasks[k] \in Task /\ \A c \in tasks[k].batch : c.job \in DOMAIN jobs
  BY TaskType DEF Slots, Knows
<1>2. tasks' = [tasks EXCEPT ![k] = t]
  BY <1>1 DEF NextJob, OutInv, TypeOK, Task
<1>3. /\ t.stage = "next" /\ t.batch = rest /\ t.kind = tasks[k].kind /\ t.root = tasks[k].root
  BY <1>1 DEF Task
<1> HIDE DEF t
<1>4. Works(t, jobs', shown', CurrentRoot)
  BY <1>1, <1>3 DEF Works, Apart
<1> QED
  BY <1>2, <1>4

LEMMA GotoWorks ==
  ASSUME OutInv, Apart, NEW k \in Workers, tasks[k] # None, tasks[k].stage # "write",
         Works(tasks[k], jobs, shown, CurrentRoot),
         NEW stage \in Stages \ {"insert", "write"}, Goto(k, stage),
         LET c == InHand(k)
         IN /\ stage = "post" => c.sig # None
            /\ stage = "synced" => jobs'[c.job].action = "update"
            /\ stage \in {"complete", "synced"} =>
                 (jobs'[c.job].action = "update" => shown'[jobs'[c.job].url] = CurrentRoot)
  PROVE  \E t : /\ tasks' = [tasks EXCEPT ![k] = t] /\ Works(t, jobs', shown', CurrentRoot)
                /\ t # None /\ t.stage = stage /\ t.kind = tasks[k].kind
                /\ t.batch = tasks[k].batch /\ t.url = tasks[k].url
<1> DEFINE t == [tasks[k] EXCEPT !.stage = stage]
<1>1. k \in Slots /\ tasks[k] \in Task /\ \A c \in tasks[k].batch : c.job \in DOMAIN jobs
  BY TaskType DEF Slots, Knows
<1>2. tasks' = [tasks EXCEPT ![k] = t]
  BY DEF Goto
<1>3. /\ t \in Task /\ t.stage = stage /\ t.batch = tasks[k].batch /\ t.kind = tasks[k].kind
      /\ t.root = tasks[k].root /\ t.url = tasks[k].url
  BY <1>1 DEF Task
<1>4. InHand(k) = Chosen(tasks[k].batch)
  BY DEF InHand, Chosen
<1> HIDE DEF t
<1>5. Works(t, jobs', shown', CurrentRoot)
  BY <1>1, <1>3, <1>4 DEF Works, Apart
<1> QED
  BY <1>2, <1>3, <1>5, OutboxTasks

(* A step that only reads.                                                 *)
LEMMA WorkerReads ==
  ASSUME OutInv, Steady, NEW k \in Workers, tasks[k] # None,
         tasks[k].stage \notin {"enqueue", "synced"},
         UNCHANGED <<identity, rots, regs, jobs, shown>>,
         NEW t, tasks' = [tasks EXCEPT ![k] = t],
         t # None => Works(t, jobs, shown, CurrentRoot)
  PROVE  Steady'
<1>1. Tidy(regs', jobs', shown', CurrentRoot) /\ Apart
  BY WorkerAlone, JobsStay
<1>2. \A u : ~Will(tasks[k], jobs, u)
  BY DEF Will
<1>3. t # None => Works(t, jobs', shown', CurrentRoot)
  OBVIOUS
<1>4. ASSUME NEW u \in Urls, regs'[u] = "pending"
      PROVE  \/ Awaited(jobs', u)
             \/ regs[u] = "pending" /\ ~Awaited(jobs, u) /\ ~Will(tasks[k], jobs, u)
  BY <1>2, <1>4
<1> QED
  BY <1>1, <1>3, <1>4, WorkerKeeps

LEMMA ReadSteady ==
  ASSUME OutInv, Steady, NEW k \in Workers, ReadActive(k) \/ EndBatch(k)
  PROVE  Steady'
<1>1. k \in Slots /\ tasks[k] # None /\ tasks[k].stage \in {"active", "next"}
      /\ UNCHANGED <<identity, rots, regs, jobs, shown>>
  BY DEF ReadActive, EndBatch, At, Slots, rotationVars, outbox
<1>2. CASE EndBatch(k)
  BY <1>1, <1>2, WorkerReads DEF EndBatch, Done
<1>3. CASE ReadActive(k)
  <2> DEFINE batch == Snapshot({j \in DOMAIN jobs : Active(j)})
             t == [tasks[k] EXCEPT !.stage = "next", !.batch = batch]
  <2>1. \A c \in batch : c.job \in DOMAIN jobs /\ Active(c.job) /\ c.sig = jobs[c.job].sig
    BY DEF Snapshot
  <2>2. tasks' = [tasks EXCEPT ![k] = t]
    BY <1>3 DEF ReadActive
  <2> HIDE DEF batch
  <2>3. /\ t.stage = "next" /\ t.kind = tasks[k].kind /\ t.root = tasks[k].root /\ t.batch = batch
    BY <1>1, TaskType DEF Task
  <2> HIDE DEF t
  <2>4. Works(tasks[k], jobs, shown, CurrentRoot) /\ Clean(jobs, CurrentRoot)
    BY <1>1, WorkerAlone DEF Tidy
  <2>5. Works(t, jobs, shown, CurrentRoot)
    BY <1>1, <2>1, <2>3, <2>4 DEF Works, Clean, Active
  <2> QED
    BY <1>1, <2>2, <2>5, WorkerReads
<1> QED
  BY <1>2, <1>3

(* pushJob loads the chain; a failed call is not a calm outbox's.          *)
LEMMA ChainSteady ==
  ASSUME OutInv, Steady, NEW k \in Workers, LoadChain(k), faults' = 0
  PROVE  Steady'
<1>1. /\ k \in Slots /\ tasks[k] # None /\ tasks[k].stage = "next" /\ tasks[k].batch # {}
      /\ InHand(k).sig # None /\ UNCHANGED <<identity, rots, regs, jobs, shown>>
  BY DEF LoadChain, At, Slots, outbox
<1>2. ~Fault
  BY DEF Fault, OutInv, IInv, RotationTypeOK
<1> DEFINE t == [tasks[k] EXCEPT !.stage = "post", !.head = CurrentRoot]
<1>3. tasks' = [tasks EXCEPT ![k] = t]
  BY <1>2 DEF LoadChain
<1>4. /\ t.stage = "post" /\ t.kind = tasks[k].kind /\ t.root = tasks[k].root
      /\ t.batch = tasks[k].batch
  BY <1>1, TaskType DEF Task
<1> HIDE DEF t
<1>5. Works(tasks[k], jobs, shown, CurrentRoot) /\ InHand(k) = Chosen(tasks[k].batch)
  BY <1>1, WorkerAlone DEF InHand, Chosen
<1>6. Works(t, jobs, shown, CurrentRoot)
  BY <1>1, <1>4, <1>5 DEF Works
<1> QED
  BY <1>1, <1>3, <1>6, WorkerReads

LEMMA EnqueueSteady ==
  ASSUME OutInv, Steady, NEW k \in Workers, EnqueueAsked(k)
  PROVE  Steady'
<1> DEFINE u == tasks[k].url
<1>1. k \in Slots /\ tasks[k] # None /\ tasks[k].stage = "enqueue"
      /\ UNCHANGED <<identity, rots, regs, shown>>
  BY DEF EnqueueAsked, At, Slots, rotationVars
<1>2. tasks[k] \in Task /\ u \in Urls
  BY <1>1, TaskType DEF Knows
<1>3. Tidy(regs, jobs, shown, CurrentRoot) /\ Works(tasks[k], jobs, shown, CurrentRoot)
  BY <1>1, WorkerAlone
<1>4. ASSUME NEW action \in {"update", "delete"}, Enqueue(action, u)
      PROVE  Apart /\ Tidy(regs', jobs', shown', CurrentRoot)
             /\ \A v : Awaited(jobs, v) => Awaited(jobs', v)
  BY <1>1, <1>2, <1>3, <1>4, JobAdded DEF Tidy
<1>5. CASE tasks[k].kind = "add"
  <2>1. Enqueue("update", u) /\ Done(k)
    BY <1>5 DEF EnqueueAsked
  <2>2. Awaited(jobs', u)
    BY <1>2, <2>1, JobAdded
  <2>3. \A v : Will(tasks[k], jobs, v) => v = u
    BY <1>1 DEF Will
  <2> QED
    BY <1>1, <1>4, <2>1, <2>2, <2>3, WorkerKeeps DEF Done
<1>6. CASE tasks[k].kind # "add"
  <2>1. Enqueue("delete", u) /\ Goto(k, "drop")
    BY <1>6 DEF EnqueueAsked
  <2>2. Apart /\ Tidy(regs', jobs', shown', CurrentRoot) /\ \A v : Awaited(jobs, v) => Awaited(jobs', v)
    BY <1>4, <2>1
  <2>3. PICK t : tasks' = [tasks EXCEPT ![k] = t] /\ Works(t, jobs', shown', CurrentRoot)
    BY <1>1, <1>3, <2>1, <2>2, GotoWorks DEF Stages
  <2>4. \A v : ~Will(tasks[k], jobs, v)
    BY <1>1, <1>6 DEF Will
  <2> QED
    BY <1>1, <2>2, <2>3, <2>4, WorkerKeeps
<1> QED
  BY <1>5, <1>6

(* A handler writes to the job it has in hand: what the job becomes is no  *)
(* older than what the handler read.                                       *)
LEMMA HandTurns ==
  ASSUME OutInv, Steady, NEW k \in Workers, tasks[k] # None, tasks[k].batch # {},
         tasks[k].kind # "cancel",
         jobs' = [jobs EXCEPT ![InHand(k).job] = jobs'[InHand(k).job]],
         LET old == jobs[InHand(k).job]
             new == jobs'[InHand(k).job]
         IN /\ new.sig \in {old.sig, tasks[k].root}
            /\ new.url = old.url /\ new.action = old.action
  PROVE  /\ Apart /\ Clean(jobs', CurrentRoot)
         /\ \A u : Awaited(jobs, u) =>
              \/ Awaited(jobs', u)
              \/ LET new == jobs'[InHand(k).job]
                 IN new.status = "completed" /\ new.action = "update" /\ u = new.url
<1> DEFINE j == InHand(k).job
           new == jobs'[j]
<1>1. InHand(k) \in tasks[k].batch /\ j \in DOMAIN jobs
  BY InHandIsRead
<1>2. Works(tasks[k], jobs, shown, CurrentRoot) /\ Clean(jobs, CurrentRoot)
  BY WorkerAlone DEF Tidy
<1>3. jobs[j].action = "update" => new.sig \in {None, CurrentRoot}
  BY <1>1, <1>2 DEF Works
<1>4. jobs[j].sig \in {None, CurrentRoot} => new.sig \in {None, CurrentRoot}
  BY <1>2 DEF Works
<1>5. jobs' = [jobs EXCEPT ![j] = new] /\ new.url = jobs[j].url /\ new.action = jobs[j].action
  OBVIOUS
<1> HIDE DEF j, new
<1>6. /\ Apart /\ Clean(jobs', CurrentRoot)
      /\ \A u : Awaited(jobs, u) =>
           Awaited(jobs', u) \/ (new.status = "completed" /\ new.action = "update" /\ u = new.url)
  <2>1. /\ jobs[j].sig \in {None, CurrentRoot} => new.sig \in {None, CurrentRoot}
        /\ new.status \in {"pending", "failed"} /\ new.action = "update"
             => new.sig \in {None, CurrentRoot}
    BY <1>3, <1>4, <1>5, Zenon
  <2>2. OutInv /\ Clean(jobs, CurrentRoot) /\ j \in DOMAIN jobs
    BY <1>1, <1>2 DEF j
  <2> QED
    BY <1>5, <2>1, <2>2, JobTurns, Zenon
<1>7. ASSUME NEW u, Awaited(jobs, u), ~Awaited(jobs', u)
      PROVE  new.status = "completed" /\ new.action = "update" /\ u = new.url
  BY <1>6, <1>7, Zenon
<1>8. \A u : Awaited(jobs, u) =>
        \/ Awaited(jobs', u)
        \/ new.status = "completed" /\ new.action = "update" /\ u = new.url
  BY <1>7, Zenon
<1> QED
  <2>1. Apart /\ Clean(jobs', CurrentRoot)
    BY <1>6, Zenon
  <2> QED
    BY <1>8, <2>1, Zenon DEF j, new

LEMMA StatusSteady ==
  ASSUME OutInv, Steady, NEW k \in Workers, WriteStatus(k)
  PROVE  Steady'
<1> DEFINE j == InHand(k).job
           status == IF tasks[k].kind = "retry" THEN "pending" ELSE "cancelled"
           new == [jobs[j] EXCEPT !.status = status]
<1>1. k \in Slots /\ tasks[k] # None /\ tasks[k].stage = "write"
      /\ UNCHANGED <<identity, rots, regs, shown>>
  BY DEF WriteStatus, At, Slots, rotationVars
<1>2. tasks[k].batch # {} /\ j \in DOMAIN jobs /\ jobs[j] \in Job
  BY <1>1, ChosenIsRead DEF Holding
<1>3. jobs' = [jobs EXCEPT ![j] = new] /\ tasks' = [tasks EXCEPT ![k] = None]
  BY DEF WriteStatus, Done
<1>4. /\ new.url = jobs[j].url /\ new.action = jobs[j].action /\ new.sig = jobs[j].sig
      /\ new.status = status
  BY <1>2 DEF Job
<1>5. Tidy(regs, jobs, shown, CurrentRoot) /\ Works(tasks[k], jobs, shown, CurrentRoot)
  BY <1>1, WorkerAlone
<1> HIDE DEF new
<1>6. Apart /\ Clean(jobs', CurrentRoot) /\ \A u : Awaited(jobs, u) => Awaited(jobs', u)
  <2>1. CASE tasks[k].kind = "cancel"
    <3>1. new.status = "cancelled" /\ Clean(jobs, CurrentRoot)
      BY <1>4, <1>5, <2>1 DEF Tidy
    <3>2. jobs[j].sig \in {None, CurrentRoot} => new.sig \in {None, CurrentRoot}
      BY <1>4
    <3>3. /\ new.url = jobs[j].url /\ new.action = jobs[j].action
          /\ new.status \notin {"pending", "failed", "completed"}
      BY <1>4, <3>1
    <3> HIDE DEF j, status
    <3> QED
      BY <1>2, <1>3, <3>1, <3>2, <3>3, JobTurns
  <2>2. CASE tasks[k].kind # "cancel"
    <3>1. new.status # "completed" /\ new.sig \in {jobs[j].sig, tasks[k].root}
      BY <1>4
    <3>2. new.url = jobs[j].url /\ new.action = jobs[j].action
      BY <1>4
    <3> HIDE DEF status
    <3>3. jobs'[j] = new
      BY <1>2, <1>3 DEF OutInv, TypeOK
    <3> QED
      BY <1>1, <1>2, <1>3, <2>2, <3>1, <3>2, <3>3, HandTurns
  <2> QED
    BY <2>1, <2>2
<1>7. \A u : ~Will(tasks[k], jobs, u)
  BY <1>1 DEF Will
<1>8. Tidy(regs', jobs', shown', CurrentRoot)
  BY <1>1, <1>5, <1>6 DEF Tidy
<1> QED
  BY <1>1, <1>3, <1>6, <1>7, <1>8, WorkerKeeps

LEMMA FailedSteady ==
  ASSUME OutInv, Steady, NEW k \in Workers, MarkFailed(k)
  PROVE  Steady'
<1> DEFINE j == InHand(k).job
           tried == IF InHand(k).attempts < MaxAttempts THEN InHand(k).attempts + 1
                    ELSE MaxAttempts
           status == IF tried = MaxAttempts THEN "failed" ELSE "pending"
           new == [jobs[j] EXCEPT !.attempts = tried, !.status = status]
<1>1. k \in Slots /\ tasks[k] # None /\ tasks[k].stage = "fail"
      /\ UNCHANGED <<identity, rots, regs, shown>>
  BY DEF MarkFailed, At, Slots, rotationVars
<1>2. tasks[k].batch # {} /\ j \in DOMAIN jobs /\ jobs[j] \in Job
  BY <1>1, ChosenIsRead DEF Holding
<1>3. jobs' = [jobs EXCEPT ![j] = new]
  BY DEF MarkFailed
<1>4. /\ new.url = jobs[j].url /\ new.action = jobs[j].action /\ new.sig = jobs[j].sig
      /\ new.status # "completed"
  <2>1. status # "completed"
    OBVIOUS
  <2> HIDE DEF j, tried, status
  <2> QED
    BY <1>2, <2>1 DEF Job
<1>5. Tidy(regs, jobs, shown, CurrentRoot) /\ Works(tasks[k], jobs, shown, CurrentRoot)
  BY <1>1, WorkerAlone
<1>6. tasks[k].kind # "cancel"
  BY <1>1, <1>5 DEF Works
<1> HIDE DEF new
<1>7. Apart /\ Clean(jobs', CurrentRoot) /\ \A u : Awaited(jobs, u) => Awaited(jobs', u)
  <2>1. new.sig \in {jobs[j].sig, tasks[k].root}
    BY <1>4
  <2>2. jobs'[j] = new
    BY <1>2, <1>3 DEF OutInv, TypeOK
  <2> QED
    BY <1>1, <1>2, <1>3, <1>4, <1>6, <2>1, <2>2, HandTurns
<1>8. PICK t : tasks' = [tasks EXCEPT ![k] = t] /\ Works(t, jobs', shown', CurrentRoot)
  <2>1. Goto(k, "error") \/ NextJob(k)
    BY DEF MarkFailed
  <2> QED
    BY <1>1, <1>5, <1>7, <2>1, GotoWorks, NextWorks DEF Stages
<1>9. \A u : ~Will(tasks[k], jobs, u)
  BY <1>1 DEF Will
<1>10. Tidy(regs', jobs', shown', CurrentRoot)
  BY <1>1, <1>5, <1>7 DEF Tidy
<1> QED
  BY <1>1, <1>7, <1>8, <1>9, <1>10, WorkerKeeps

LEMMA SaveSteady ==
  ASSUME OutInv, Steady, NEW k \in Workers, SaveSignature(k)
  PROVE  Steady'
<1> DEFINE c == InHand(k)
           j == c.job
           new == [jobs[j] EXCEPT !.sig = tasks[k].root]
           signed == [c EXCEPT !.sig = tasks[k].root]
           batch == (tasks[k].batch \ {c}) \cup {signed}
           t == [tasks[k] EXCEPT !.batch = batch]
<1>1. k \in Slots /\ tasks[k] # None /\ tasks[k].stage = "next" /\ tasks[k].batch # {}
      /\ UNCHANGED <<identity, rots, regs, shown>>
  BY DEF SaveSignature, At, Slots, rotationVars
<1>2. /\ tasks[k] \in Task /\ \A d \in tasks[k].batch : d.job \in DOMAIN jobs
      /\ c \in Copy /\ j \in DOMAIN jobs /\ jobs[j] \in Job
  BY <1>1, TaskType, InHandIsRead, JobType DEF Knows, OutInv, Slots
<1>3. jobs' = [jobs EXCEPT ![j] = new] /\ tasks' = [tasks EXCEPT ![k] = t]
  BY DEF SaveSignature
<1>4. /\ new.url = jobs[j].url /\ new.action = jobs[j].action /\ new.sig = tasks[k].root
      /\ new.status = jobs[j].status
  BY <1>2 DEF Job
<1>5. Tidy(regs, jobs, shown, CurrentRoot) /\ Works(tasks[k], jobs, shown, CurrentRoot)
  BY <1>1, WorkerAlone
<1>6. tasks[k].kind # "cancel" /\ tasks[k].root \in {None, CurrentRoot}
  BY <1>1, <1>5 DEF Works
<1>7. signed.job = j /\ signed.sig = tasks[k].root
  BY <1>2 DEF Copy
<1>8. /\ t.stage = "next" /\ t.kind = tasks[k].kind /\ t.root = tasks[k].root /\ t.batch = batch
  BY <1>1, <1>2 DEF Task
<1> HIDE DEF new, t, signed
<1>9. Apart /\ Clean(jobs', CurrentRoot) /\ \A u : Awaited(jobs, u) => Awaited(jobs', u)
  <2>1. Clean(jobs, CurrentRoot)
    BY <1>5 DEF Tidy
  <2>2. \A u : Awaited(jobs, u) => \E i \in DOMAIN jobs :
          jobs[i].action = "update" /\ jobs[i].url = u /\ jobs[i].status # "completed"
    BY DEF Awaited
  <2>3. /\ DOMAIN jobs' = DOMAIN jobs /\ jobs'[j] = new
        /\ \A i \in DOMAIN jobs \ {j} : jobs'[i] = jobs[i]
    BY <1>2, <1>3, JobType DEF OutInv, TypeOK
  <2> HIDE DEF j
  <2>4. Apart /\ Clean(jobs', CurrentRoot)
    BY <1>4, <1>6, <2>1, <2>3 DEF Apart, Clean
  <2>5. \A u : Awaited(jobs, u) => Awaited(jobs', u)
    BY <1>4, <2>3 DEF Awaited
  <2> QED
    BY <2>4, <2>5
<1>10. Works(t, jobs', shown', CurrentRoot)
  <2>1. \A d \in batch : d = signed \/ d \in tasks[k].batch
    OBVIOUS
  <2>2. \A d \in tasks[k].batch : jobs'[d.job].action = "update" =>
          d.sig \in {None, CurrentRoot} /\ jobs'[d.job].sig \in {None, CurrentRoot}
    BY <1>2, <1>5, <1>6, <1>9 DEF Works, Apart
  <2>3. jobs'[j].sig \in {None, CurrentRoot}
    <3>1. jobs'[j] = new
      BY <1>2, <1>3 DEF OutInv, TypeOK
    <3> QED
      BY <1>4, <1>6, <3>1
  <2> HIDE DEF batch, j
  <2> QED
    BY <1>5, <1>6, <1>7, <1>8, <2>1, <2>2, <2>3 DEF Works
<1>11. \A u : ~Will(tasks[k], jobs, u)
  BY <1>1 DEF Will
<1>12. Tidy(regs', jobs', shown', CurrentRoot)
  BY <1>1, <1>5, <1>9 DEF Tidy
<1> QED
  BY <1>1, <1>3, <1>9, <1>10, <1>11, <1>12, WorkerKeeps

(* A registry accepts what was signed by the root, and shows it from then. *)
LEMMA PostSteady ==
  ASSUME OutInv, Steady, NEW k \in Workers, Post(k)
  PROVE  Steady'
<1> DEFINE c == InHand(k)
           b == jobs[c.job]
<1>1. k \in Slots /\ tasks[k] # None /\ tasks[k].stage = "post"
      /\ UNCHANGED <<identity, rots, regs, jobs>>
  BY DEF Post, At, Slots, rotationVars
<1>2. c \in tasks[k].batch /\ c = Chosen(tasks[k].batch) /\ b \in Job /\ b.url \in Urls
  BY <1>1, ChosenIsRead DEF Holding, Job
<1>3. Tidy(regs, jobs, shown, CurrentRoot) /\ Works(tasks[k], jobs, shown, CurrentRoot)
  BY <1>1, WorkerAlone
<1>4. b.action = "update" => c.sig = CurrentRoot
  BY <1>1, <1>2, <1>3 DEF Works
<1>5. \/ UNCHANGED shown /\ Goto(k, "fail")
      \/ /\ shown' = IF b.action = "update" THEN [shown EXCEPT ![b.url] = c.sig] ELSE shown
         /\ Goto(k, "complete") \/ Goto(k, "fail")
  BY DEF Post, Accept
<1>6. /\ \A u \in Urls : shown[u] = CurrentRoot => shown'[u] = CurrentRoot
      /\ Goto(k, "complete") => (b.action = "update" => shown'[b.url] = CurrentRoot)
  <2>1. CASE UNCHANGED shown /\ Goto(k, "fail")
    <3>1. ~Goto(k, "complete")
      <4>1. tasks'[k].stage = "fail"
        BY <1>1, <2>1, TaskType DEF Goto, OutInv, TypeOK, Task, Slots
      <4>2. Goto(k, "complete") => tasks'[k].stage = "complete"
        BY <1>1, TaskType DEF Goto, OutInv, TypeOK, Task, Slots
      <4> QED
        BY <4>1, <4>2
    <3> QED
      BY <2>1, <3>1
  <2>2. CASE shown' = IF b.action = "update" THEN [shown EXCEPT ![b.url] = c.sig] ELSE shown
    <3>1. shown \in [Urls -> Roots \cup {None}]
      BY DEF OutInv, TypeOK
    <3> HIDE DEF b, c
    <3> QED
      BY <1>2, <1>4, <2>2, <3>1
  <2> QED
    BY <1>5, <2>1, <2>2
<1>7. Apart /\ Tidy(regs', jobs', shown', CurrentRoot)
  BY <1>1, <1>3, <1>6, JobsStay DEF Tidy
<1>8. PICK t : tasks' = [tasks EXCEPT ![k] = t] /\ Works(t, jobs', shown', CurrentRoot)
  <2>1. CASE Goto(k, "complete")
    BY <1>1, <1>3, <1>6, <1>7, <2>1, GotoWorks DEF Stages
  <2>2. CASE Goto(k, "fail")
    BY <1>1, <1>3, <1>7, <2>2, GotoWorks DEF Stages
  <2> QED
    BY <1>5, <2>1, <2>2
<1>9. \A u : ~Will(tasks[k], jobs, u) /\ (Awaited(jobs', u) <=> Awaited(jobs, u))
  BY <1>1, JobsStay DEF Will
<1> QED
  BY <1>1, <1>6, <1>7, <1>8, <1>9, WorkerKeeps

LEMMA CompletedSteady ==
  ASSUME OutInv, Steady, NEW k \in Workers, MarkCompleted(k), faults' = 0
  PROVE  Steady'
<1> DEFINE j == InHand(k).job
           new == [jobs[j] EXCEPT !.status = "completed"]
<1>1. k \in Slots /\ tasks[k] # None /\ tasks[k].stage = "complete"
      /\ UNCHANGED <<identity, rots, regs, shown>>
  BY DEF MarkCompleted, At, Slots
<1>2. tasks[k].batch # {} /\ j \in DOMAIN jobs /\ jobs[j] \in Job
      /\ InHand(k) = Chosen(tasks[k].batch)
  BY <1>1, ChosenIsRead DEF Holding
<1>3. ~Fault
  BY DEF Fault, OutInv, IInv, RotationTypeOK
<1>4. /\ jobs' = [jobs EXCEPT ![j] = new]
      /\ IF jobs[j].action = "update" THEN Goto(k, "synced") ELSE NextJob(k)
  BY <1>3 DEF MarkCompleted, Updates
<1>5. /\ new.url = jobs[j].url /\ new.action = jobs[j].action /\ new.sig = jobs[j].sig
      /\ new.status = "completed"
  BY <1>2 DEF Job
<1>6. Tidy(regs, jobs, shown, CurrentRoot) /\ Works(tasks[k], jobs, shown, CurrentRoot)
  BY <1>1, WorkerAlone
<1>7. /\ tasks[k].kind # "cancel"
      /\ jobs[j].action = "update" => shown[jobs[j].url] = CurrentRoot
  BY <1>1, <1>2, <1>6 DEF Works
<1> HIDE DEF new
<1>8. jobs'[j] = new
  BY <1>2, <1>4 DEF OutInv, TypeOK
<1>9. /\ Apart /\ Clean(jobs', CurrentRoot)
      /\ \A u : Awaited(jobs, u) =>
           Awaited(jobs', u) \/ (new.action = "update" /\ u = new.url)
  <2>1. new.sig \in {jobs[j].sig, tasks[k].root}
    BY <1>5
  <2> QED
    BY <1>1, <1>2, <1>4, <1>5, <1>7, <1>8, <2>1, HandTurns
<1>10. Tidy(regs', jobs', shown', CurrentRoot)
  BY <1>1, <1>6, <1>9 DEF Tidy
<1>11. \A u : ~Will(tasks[k], jobs, u)
  BY <1>1 DEF Will
<1>12. CASE jobs[j].action = "update"
  <2>1. Goto(k, "synced")
    BY <1>4, <1>12
  <2>2. jobs'[j].action = "update" /\ shown'[jobs'[j].url] = CurrentRoot
    BY <1>1, <1>5, <1>7, <1>8, <1>12
  <2>3. PICK t : /\ tasks' = [tasks EXCEPT ![k] = t] /\ Works(t, jobs', shown', CurrentRoot)
                 /\ t # None /\ t.stage = "synced" /\ t.batch = tasks[k].batch
    BY <1>1, <1>6, <1>9, <2>1, <2>2, GotoWorks DEF Stages
  <2>4. Will(t, jobs', new.url)
    BY <1>2, <1>8, <2>3 DEF Will
  <2>5. \A u \in Urls : regs'[u] = "pending" =>
          \/ Awaited(jobs', u)
          \/ t # None /\ Will(t, jobs', u)
          \/ regs[u] = "pending" /\ ~Awaited(jobs, u) /\ ~Will(tasks[k], jobs, u)
    BY <1>1, <1>9, <1>11, <2>3, <2>4
  <2> QED
    BY <1>1, <1>9, <1>10, <2>3, <2>5, WorkerKeeps
<1>13. CASE jobs[j].action # "update"
  <2>1. NextJob(k)
    BY <1>4, <1>13
  <2>2. PICK t : tasks' = [tasks EXCEPT ![k] = t] /\ Works(t, jobs', shown', CurrentRoot)
    BY <1>1, <1>6, <1>9, <2>1, NextWorks
  <2>3. \A u : Awaited(jobs, u) => Awaited(jobs', u)
    BY <1>5, <1>9, <1>13
  <2> QED
    BY <1>1, <1>9, <1>10, <1>11, <2>2, <2>3, WorkerKeeps
<1> QED
  BY <1>12, <1>13

(* A registry is called synced when it shows a record under the root.      *)
LEMMA StandingSteady ==
  ASSUME OutInv, Steady, NEW k \in Workers, MarkSynced(k) \/ MarkError(k), faults' = 0
  PROVE  Steady'
<1> DEFINE u == jobs[InHand(k).job].url
<1>1. k \in Slots /\ tasks[k] # None /\ tasks[k].stage \in {"synced", "error"}
      /\ UNCHANGED <<identity, rots, jobs, shown>>
  BY DEF MarkSynced, MarkError, At, Slots, rotationVars
<1>2. u \in Urls /\ InHand(k) = Chosen(tasks[k].batch)
  BY <1>1, ChosenIsRead DEF Holding, Job
<1>3. ~Fault
  BY DEF Fault, OutInv, IInv, RotationTypeOK
<1>4. NextJob(k) /\ \/ tasks[k].stage = "synced" /\ SetStatus(k, "synced")
                    \/ tasks[k].stage = "error" /\ SetStatus(k, "error")
  BY <1>3 DEF MarkSynced, MarkError, At
<1>5. Tidy(regs, jobs, shown, CurrentRoot) /\ Works(tasks[k], jobs, shown, CurrentRoot)
  BY <1>1, WorkerAlone
<1>6. tasks[k].stage = "synced" => shown[u] = CurrentRoot
  BY <1>2, <1>5 DEF Works
<1>7. /\ \A v \in Urls \ {u} : regs'[v] = regs[v]
      /\ \/ regs'[u] = None \/ regs'[u] = "error"
         \/ regs'[u] = "synced" /\ tasks[k].stage = "synced"
  BY <1>2, <1>4 DEF SetStatus, OutInv, TypeOK
<1>8. \A v : Will(tasks[k], jobs, v) => v = u
  BY <1>1, <1>2 DEF Will
<1>9. Apart /\ \A v : Awaited(jobs', v) <=> Awaited(jobs, v)
  BY <1>1, JobsStay
<1>10. PICK t : tasks' = [tasks EXCEPT ![k] = t] /\ Works(t, jobs', shown', CurrentRoot)
  BY <1>1, <1>4, <1>5, <1>9, NextWorks
<1> HIDE DEF u
<1>11. Tidy(regs', jobs', shown', CurrentRoot)
  BY <1>1, <1>2, <1>5, <1>6, <1>7, OutboxNone DEF Tidy
<1>12. \A v \in Urls : regs'[v] = "pending" =>
         regs[v] = "pending" /\ ~Will(tasks[k], jobs, v)
  BY <1>7, <1>8, OutboxNone
<1> QED
  BY <1>1, <1>9, <1>10, <1>11, <1>12, WorkerKeeps

LEMMA WorkSteady ==
  ASSUME OutInv, Steady, NEW k \in Workers, Work(k), faults' = 0
  PROVE  Steady'
BY RegistrySteady, EnqueueSteady, StatusSteady, ReadSteady, SaveSteady, ChainSteady,
   PostSteady, CompletedSteady, StandingSteady, FailedSteady DEF Work

-----------------------------------------------------------------------------
(* Requests and polls start.                                               *)
LEMMA AskSteady ==
  ASSUME OutInv, Steady, ~crossed', NEW k \in Requests, Ask(k)
  PROVE  Steady'
<1>0. k \in Workers
  BY DEF Workers
<1>1. ASSUME NEW t \in Task, Request(k, t),
             Tidy(regs, jobs, shown, CurrentRoot) => Works(t, jobs, shown, CurrentRoot)
      PROVE  Steady'
  BY <1>0, <1>1, WorkerStarts, OutboxTasks DEF Request
<1>2. ASSUME NEW u \in Urls, NEW kind \in {"add", "remove"}, NEW stage \in {"insert", "enqueue"},
             stage = "insert" => kind = "add",
             Request(k, [Blank(kind, stage) EXCEPT !.url = u])
      PROVE  Steady'
  <2> DEFINE b == Blank(kind, stage)
             t == [b EXCEPT !.url = u]
  <2>1. b \in Task /\ b.stage = stage /\ b.kind = kind /\ b.batch = {} /\ b.root = None
    <3>1. kind \in Kinds /\ stage \in Stages
      BY DEF Kinds, Stages
    <3>2. b.root = None
      BY DEF Blank
    <3> QED
      BY <3>1, <3>2, BlankType
  <2>2. Request(k, t)
    BY <1>2
  <2> HIDE DEF b
  <2>3. t \in Task /\ t.stage = stage /\ t.kind = kind /\ t.batch = {} /\ t.root = None
    BY <2>1 DEF Task
  <2> HIDE DEF t
  <2>4. Works(t, jobs, shown, CurrentRoot)
    BY <1>2, <2>3 DEF Works
  <2> QED
    BY <1>1, <2>2, <2>3, <2>4
<1>3. CASE StartSync(k)
  <2> DEFINE b == Blank("sync", "active")
             t == [b EXCEPT !.root = seed]
  <2>1. b \in Task /\ b.stage = "active" /\ b.kind = "sync" /\ b.batch = {}
    BY BlankType DEF Stages, Kinds, Blank
  <2>2. Request(k, t) /\ seed \in Roots \cup {None} /\ seed = CurrentRoot
    BY <1>3 DEF StartSync, OutInv, IInv, RotationTypeOK, SeedIsHead
  <2> HIDE DEF b
  <2>3. t \in Task /\ t.stage = "active" /\ t.kind = "sync" /\ t.batch = {} /\ t.root = seed
    BY <2>1, <2>2 DEF Task
  <2> HIDE DEF t
  <2>4. Works(t, jobs, shown, CurrentRoot)
    BY <2>2, <2>3 DEF Works
  <2> QED
    BY <1>1, <2>2, <2>3, <2>4
<1>4. ASSUME NEW j \in DOMAIN jobs, NEW kind \in {"retry", "cancel"},
             kind = "retry" => Active(j),
             Request(k, [Blank(kind, "write") EXCEPT !.batch = Snapshot({j})])
      PROVE  Steady'
  <2> DEFINE b == Blank(kind, "write")
             t == [b EXCEPT !.batch = Snapshot({j})]
  <2>1. b \in Task /\ b.stage = "write" /\ b.kind = kind /\ b.root = None
    <3>1. kind \in Kinds /\ "write" \in Stages
      BY DEF Kinds, Stages
    <3>2. b.root = None
      BY DEF Blank
    <3> QED
      BY <3>1, <3>2, BlankType
  <2>2. Request(k, t)
    BY <1>4
  <2>3. Snapshot({j}) \in SUBSET Copy
        /\ \A c \in Snapshot({j}) : c.job = j /\ c.sig = jobs[j].sig
    BY SnapshotType DEF OutInv, Snapshot
  <2> HIDE DEF b
  <2>4. t \in Task /\ t.stage = "write" /\ t.kind = kind /\ t.root = None /\ t.batch = Snapshot({j})
    BY <2>1, <2>3 DEF Task
  <2> HIDE DEF t
  <2>5. ASSUME Tidy(regs, jobs, shown, CurrentRoot) PROVE Works(t, jobs, shown, CurrentRoot)
    BY <1>4, <2>3, <2>4, <2>5 DEF Works, Tidy, Clean, Active
  <2> QED
    BY <1>1, <2>2, <2>4, <2>5
<1>5. ASSUME NEW u \in Urls, StartAdd(k, u) \/ StartRemove(k, u) PROVE Steady'
  BY <1>2, <1>5 DEF StartAdd, StartRemove
<1>6. ASSUME NEW j \in DOMAIN jobs, StartRetry(k, j) \/ StartCancel(k, j) PROVE Steady'
  <2>1. jobs[j] \in Job
    BY JobType DEF OutInv
  <2>2. jobs[j].status \notin {"completed", "cancelled"} => Active(j)
    BY <2>1 DEF Active, Job
  <2> QED
    BY <1>4, <1>6, <2>2 DEF StartRetry, StartCancel
<1> QED
  BY <1>3, <1>5, <1>6 DEF Ask

LEMMA DeliverSteady ==
  ASSUME OutInv, Steady, ~crossed', StartDeliver
  PROVE  Steady'
<1> DEFINE due == {j \in DOMAIN jobs : Deliverable(j)}
           b == Blank("deliver", "next")
           t == [b EXCEPT !.batch = Snapshot(due)]
<1>1. Start(Poller, t) /\ UNCHANGED <<rotationVars, outbox>> /\ Poller \in Workers
  BY DEF StartDeliver, Workers
<1>2. b \in Task /\ b.stage = "next" /\ b.kind = "deliver" /\ b.root = None
  BY BlankType DEF Kinds, Stages, Blank
<1>3. Snapshot(due) \in SUBSET Copy
      /\ \A c \in Snapshot(due) : c.job \in due /\ c.sig = jobs[c.job].sig
  <2>1. due \in SUBSET DOMAIN jobs
    OBVIOUS
  <2> QED
    BY <2>1, SnapshotType DEF OutInv, Snapshot
<1> HIDE DEF b
<1>4. t \in Task /\ t.stage = "next" /\ t.kind = "deliver" /\ t.root = None /\ t.batch = Snapshot(due)
  BY <1>2, <1>3 DEF Task
<1> HIDE DEF t
<1>5. ASSUME Tidy(regs, jobs, shown, CurrentRoot) PROVE Works(t, jobs, shown, CurrentRoot)
  BY <1>3, <1>4, <1>5 DEF Works, Tidy, Clean, Deliverable
<1> QED
  BY <1>1, <1>4, <1>5, WorkerStarts, OutboxTasks

-----------------------------------------------------------------------------
(* The steps of an announcement.                                           *)
LEMMA RegistriesSteady ==
  ASSUME OutInv, Steady, ~crossed', NEW k \in Rotators, ReadRegistries(k)
  PROVE  Steady'
<1> DEFINE known == {u \in Urls : regs[u] # None}
           t == [tasks[k] EXCEPT !.stage = "active", !.urls = known]
<1>1. /\ k \in Slots /\ tasks[k] # None /\ tasks[k].stage = "regs" /\ tasks[k] \in Task
      /\ UNCHANGED <<identity, rots, regs, jobs, shown>>
  BY TaskType DEF ReadRegistries, At, Slots, rotationVars, outbox
<1>2. /\ Announces(tasks[k], regs, jobs, CurrentRoot)
      /\ \A u \in Urls : regs[u] = "pending" => Awaited(jobs, u)
  BY <1>1, AnnouncerAlone
<1>3. CASE known = {}
  <2>1. tasks' = [tasks EXCEPT ![k] = None] /\ \A j \in DOMAIN jobs : ~Active(j)
    BY <1>3 DEF ReadRegistries, Done
  <2>2. Tidy(regs, jobs, shown, CurrentRoot)
    BY <1>3, <2>1, OutboxNone DEF Tidy, Clean, Active
  <2> QED
    BY <1>1, <1>2, <2>1, <2>2, AnnouncerKeeps
<1>4. CASE known # {}
  <2>1. tasks' = [tasks EXCEPT ![k] = t]
    BY <1>4 DEF ReadRegistries
  <2>2. \A u \in Urls : regs[u] = "synced" => u \in known
    BY OutboxNone
  <2> HIDE DEF known
  <2>3. t # None /\ t.stage = "active" /\ t.urls = known /\ t.root = tasks[k].root
    <3>1. t.stage = "active" /\ t.urls = known /\ t.root = tasks[k].root
      BY <1>1 DEF Task
    <3>2. known \in SUBSET Urls
      BY DEF known
    <3>3. t \in Task
      BY <1>1, <3>2 DEF Task, Stages
    <3> QED
      BY <3>1, <3>3, OutboxTasks
  <2> HIDE DEF t
  <2>4. Announces(t, regs, jobs, CurrentRoot)
    BY <1>2, <2>2, <2>3 DEF Announces
  <2> QED
    BY <1>1, <1>2, <2>1, <2>3, <2>4, AnnouncerKeeps
<1> QED
  BY <1>3, <1>4

LEMMA AnnouncedSteady ==
  ASSUME OutInv, Steady, NEW k \in Rotators, ReadAnnounced(k)
  PROVE  Steady'
<1> DEFINE active == {jobs[j].url : j \in {i \in DOMAIN jobs :
                        Active(i) /\ jobs[i].action = "update"}}
           t == [tasks[k] EXCEPT !.stage = "clear", !.active = active]
<1>1. /\ k \in Slots /\ tasks[k] # None /\ tasks[k].stage = "active" /\ tasks[k] \in Task
      /\ tasks' = [tasks EXCEPT ![k] = t] /\ UNCHANGED <<identity, rots, regs, jobs, shown>>
  BY TaskType DEF ReadAnnounced, At, Slots, rotationVars, outbox
<1>2. /\ Announces(tasks[k], regs, jobs, CurrentRoot)
      /\ \A u \in Urls : regs[u] = "pending" => Awaited(jobs, u)
  BY <1>1, AnnouncerAlone
<1>3. \A u \in active : Awaited(jobs, u)
  BY DEF Active, Awaited
<1>4. active \in SUBSET Urls
  BY JobType DEF OutInv, Job
<1> HIDE DEF active
<1>5. /\ t \in Task /\ t.stage = "clear" /\ t.urls = tasks[k].urls
      /\ t.active = active /\ t.root = tasks[k].root
  BY <1>1, <1>4 DEF Task, Stages
<1> HIDE DEF t
<1>6. Announces(t, regs, jobs, CurrentRoot)
  BY <1>1, <1>2, <1>3, <1>5 DEF Announces
<1> QED
  BY <1>1, <1>2, <1>5, <1>6, OutboxTasks, AnnouncerKeeps

LEMMA ClearSteady ==
  ASSUME OutInv, Steady, NEW k \in Rotators, ClearSignatures(k)
  PROVE  Steady'
<1> DEFINE t == [tasks[k] EXCEPT !.stage = "each"]
<1>1. /\ k \in Slots /\ tasks[k] # None /\ tasks[k].stage = "clear" /\ tasks[k] \in Task
      /\ tasks' = [tasks EXCEPT ![k] = t] /\ UNCHANGED <<identity, rots, regs, shown>>
  BY TaskType DEF ClearSignatures, Goto, At, Slots, rotationVars
<1>2. /\ Announces(tasks[k], regs, jobs, CurrentRoot)
      /\ \A u \in Urls : regs[u] = "pending" => Awaited(jobs, u)
  BY <1>1, AnnouncerAlone
<1>3. DOMAIN jobs' = DOMAIN jobs
  BY DEF ClearSignatures
<1>4. ASSUME NEW i \in DOMAIN jobs
      PROVE  /\ jobs'[i].url = jobs[i].url /\ jobs'[i].action = jobs[i].action
             /\ jobs'[i].status = "completed" => jobs[i].status = "completed"
             /\ jobs'[i].status \in {"pending", "failed"} /\ jobs'[i].action = "update"
                  => jobs'[i].sig = None
  <2> DEFINE new == [jobs[i] EXCEPT !.sig = None, !.status = "pending", !.attempts = 0]
  <2>1. jobs[i] \in Job
    BY JobType DEF OutInv
  <2>2. jobs'[i] = IF Active(i) /\ jobs[i].action = "update" THEN new ELSE jobs[i]
    BY DEF ClearSignatures
  <2>3. new.url = jobs[i].url /\ new.action = jobs[i].action /\ new.status = "pending"
        /\ new.sig = None
    BY <2>1 DEF Job
  <2> HIDE DEF new
  <2> QED
    BY <2>2, <2>3 DEF Active
<1>5. Clean(jobs', CurrentRoot) /\ \A u : Awaited(jobs, u) => Awaited(jobs', u)
  BY <1>3, <1>4 DEF Clean, Awaited
<1>6. /\ t \in Task /\ t.stage = "each" /\ t.urls = tasks[k].urls
      /\ t.active = tasks[k].active /\ t.root = tasks[k].root
  BY <1>1 DEF Task, Stages
<1> HIDE DEF t
<1>7. Announces(t, regs', jobs', CurrentRoot)
  BY <1>1, <1>2, <1>5, <1>6 DEF Announces
<1> QED
  BY <1>1, <1>2, <1>5, <1>6, <1>7, OutboxTasks, AnnouncerKeeps

LEMMA AnnounceSteady ==
  ASSUME OutInv, Steady, NEW k \in Rotators, AnnounceTo(k)
  PROVE  Steady'
<1>1. /\ k \in Slots /\ tasks[k] # None /\ tasks[k].stage = "each" /\ tasks[k] \in Task
      /\ UNCHANGED <<identity, rots, regs, shown>>
  BY TaskType DEF AnnounceTo, At, Slots, rotationVars
<1>2. /\ Announces(tasks[k], regs, jobs, CurrentRoot)
      /\ \A u \in Urls : regs[u] = "pending" => Awaited(jobs, u)
  BY <1>1, AnnouncerAlone
<1>3. PICK u \in tasks[k].urls :
        /\ IF u \in tasks[k].active THEN UNCHANGED jobs ELSE Enqueue("update", u)
        /\ tasks' = [tasks EXCEPT ![k] = [@ EXCEPT !.stage = "status", !.url = u]]
  BY DEF AnnounceTo
<1> DEFINE t == [tasks[k] EXCEPT !.stage = "status", !.url = u]
<1>4. u \in Urls /\ tasks' = [tasks EXCEPT ![k] = t]
  BY <1>1, <1>3 DEF Task
<1>5. /\ Clean(jobs', CurrentRoot) /\ Awaited(jobs', u)
      /\ \A v : Awaited(jobs, v) => Awaited(jobs', v)
  <2>1. CASE u \in tasks[k].active
    BY <1>1, <1>2, <1>3, <2>1, JobsStay DEF Announces
  <2>2. CASE u \notin tasks[k].active
    BY <1>1, <1>2, <1>3, <1>4, <2>2, JobAdded DEF Announces
  <2> QED
    BY <2>1, <2>2
<1>6. /\ t \in Task /\ t.stage = "status" /\ t.urls = tasks[k].urls /\ t.url = u
      /\ t.active = tasks[k].active /\ t.root = tasks[k].root
  BY <1>1, <1>4 DEF Task, Stages
<1> HIDE DEF t
<1>7. Announces(t, regs', jobs', CurrentRoot)
  BY <1>1, <1>2, <1>5, <1>6 DEF Announces
<1> QED
  BY <1>1, <1>2, <1>4, <1>5, <1>6, <1>7, OutboxTasks, AnnouncerKeeps

LEMMA PendingSteady ==
  ASSUME OutInv, Steady, NEW k \in Rotators, MarkPending(k)
  PROVE  Steady'
<1> DEFINE u == tasks[k].url
           left == tasks[k].urls \ {u}
           t == [tasks[k] EXCEPT !.stage = "each", !.urls = left]
           s == [tasks[k] EXCEPT !.stage = "reread", !.urls = left]
<1>1. /\ k \in Slots /\ tasks[k] # None /\ tasks[k].stage = "status" /\ tasks[k] \in Task
      /\ UNCHANGED <<identity, rots, jobs, shown>>
      /\ regs' = [regs EXCEPT ![u] = IF @ = None THEN None ELSE "pending"]
      /\ IF left # {} THEN tasks' = [tasks EXCEPT ![k] = t]
         ELSE tasks' = [tasks EXCEPT ![k] = None] \/ tasks' = [tasks EXCEPT ![k] = s]
  BY TaskType DEF MarkPending, Done, At, Slots, rotationVars
<1>2. /\ Announces(tasks[k], regs, jobs, CurrentRoot)
      /\ \A v \in Urls : regs[v] = "pending" => Awaited(jobs, v)
  BY <1>1, AnnouncerAlone
<1>3. \A v \in Urls \ {u} : regs'[v] = regs[v]
  BY <1>1 DEF OutInv, TypeOK
<1>4. u \in Urls => regs'[u] \in {None, "pending"}
  BY <1>1 DEF OutInv, TypeOK
<1>5. \A v \in Urls : regs'[v] = "synced" => v \in left
  BY <1>1, <1>2, <1>3, <1>4, OutboxNone DEF Announces
<1>6. Clean(jobs', CurrentRoot) /\ (\A v : Awaited(jobs, v) => Awaited(jobs', v)) /\ Awaited(jobs', u)
  BY <1>1, <1>2, JobsStay DEF Announces
<1>7. \A v \in Urls : regs'[v] = "pending" => Awaited(jobs', v)
  BY <1>2, <1>3, <1>6
<1>8. left \in SUBSET Urls
  BY <1>1 DEF Task
<1> HIDE DEF u, left
<1>9. /\ t \in Task /\ t.stage = "each" /\ t.urls = left
      /\ t.active = tasks[k].active /\ t.root = tasks[k].root
  BY <1>1, <1>8 DEF Task, Stages
<1>10. /\ s \in Task /\ s.stage = "reread" /\ s.root = tasks[k].root
  BY <1>1, <1>8 DEF Task, Stages
<1> HIDE DEF t, s
<1>11. CASE left # {}
  <2>1. Announces(t, regs', jobs', CurrentRoot)
    BY <1>1, <1>2, <1>5, <1>6, <1>9 DEF Announces
  <2> QED
    BY <1>1, <1>7, <1>9, <1>11, <2>1, OutboxTasks, AnnouncerKeeps
<1>12. CASE left = {}
  <2>1. Announces(s, regs', jobs', CurrentRoot)
    BY <1>2, <1>5, <1>6, <1>10, <1>12 DEF Announces
  <2>2. Tidy(regs', jobs', shown', CurrentRoot)
    BY <1>5, <1>6, <1>12 DEF Tidy
  <2>3. CASE tasks' = [tasks EXCEPT ![k] = s]
    BY <1>1, <1>7, <1>10, <2>1, <2>3, OutboxTasks, AnnouncerKeeps
  <2>4. CASE tasks' = [tasks EXCEPT ![k] = None]
    BY <1>1, <1>7, <2>2, <2>4, AnnouncerKeeps
  <2> QED
    BY <1>1, <1>12, <2>3, <2>4
<1> QED
  BY <1>11, <1>12

LEMMA UnsignedSteady ==
  ASSUME OutInv, Steady, NEW k \in Rotators, ReadUnsigned(k)
  PROVE  Steady'
<1> DEFINE batch == Snapshot({j \in DOMAIN jobs :
                       Active(j) /\ jobs[j].action = "update" /\ jobs[j].sig = None})
           t == [tasks[k] EXCEPT !.stage = "sign", !.batch = batch]
<1>1. /\ k \in Slots /\ tasks[k] # None /\ tasks[k].stage = "reread" /\ tasks[k] \in Task
      /\ tasks' = [tasks EXCEPT ![k] = t] /\ UNCHANGED <<identity, rots, regs, jobs, shown>>
  BY TaskType DEF ReadUnsigned, At, Slots, rotationVars, outbox
<1>2. /\ Announces(tasks[k], regs, jobs, CurrentRoot)
      /\ \A u \in Urls : regs[u] = "pending" => Awaited(jobs, u)
  BY <1>1, AnnouncerAlone
<1>3. batch \in SUBSET Copy
  <2>1. {j \in DOMAIN jobs : Active(j) /\ jobs[j].action = "update" /\ jobs[j].sig = None}
          \in SUBSET DOMAIN jobs
    OBVIOUS
  <2> QED
    BY <2>1, SnapshotType DEF OutInv
<1> HIDE DEF batch
<1>4. t \in Task /\ t.stage = "sign" /\ t.root = tasks[k].root
  BY <1>1, <1>3 DEF Task, Stages
<1> HIDE DEF t
<1>5. Announces(t, regs, jobs, CurrentRoot)
  BY <1>1, <1>2, <1>4 DEF Announces
<1> QED
  BY <1>1, <1>2, <1>4, <1>5, OutboxTasks, AnnouncerKeeps

LEMMA SignSteady ==
  ASSUME OutInv, Steady, NEW k \in Rotators, SignAgain(k), faults' = 0
  PROVE  Steady'
<1> DEFINE j == InHand(k).job
           new == [jobs[j] EXCEPT !.sig = tasks[k].root]
           rest == tasks[k].batch \ {InHand(k)}
           t == [tasks[k] EXCEPT !.batch = rest]
<1>1. /\ k \in Slots /\ tasks[k] # None /\ tasks[k].stage = "sign" /\ tasks[k] \in Task
      /\ UNCHANGED <<identity, rots, regs, shown>>
  BY TaskType DEF SignAgain, At, Slots
<1>2. /\ Announces(tasks[k], regs, jobs, CurrentRoot)
      /\ \A u \in Urls : regs[u] = "pending" => Awaited(jobs, u)
  BY <1>1, AnnouncerAlone
<1>3. Clean(jobs, CurrentRoot) /\ (\A u \in Urls : regs[u] # "synced") /\ tasks[k].root \in {None, CurrentRoot}
  BY <1>1, <1>2 DEF Announces
<1>4. ~Fault
  BY DEF Fault, OutInv, IInv, RotationTypeOK
<1>5. CASE tasks[k].batch = {}
  <2>1. tasks' = [tasks EXCEPT ![k] = None] /\ UNCHANGED jobs
    BY <1>5 DEF SignAgain, Done
  <2>2. Tidy(regs', jobs', shown', CurrentRoot)
    BY <1>1, <1>3, <2>1 DEF Tidy
  <2> QED
    BY <1>1, <1>2, <2>1, <2>2, AnnouncerKeeps
<1>6. CASE tasks[k].batch # {}
  <2>1. tasks' = [tasks EXCEPT ![k] = t] /\ jobs' = [jobs EXCEPT ![j] = new]
    BY <1>4, <1>6 DEF SignAgain
  <2>2. j \in DOMAIN jobs /\ jobs[j] \in Job
    BY <1>1, <1>6, InHandIsRead, JobType, TaskType DEF OutInv, Slots
  <2>3. /\ new.url = jobs[j].url /\ new.action = jobs[j].action /\ new.sig = tasks[k].root
        /\ new.status = jobs[j].status
    BY <2>2 DEF Job
  <2> HIDE DEF new
  <2>4. Clean(jobs', CurrentRoot) /\ \A u : Awaited(jobs, u) => Awaited(jobs', u)
    <3>1. DOMAIN jobs' = DOMAIN jobs /\ jobs'[j] = new
          /\ \A i \in DOMAIN jobs \ {j} : jobs'[i] = jobs[i]
      BY <2>1, <2>2
    <3> QED
      BY <1>3, <2>3, <3>1 DEF Clean, Awaited
  <2>5. t \in Task /\ t.stage = "sign" /\ t.root = tasks[k].root
    BY <1>1 DEF Task
  <2> HIDE DEF t
  <2>6. Announces(t, regs', jobs', CurrentRoot)
    BY <1>1, <1>3, <2>4, <2>5 DEF Announces
  <2> QED
    BY <1>1, <1>2, <2>1, <2>4, <2>5, <2>6, OutboxTasks, AnnouncerKeeps
<1> QED
  BY <1>5, <1>6

-----------------------------------------------------------------------------
(* The steps of rotations.                                                 *)
LEMMA RepublishSteady ==
  ASSUME OutInv, Steady, NEW k \in Rotators, StartRepublish(k)
  PROVE  Steady'
<1> DEFINE b == Blank("republish", "regs")
           root == IF Custodial(k) THEN rots[k].stmt.new ELSE None
           t == [b EXCEPT !.root = root]
<1>1. /\ Appended(k) /\ tasks[k] = None /\ tasks' = [tasks EXCEPT ![k] = t]
      /\ rots' = [rots EXCEPT ![k] = None] /\ UNCHANGED <<chain, regs, jobs, shown>>
  BY DEF StartRepublish, FinishRotation, RotAt, RotDone, Appended, identity, outbox
<1>2. CurrentRoot' = CurrentRoot
  BY <1>1, RootStays
<1>3. \A r \in Rotators \ {k} : ~Appended(r) /\ tasks[r] = None
  BY <1>1, UnannouncedBy DEF Steady, Alone
<1>4. /\ \A w \in Workers : tasks[w] = None
      /\ rots[k].stmt.new = CurrentRoot
  BY <1>1, UnannouncedBy DEF Steady, Alone
<1>5. root \in {None, CurrentRoot}
  BY <1>4
<1>6. root \in Roots \cup {None}
  BY <1>1 DEF OutInv, IInv, RotationTypeOK, Appended, Custodial, Rot, Statement, Underway
<1>7. b \in Task /\ b.stage = "regs"
  BY BlankType DEF Kinds, Stages
<1> HIDE DEF b, root
<1>8. t \in Task /\ t.stage = "regs" /\ t.root = root
  BY <1>6, <1>7 DEF Task
<1> HIDE DEF t
<1>9. t # None /\ Announces(t, regs, jobs, CurrentRoot)
  BY <1>5, <1>8, OutboxTasks DEF Announces
<1>10. tasks'[k] = t /\ \A i \in Slots \ {k} : tasks'[i] = tasks[i]
  BY <1>1 DEF OutInv, TypeOK, Slots
<1>11. rots'[k] = None /\ \A r \in Rotators \ {k} : rots'[r] = rots[r]
  BY <1>1 DEF OutInv, IInv, RotationTypeOK
<1>12. \A r \in Rotators : ~Appended(r)' /\ (tasks'[r] # None <=> r = k)
  BY <1>3, <1>9, <1>10, <1>11 DEF Appended, Slots
<1>13. \A r \in Rotators : Unannounced(r)' <=> r = k
  BY <1>12 DEF Unannounced, Appended
<1>14. \A w \in Workers : tasks'[w] = None
  BY <1>4, <1>10, SlotsApart DEF Slots
<1>15. Alone'
  BY <1>12, <1>13, <1>14 DEF Alone
<1> QED
  BY <1>1, <1>2, <1>4, <1>9, <1>10, <1>12, <1>13, <1>14, <1>15 DEF Steady

(* An append that succeeds.                                                *)
Appends(k) == rots[k].stmt.seq \notin DOMAIN chain /\ chain' = WithRow(chain, rots[k].stmt)

(* Any other step of a rotation leaves what is appended as it is.          *)
LEMMA RotationTurns ==
  ASSUME OutInv, NEW k \in Rotators, RotationStep(k), faults' = 0,
         ~(AppendRotation(k) /\ Appends(k))
  PROVE  /\ UNCHANGED chain
         /\ \A r \in Rotators : Appended(r)' <=> Appended(r)
         /\ \A r \in Rotators : Appended(r) => rots'[r].stmt = rots[r].stmt
<1>1. rots \in [Rotators -> Rot \cup {None}] /\ ~Fault
  BY DEF OutInv, IInv, RotationTypeOK, Fault
<1>2. ASSUME UNCHANGED chain, NEW new, rots' = [rots EXCEPT ![k] = new],
             (new # None /\ new.stage \in {"resign", "republish"}) <=> Appended(k),
             Appended(k) => new.stmt = rots[k].stmt
      PROVE  /\ UNCHANGED chain
             /\ \A r \in Rotators : Appended(r)' <=> Appended(r)
             /\ \A r \in Rotators : Appended(r) => rots'[r].stmt = rots[r].stmt
  <2>1. rots'[k] = new /\ \A r \in Rotators \ {k} : rots'[r] = rots[r]
    BY <1>1, <1>2
  <2> QED
    BY <1>2, <2>1 DEF Appended
<1>3. ASSUME rots[k] # None PROVE rots[k] \in Rot /\ None \notin Rot
  BY <1>1, <1>3, RotationNone
<1>4. ASSUME UNCHANGED chain, RotDone(k), ~Appended(k)
      PROVE  /\ UNCHANGED chain
             /\ \A r \in Rotators : Appended(r)' <=> Appended(r)
             /\ \A r \in Rotators : Appended(r) => rots'[r].stmt = rots[r].stmt
  BY <1>2, <1>4 DEF RotDone
<1>5. CASE RotateAegis(k)
  <2> DEFINE new == [stage |-> "chain", seed |-> seed, todo |-> {},
       stmt |-> [seq |-> 1, prev |-> Genesis, new |-> minted + 1, signer |-> seed]]
  <2>1. UNCHANGED chain /\ rots' = [rots EXCEPT ![k] = new] /\ ~Appended(k)
    BY <1>5 DEF RotateAegis, Appended
  <2>2. new.stage = "chain"
    OBVIOUS
  <2> HIDE DEF new
  <2> QED
    BY <1>2, <2>1, <2>2
<1>6. CASE RotateExternal(k)
  <2>1. PICK n \in 0..Rows(chain) :
        LET prev == IF n = 0 THEN Genesis ELSE chain[n].new
        IN rots' = [rots EXCEPT ![k] =
             [stage |-> "chain", seed |-> None, todo |-> {},
              stmt |-> [seq |-> n + 1, prev |-> prev, new |-> minted + 1, signer |-> prev]]]
    BY <1>6 DEF RotateExternal
  <2> DEFINE prev == IF n = 0 THEN Genesis ELSE chain[n].new
             new == [stage |-> "chain", seed |-> None, todo |-> {},
              stmt |-> [seq |-> n + 1, prev |-> prev, new |-> minted + 1, signer |-> prev]]
  <2>2. UNCHANGED chain /\ ~Appended(k)
    BY <1>6 DEF RotateExternal, Appended
  <2>3. rots' = [rots EXCEPT ![k] = new]
    BY <2>1
  <2>4. new.stage = "chain"
    OBVIOUS
  <2> HIDE DEF new
  <2> QED
    BY <1>2, <2>2, <2>3, <2>4
<1>7. CASE ReadChain(k)
  <2>1. UNCHANGED chain /\ rots[k] \in Rot /\ rots[k].stage = "chain" /\ ~Appended(k)
    BY <1>3, <1>7 DEF ReadChain, RotAt, Appended, identity
  <2> DEFINE new == [stage |-> "prepare", seed |-> rots[k].seed, todo |-> {},
              stmt |-> [seq |-> Rows(chain) + 1, prev |-> CurrentRoot,
                        new |-> rots[k].stmt.new, signer |-> rots[k].stmt.signer]]
  <2>2. \/ rots' = [rots EXCEPT ![k] = new]
        \/ RotGoto(k, "append")
        \/ RotDone(k)
    BY <1>1, <1>7 DEF ReadChain
  <2>3. new.stage = "prepare"
    OBVIOUS
  <2> HIDE DEF new
  <2>4. CASE RotGoto(k, "append")
    <3> DEFINE goto == [rots[k] EXCEPT !.stage = "append"]
    <3>1. rots' = [rots EXCEPT ![k] = goto] /\ goto.stage = "append"
      BY <2>1, <2>4 DEF RotGoto, Rot
    <3> HIDE DEF goto
    <3> QED
      BY <1>2, <2>1, <3>1
  <2> QED
    BY <1>2, <1>4, <2>1, <2>2, <2>3, <2>4
<1>8. CASE Prepare(k)
  <2>1. UNCHANGED chain /\ rots[k] \in Rot /\ rots[k].stage = "prepare" /\ ~Appended(k)
    BY <1>3, <1>8 DEF Prepare, RotAt, Appended, identity
  <2> DEFINE todo == {d \in Delegations : sigs[d] # None}
             new == [rots[k] EXCEPT !.stage = "append", !.todo = todo]
  <2>2. rots' = [rots EXCEPT ![k] = new] \/ RotDone(k)
    BY <1>8 DEF Prepare
  <2>3. new.stage = "append"
    BY <2>1 DEF Rot
  <2> HIDE DEF new
  <2> QED
    BY <1>2, <1>4, <2>1, <2>2, <2>3
<1>9. CASE AppendRotation(k)
  <2>1. UNCHANGED chain /\ RotDone(k) /\ ~Appended(k)
    BY <1>9 DEF AppendRotation, Appends, RotAt, Appended
  <2> QED
    BY <1>4, <2>1
<1>10. CASE Resign(k)
  <2>1. UNCHANGED chain /\ rots[k] # None /\ rots[k] \in Rot /\ rots[k].stage = "resign" /\ Appended(k)
    BY <1>3, <1>10 DEF Resign, RotAt, Appended
  <2>2. CASE RotGoto(k, "republish")
    <3> DEFINE new == [rots[k] EXCEPT !.stage = "republish"]
    <3>1. /\ rots' = [rots EXCEPT ![k] = new] /\ new.stage = "republish"
          /\ new.stmt = rots[k].stmt /\ new \in Rot
      BY <2>1, <2>2 DEF RotGoto, Rot, RotStages
    <3> HIDE DEF new
    <3> QED
      BY <1>2, <2>1, <3>1, RotationNone
  <2>3. ASSUME NEW d, rots' = [rots EXCEPT ![k].todo = @ \ {d}]
        PROVE  /\ UNCHANGED chain
               /\ \A r \in Rotators : Appended(r)' <=> Appended(r)
               /\ \A r \in Rotators : Appended(r) => rots'[r].stmt = rots[r].stmt
    <3> DEFINE rest == rots[k].todo \ {d}
               new == [rots[k] EXCEPT !.todo = rest]
    <3>1. rest \in SUBSET Delegations
      BY <2>1 DEF Rot
    <3>2. rots' = [rots EXCEPT ![k] = new]
      BY <2>3
    <3> HIDE DEF rest
    <3>3. new.stage = "resign" /\ new.stmt = rots[k].stmt /\ new \in Rot
      BY <2>1, <3>1 DEF Rot
    <3> HIDE DEF new
    <3> QED
      BY <1>2, <2>1, <3>2, <3>3, RotationNone
  <2> QED
    BY <1>1, <1>10, <2>2, <2>3 DEF Resign
<1>11. CASE DelegateStart(k)
  <2> DEFINE new == [stage |-> "create", seed |-> seed, stmt |-> None, todo |-> {}]
  <2>1. UNCHANGED chain /\ rots' = [rots EXCEPT ![k] = new] /\ ~Appended(k)
    BY <1>11 DEF DelegateStart, Appended, identity
  <2>2. new.stage = "create"
    OBVIOUS
  <2> HIDE DEF new
  <2> QED
    BY <1>2, <2>1, <2>2
<1>12. CASE CreateDelegation(k)
  <2>1. UNCHANGED chain /\ RotDone(k) /\ ~Appended(k)
    BY <1>12 DEF CreateDelegation, RotAt, Appended
  <2> QED
    BY <1>4, <2>1
<1> QED
  BY <1>5, <1>6, <1>7, <1>8, <1>9, <1>10, <1>11, <1>12 DEF RotationStep

LEMMA RotateSteady ==
  ASSUME OutInv, Steady, NEW k \in Rotators, Rotate(k), ~crossed', faults' = 0
  PROVE  Steady'
<1>1. RotationStep(k) /\ UNCHANGED <<regs, jobs, shown, tasks>>
  BY DEF Rotate, outbox
<1>2. CASE ~(AppendRotation(k) /\ Appends(k))
  <2>1. /\ UNCHANGED chain
        /\ \A r \in Rotators : Appended(r)' <=> Appended(r)
        /\ \A r \in Rotators : Appended(r) => rots'[r].stmt = rots[r].stmt
    BY <1>1, <1>2, RotationTurns
  <2>2. CurrentRoot' = CurrentRoot
    BY <2>1, RootStays
  <2>3. \A r \in Rotators : Unannounced(r)' <=> Unannounced(r)
    BY <1>1, <2>1 DEF Unannounced, Appended
  <2>4. Alone'
    BY <1>1, <2>1, <2>2, <2>3 DEF Steady, Alone
  <2> QED
    BY <1>1, <2>2, <2>3, <2>4 DEF Steady
<1>3. CASE AppendRotation(k) /\ Appends(k)
  <2> DEFINE st == rots[k].stmt
             c == WithRow(chain, st)
  <2>1. /\ rots[k] # None /\ rots[k] \in Rot /\ rots[k].stage = "append"
        /\ st \in Statement /\ Placed(st) /\ st.signer = st.prev
    BY <1>3 DEF AppendRotation, RotAt, OutInv, IInv, RotationTypeOK, Underway, Rot
  <2>2. st.seq \notin DOMAIN chain /\ chain' = c /\ RotGoto(k, "resign")
    <3>1. st.seq \notin DOMAIN chain /\ chain' = c
      BY <1>3 DEF Appends
    <3>2. c # chain
      BY <3>1 DEF WithRow
    <3> QED
      BY <1>3, <3>1, <3>2 DEF AppendRotation
  <2>3. CurrentRoot' = st.new
    BY <2>1, <2>2, Extends DEF CurrentRoot, RootOf, Rows, OutInv, IInv
  <2>4. chain' # chain
    BY <2>2 DEF WithRow
  <2>5. (\A w \in Workers : tasks[w] = None) /\ \A r \in Rotators : ~Unannounced(r)
    BY <2>4 DEF Rotate
  <2>6. \A r \in Rotators : ~Appended(r) /\ tasks[r] = None
    BY <2>5, UnannouncedBy
  <2> DEFINE new == [rots[k] EXCEPT !.stage = "resign"]
  <2>7. rots' = [rots EXCEPT ![k] = new] /\ new.stmt = st
    BY <2>1, <2>2 DEF RotGoto, Rot
  <2> HIDE DEF new
  <2>8. rots'[k] = new /\ \A r \in Rotators \ {k} : rots'[r] = rots[r]
    BY <2>7 DEF OutInv, IInv, RotationTypeOK
  <2>9. \A r \in Rotators \ {k} : ~Appended(r)'
    BY <2>6, <2>8 DEF Appended
  <2>10. \A r \in Rotators \ {k} : ~Unannounced(r)'
    BY <1>1, <2>6, <2>9 DEF Unannounced, Appended
  <2>11. Unannounced(k)'
    <3>1. new \in Rot /\ new.stage = "resign"
      BY <2>1 DEF new, Rot, RotStages
    <3> QED
      BY <2>8, <3>1, RotationNone DEF Unannounced
  <2>12. Alone'
    <3>1. \A r \in Rotators : Appended(r)' => tasks'[r] = None /\ rots'[r].stmt.new = CurrentRoot'
      BY <1>1, <2>3, <2>6, <2>7, <2>8, <2>9
    <3>2. \A w \in Workers : tasks'[w] = None
      BY <1>1, <2>5
    <3> QED
      BY <2>10, <3>1, <3>2 DEF Alone
  <2> QED
    BY <1>1, <2>5, <2>6, <2>11, <2>12 DEF Steady
<1> QED
  BY <1>2, <1>3

-----------------------------------------------------------------------------
(* Rotations that nothing crossed, and calls that all succeed.             *)
Kept == OutInv /\ (Calm => Steady)

LEMMA KeptInit == Init => Kept
<1> SUFFICES ASSUME Init PROVE Kept
  OBVIOUS
<1>1. OutInv
  BY OutInit
<1>2. \A r \in Rotators : ~Appended(r) /\ tasks[r] = None /\ ~Unannounced(r)
  BY DEF Init, RotationInit, Appended, Unannounced
<1>3. \A w \in Workers : tasks[w] = None
  BY DEF Init
<1>4. Alone
  BY <1>2, <1>3 DEF Alone
<1>5. Tidy(regs, jobs, shown, CurrentRoot) /\ \A u \in Urls : regs[u] = None
  BY OutboxNone DEF Init, Tidy, Clean
<1> QED
  BY <1>1, <1>2, <1>3, <1>4, <1>5, OutboxNone DEF Kept, Steady

LEMMA FaultsGrow ==
  ASSUME OutInv, Next
  PROVE  /\ crossed => crossed'
         /\ faults' = 0 => faults = 0
<1>1. faults \in Nat
  BY RotationBounds DEF OutInv, IInv, RotationTypeOK
<1>2. UNCHANGED faults \/ Fault => (faults' = 0 => faults = 0)
  BY <1>1 DEF Fault
<1>3. ASSUME NEW k \in Rotators, Rotate(k)
      PROVE  (crossed => crossed') /\ (UNCHANGED faults \/ Fault)
  <2>1. crossed => crossed'
    BY <1>3 DEF Rotate
  <2>2. UNCHANGED faults \/ Fault
    BY <1>3 DEF Rotate, RotationStep, RotateAegis, RotateExternal, ReadChain, Prepare,
                AppendRotation, Resign, DelegateStart, CreateDelegation
  <2> QED
    BY <2>1, <2>2
<1>4. ASSUME NEW k \in Slots, StartRepublish(k) \/ Announce(k) \/ Throw(k)
      PROVE  (crossed => crossed') /\ (UNCHANGED faults \/ Fault)
  <2>1. CASE StartRepublish(k) \/ Throw(k)
    BY <2>1 DEF StartRepublish, FinishRotation, Throw
  <2>2. CASE Announce(k)
    <3>1. CASE ReadRegistries(k)
      <4> DEFINE stale == \E j \in DOMAIN jobs : Active(j)
      <4>1. crossed' = (crossed \/ stale) \/ UNCHANGED crossed
        BY <3>1, Zenon DEF ReadRegistries
      <4>2. UNCHANGED rotationVars
        BY <3>1, Zenon DEF ReadRegistries
      <4>3. UNCHANGED faults
        BY <4>2 DEF rotationVars
      <4> HIDE DEF stale
      <4>4. crossed => crossed'
        BY <4>1, Zenon
      <4> QED
        BY <4>3, <4>4
    <3>2. CASE ReadAnnounced(k) \/ ReadUnsigned(k)
      <4>1. UNCHANGED rotationVars /\ UNCHANGED crossed
        BY <3>2, Zenon DEF ReadAnnounced, ReadUnsigned
      <4> QED
        BY <4>1 DEF rotationVars
    <3>3. CASE ClearSignatures(k) \/ AnnounceTo(k) \/ MarkPending(k)
      <4>1. UNCHANGED rotationVars /\ UNCHANGED crossed
        BY <3>3, Zenon DEF ClearSignatures, AnnounceTo, MarkPending
      <4> QED
        BY <4>1 DEF rotationVars
    <3>4. CASE SignAgain(k)
      BY <3>4 DEF SignAgain
    <3> QED
      BY <2>2, <3>1, <3>2, <3>3, <3>4 DEF Announce
  <2> QED
    BY <1>4, <2>1, <2>2
<1>5. ASSUME NEW k \in Workers, Work(k)
      PROVE  (crossed => crossed') /\ (UNCHANGED faults \/ Fault)
  BY <1>5 DEF Work, InsertRegistry, EnqueueAsked, DropRegistry, WriteStatus, ReadActive,
       EndBatch, SaveSignature, LoadChain, Post, MarkCompleted, MarkSynced, MarkFailed,
       MarkError, rotationVars
<1>6. ASSUME NEW k \in Requests, Ask(k)
      PROVE  (crossed => crossed') /\ (UNCHANGED faults \/ Fault)
  BY <1>6 DEF Ask, StartAdd, StartRemove, StartRetry, StartCancel, StartSync, Request,
       Start, rotationVars
<1>7. CASE StartDeliver
  BY <1>2, <1>7 DEF StartDeliver, Start, rotationVars
<1> QED
  BY <1>2, <1>3, <1>4, <1>5, <1>6, <1>7 DEF Next, Slots

LEMMA KeptStep == Kept /\ [Next]_vars => Kept'
<1> SUFFICES ASSUME Kept, [Next]_vars PROVE Kept'
  OBVIOUS
<1>1. OutInv /\ OutInv'
  BY OutStep DEF Kept
<1>2. ASSUME Next, Calm' PROVE Steady'
  <2>1. ~crossed' /\ faults' = 0 /\ ~Fault
    BY <1>1, <1>2 DEF Calm, Fault, OutInv, IInv, RotationTypeOK
  <2>2. Steady
    BY <1>1, <1>2, <2>1, FaultsGrow DEF Kept, Calm
  <2>3. \A k : ~Throw(k)
    BY <2>1 DEF Throw
  <2>4. ASSUME NEW k \in Rotators, Announce(k) PROVE Steady'
    BY <1>1, <2>1, <2>2, <2>4, RegistriesSteady, AnnouncedSteady, ClearSteady,
       AnnounceSteady, PendingSteady, UnsignedSteady, SignSteady DEF Announce
  <2> QED
    BY <1>1, <1>2, <2>1, <2>2, <2>3, <2>4, RotateSteady, RepublishSteady, AskSteady,
       WorkSteady, DeliverSteady DEF Next
<1>3. ASSUME UNCHANGED vars, Calm' PROVE Steady'
  <2>1. UNCHANGED <<chain, rots, faults, crossed, regs, jobs, shown, tasks>>
    BY <1>3 DEF vars, rotationVars, identity, outboxVars, outbox
  <2>2. CurrentRoot' = CurrentRoot
    BY <2>1, RootStays
  <2>3. Steady
    BY <1>3, <2>1 DEF Kept, Calm
  <2>4. \A r \in Rotators : (Unannounced(r)' <=> Unannounced(r)) /\ (Appended(r)' <=> Appended(r))
    BY <2>1 DEF Unannounced, Appended
  <2>5. Alone'
    BY <2>1, <2>2, <2>3, <2>4 DEF Steady, Alone
  <2> QED
    BY <2>1, <2>2, <2>3, <2>4, <2>5 DEF Steady
<1> QED
  BY <1>1, <1>2, <1>3 DEF Kept

LEMMA KeptAlways == Spec => []Kept
  BY KeptInit, KeptStep, PTL DEF Spec

(* The poller never redelivers a record signed by a retired root, as       *)
(* clearUpdateSignaturesForActor promises: when an announcement is over,   *)
(* every update that may still be sent is unsigned or of the current root, *)
(* unless a call failed or a rotation crossed other work on the outbox.    *)
THEOREM SignedSafe == Spec => []SignedByRoot
<1>1. Kept => SignedByRoot
  <2> SUFFICES ASSUME Kept, Settled PROVE
        \A j \in DOMAIN jobs :
          Active(j) /\ jobs[j].action = "update" => jobs[j].sig \in {None, CurrentRoot}
    BY DEF SignedByRoot
  <2>1. Clean(jobs, CurrentRoot)
    BY DEF Kept, Calm, Settled, Steady, Tidy
  <2> QED
    BY <2>1 DEF Clean, Active
<1> QED
  BY <1>1, KeptAlways, PTL

-----------------------------------------------------------------------------
(* Takedowns.  A registry that is listed though its removal was enqueued   *)
(* has been announced since, or is being announced or dropped: Acts(k, u). *)
(* And a registry is without its record only after it took a takedown.     *)
Acts(k, u) ==
  tasks[k] # None /\ tasks[k].stage \in {"enqueue", "drop"} /\ tasks[k].url = u

Announced(j, u) ==
  \E i \in DOMAIN jobs : j < i /\ jobs[i].url = u /\ jobs[i].action = "update"

Followed ==
  \A u \in Urls : regs[u] # None =>
    \A j \in DOMAIN jobs : jobs[j].action = "delete" /\ jobs[j].url = u =>
      Announced(j, u) \/ \E k \in Workers : Acts(k, u)

TakenDown ==
  \A u \in gone : \E j \in accepted :
    j \in DOMAIN jobs /\ jobs[j].action = "delete" /\ jobs[j].url = u

(* The jobs there are stay what they are about; others are added.          *)
SameJobs ==
  \A j \in DOMAIN jobs : /\ j \in DOMAIN jobs'
                         /\ jobs'[j].url = jobs[j].url /\ jobs'[j].action = jobs[j].action

LEMMA FollowedStill ==
  ASSUME Followed, SameJobs,
         \A j \in DOMAIN jobs' \ DOMAIN jobs : jobs'[j].action = "update",
         \A u \in Urls : regs'[u] # None => regs[u] # None,
         \A k \in Workers : \A u \in Urls : Acts(k, u) => Acts(k, u)'
  PROVE  Followed'
<1> SUFFICES ASSUME NEW u \in Urls, regs'[u] # None, NEW j \in DOMAIN jobs',
                    jobs'[j].action = "delete", jobs'[j].url = u
             PROVE  Announced(j, u)' \/ \E k \in Workers : Acts(k, u)'
  BY DEF Followed
<1>1. j \in DOMAIN jobs /\ jobs[j].action = "delete" /\ jobs[j].url = u
  BY DEF SameJobs
<1>2. Announced(j, u) => Announced(j, u)'
  BY DEF Announced, SameJobs
<1> QED
  BY <1>1, <1>2 DEF Followed

LEMMA TakenStill ==
  ASSUME TakenDown, SameJobs, accepted \subseteq accepted', gone' \subseteq gone
  PROVE  TakenDown'
BY DEF TakenDown, SameJobs

(* One handler, k, moves, and was neither announcing nor dropping.         *)
OnlyMoves(k) == \A w \in Workers \ {k} : tasks'[w] = tasks[w]
Elsewhere(k) == tasks[k] # None => tasks[k].stage \notin {"enqueue", "drop"}

Pursued == Followed /\ TakenDown

(* Jobs change in place, nothing is accepted, and no registry is added.    *)
LEMMA InPlace ==
  ASSUME Pursued, NEW k \in Slots, OnlyMoves(k), Elsewhere(k),
         SameJobs, \A j \in DOMAIN jobs' \ DOMAIN jobs : jobs'[j].action = "update",
         \A u \in Urls : regs'[u] # None => regs[u] # None,
         UNCHANGED <<accepted, gone>>
  PROVE  Pursued'
<1>1. \A w \in Workers : \A u \in Urls : Acts(w, u) => Acts(w, u)'
  BY DEF OnlyMoves, Elsewhere, Acts
<1>2. Followed'
  BY <1>1, FollowedStill DEF Pursued
<1>3. TakenDown'
  BY TakenStill DEF Pursued
<1> QED
  BY <1>2, <1>3 DEF Pursued

LEMMA NewJob ==
  ASSUME OutInv, NEW action, NEW u, Enqueue(action, u)
  PROVE  /\ SameJobs /\ Len(jobs) + 1 \in DOMAIN jobs'
         /\ DOMAIN jobs' = DOMAIN jobs \cup {Len(jobs) + 1}
         /\ \A j \in DOMAIN jobs : j < Len(jobs) + 1
         /\ jobs'[Len(jobs) + 1].action = action /\ jobs'[Len(jobs) + 1].url = u
<1> DEFINE new == [action |-> action, url |-> u, status |-> "pending", attempts |-> 0, sig |-> None]
<1>1. new.action = action /\ new.url = u
  OBVIOUS
<1>2. jobs' = Append(jobs, new) /\ jobs \in Seq(Job) /\ Len(jobs) \in Nat
      /\ DOMAIN jobs = 1..Len(jobs)
  BY JobType DEF Enqueue, OutInv, TypeOK
<1> HIDE DEF new
<1>3. /\ DOMAIN jobs' = 1..(Len(jobs) + 1) /\ jobs'[Len(jobs) + 1] = new
      /\ \A j \in 1..Len(jobs) : jobs'[j] = jobs[j]
  BY <1>2
<1> QED
  BY <1>1, <1>2, <1>3 DEF SameJobs

LEMMA EnqueuePursued ==
  ASSUME OutInv, Pursued, NEW k \in Workers, EnqueueAsked(k) PROVE Pursued'
<1>1. /\ tasks[k] # None /\ tasks[k].stage = "enqueue" /\ tasks[k] \in Task
      /\ UNCHANGED <<regs, accepted, gone>> /\ k \in Slots
  BY TaskType DEF EnqueueAsked, At, Slots
<1>2. PICK action \in {"update", "delete"} :
        /\ Enqueue(action, tasks[k].url)
        /\ action = "delete" => Goto(k, "drop")
        /\ Done(k) \/ Goto(k, "drop")
  BY DEF EnqueueAsked
<1>3. PICK n : /\ SameJobs /\ n \in DOMAIN jobs' /\ DOMAIN jobs' = DOMAIN jobs \cup {n}
               /\ \A j \in DOMAIN jobs : j < n
               /\ jobs'[n].action = action /\ jobs'[n].url = tasks[k].url
  BY <1>2, NewJob
<1>4. TakenDown'
  BY <1>1, <1>3, TakenStill DEF Pursued
<1>5. OnlyMoves(k)
  BY <1>1, <1>2 DEF Done, Goto, OnlyMoves, OutInv, TypeOK
<1>6. ASSUME action = "delete", NEW u, u = tasks[k].url PROVE Acts(k, u)'
  <2> DEFINE t == [tasks[k] EXCEPT !.stage = "drop"]
  <2>1. t \in Task /\ t.stage = "drop" /\ t.url = tasks[k].url
    BY <1>1 DEF Task, Stages
  <2>2. tasks'[k] = t
    BY <1>1, <1>2, <1>6 DEF Goto, OutInv, TypeOK, Slots
  <2> HIDE DEF t
  <2> QED
    BY <1>6, <2>1, <2>2, OutboxTasks DEF Acts
<1>7. ASSUME NEW u \in Urls, regs'[u] # None, NEW j \in DOMAIN jobs',
             jobs'[j].action = "delete", jobs'[j].url = u
      PROVE  Announced(j, u)' \/ \E w \in Workers : Acts(w, u)'
  <2>1. CASE j = n
    <3>1. action = "delete" /\ u = tasks[k].url
      BY <1>3, <1>7, <2>1
    <3> QED
      BY <1>6, <3>1
  <2>2. CASE j # n
    <3>1. j \in DOMAIN jobs /\ jobs[j].action = "delete" /\ jobs[j].url = u /\ regs[u] # None
      BY <1>1, <1>3, <1>7, <2>2 DEF SameJobs
    <3>2. CASE Announced(j, u)
      BY <1>3, <3>2 DEF Announced, SameJobs
    <3>3. CASE \E w \in Workers \ {k} : Acts(w, u)
      BY <1>5, <3>3 DEF Acts, OnlyMoves
    <3>4. CASE Acts(k, u)
      <4>1. u = tasks[k].url
        BY <3>4 DEF Acts
      <4>2. CASE action = "update"
        BY <1>3, <3>1, <4>1, <4>2 DEF Announced
      <4>3. CASE action = "delete"
        BY <1>6, <4>1, <4>3
      <4> QED
        BY <1>2, <4>2, <4>3
    <3> QED
      BY <3>1, <3>2, <3>3, <3>4 DEF Pursued, Followed
  <2> QED
    BY <2>1, <2>2
<1>8. Followed'
  BY <1>7, Zenon DEF Followed
<1> QED
  BY <1>4, <1>8 DEF Pursued

LEMMA RegistryPursued ==
  ASSUME OutInv, Pursued, NEW k \in Workers, InsertRegistry(k) \/ DropRegistry(k)
  PROVE  Pursued'
<1>1. /\ tasks[k] # None /\ tasks[k] \in Task /\ tasks[k].url \in Urls /\ k \in Slots
      /\ UNCHANGED <<jobs, accepted, gone>> /\ regs \in [Urls -> {None, "pending", "synced", "error"}]
  BY TaskType DEF InsertRegistry, DropRegistry, At, Slots, Knows, OutInv, TypeOK
<1>2. PICK v \in Urls : v = tasks[k].url
  BY <1>1
<1>3. SameJobs
  BY <1>1 DEF SameJobs
<1>4. TakenDown'
  BY <1>1, <1>3, TakenStill DEF Pursued
<1>5. OnlyMoves(k)
  BY <1>1 DEF InsertRegistry, DropRegistry, Done, Goto, OnlyMoves, OutInv, TypeOK
<1>6. \A u \in Urls \ {v} : regs'[u] = regs[u]
  BY <1>1, <1>2 DEF InsertRegistry, DropRegistry
<1>7. \/ regs'[v] = None
      \/ Acts(k, v)'
      \/ regs[v] # None /\ ~Acts(k, v)
  <2>1. CASE DropRegistry(k)
    BY <1>1, <1>2, <2>1 DEF DropRegistry
  <2>2. CASE InsertRegistry(k) /\ regs[v] # None
    BY <1>1, <2>2 DEF InsertRegistry, At, Acts
  <2>3. CASE InsertRegistry(k) /\ regs[v] = None
    <3> DEFINE t == [tasks[k] EXCEPT !.stage = "enqueue"]
    <3>1. t \in Task /\ t.stage = "enqueue" /\ t.url = v
      BY <1>1, <1>2 DEF Task, Stages
    <3>2. tasks'[k] = t
      BY <1>1, <1>2, <2>3 DEF InsertRegistry, Goto, OutInv, TypeOK, Slots
    <3> HIDE DEF t
    <3> QED
      BY <3>1, <3>2, OutboxTasks DEF Acts
  <2> QED
    BY <2>1, <2>2, <2>3
<1>8. ASSUME NEW u \in Urls, regs'[u] # None, NEW j \in DOMAIN jobs',
             jobs'[j].action = "delete", jobs'[j].url = u
      PROVE  Announced(j, u)' \/ \E w \in Workers : Acts(w, u)'
  <2>1. Announced(j, u) => Announced(j, u)'
    BY <1>1 DEF Announced
  <2>2. ASSUME NEW w \in Workers, Acts(w, u), w # k PROVE Acts(w, u)'
    BY <1>5, <2>2 DEF Acts, OnlyMoves
  <2>3. CASE u # v
    <3>1. ~Acts(k, u)
      BY <1>2, <2>3 DEF Acts
    <3> QED
      BY <1>1, <1>6, <1>8, <2>1, <2>2, <2>3, <3>1 DEF Pursued, Followed
  <2>4. CASE u = v
    <3>1. CASE Acts(k, u)'
      BY <3>1
    <3>2. CASE regs[u] # None /\ ~Acts(k, u)
      BY <1>1, <1>8, <2>1, <2>2, <3>2 DEF Pursued, Followed
    <3> QED
      BY <1>7, <1>8, <2>4, <3>1, <3>2
  <2> QED
    BY <2>3, <2>4
<1>9. Followed'
  BY <1>8, Zenon DEF Followed
<1> QED
  BY <1>4, <1>9 DEF Pursued

(* The registry answers: a takedown it took is one of those accepted.      *)
LEMMA PostPursued ==
  ASSUME OutInv, Pursued, NEW k \in Workers, Post(k) PROVE Pursued'
<1>1. /\ tasks[k] # None /\ tasks[k].stage = "post" /\ tasks[k].batch # {} /\ k \in Slots
      /\ UNCHANGED <<jobs, regs>>
  BY TaskType DEF Post, At, Knows, Holding, Slots
<1>2. OnlyMoves(k)
  BY <1>1 DEF Post, Goto, OnlyMoves, OutInv, TypeOK
<1>3. SameJobs /\ DOMAIN jobs' = DOMAIN jobs
  BY <1>1 DEF SameJobs
<1>4. Followed'
  <2>1. \A w \in Workers : \A u \in Urls : Acts(w, u) => Acts(w, u)'
    BY <1>1, <1>2 DEF OnlyMoves, Acts
  <2> QED
    BY <1>1, <1>3, <2>1, FollowedStill DEF Pursued
<1>5. TakenDown'
  <2>1. CASE UNCHANGED <<accepted, gone>>
    BY <1>3, <2>1, TakenStill DEF Pursued
  <2>2. CASE Accept(k)
    <3>1. PICK j \in DOMAIN jobs : j = InHand(k).job
      BY <1>1, InHandIsRead DEF Slots
    <3>2. accepted' = accepted \cup {j}
      BY <2>2, <3>1 DEF Accept
    <3>3. CASE jobs[j].action = "update"
      <4>1. gone' \subseteq gone /\ accepted \subseteq accepted'
        BY <2>2, <3>1, <3>2, <3>3 DEF Accept
      <4> QED
        BY <1>3, <4>1, TakenStill DEF Pursued
    <3>4. CASE jobs[j].action # "update"
      <4>1. gone' = gone \cup {jobs[j].url} /\ jobs[j].action = "delete"
        BY <2>2, <3>1, <3>4, JobType DEF Accept, Job, OutInv
      <4> QED
        BY <1>1, <3>2, <4>1 DEF Pursued, TakenDown
    <3> QED
      BY <3>3, <3>4
  <2> QED
    BY <2>1, <2>2 DEF Post
<1> QED
  BY <1>4, <1>5 DEF Pursued

(* The job in hand is signed or gets a status, and stays about the same.   *)
LEMMA WrittenSame ==
  ASSUME OutInv, NEW k \in Slots, tasks[k] # None, tasks[k].batch # {},
         NEW new, jobs' = [jobs EXCEPT ![InHand(k).job] = new],
         new.url = jobs[InHand(k).job].url, new.action = jobs[InHand(k).job].action
  PROVE  SameJobs /\ DOMAIN jobs' = DOMAIN jobs
BY InHandIsRead DEF SameJobs, Slots

LEMMA JobsSame ==
  ASSUME OutInv, NEW k \in Slots,
         \/ WriteStatus(k) \/ SaveSignature(k) \/ SignAgain(k)
         \/ MarkCompleted(k) \/ MarkFailed(k) \/ ClearSignatures(k)
  PROVE  SameJobs /\ DOMAIN jobs' = DOMAIN jobs
<1>1. \A j \in DOMAIN jobs : jobs[j] \in Job
  BY JobType DEF OutInv
<1>2. CASE UNCHANGED jobs
  BY <1>2 DEF SameJobs
<1>3. CASE ClearSignatures(k)
  <2>1. DOMAIN jobs' = DOMAIN jobs
    BY <1>3 DEF ClearSignatures
  <2>2. ASSUME NEW j \in DOMAIN jobs
        PROVE  jobs'[j].url = jobs[j].url /\ jobs'[j].action = jobs[j].action
    BY <1>1, <1>3 DEF ClearSignatures, Job
  <2> QED
    BY <2>1, <2>2 DEF SameJobs
<1>4. ASSUME tasks[k] # None, tasks[k].batch # {},
             NEW sig, jobs' = [jobs EXCEPT ![InHand(k).job].sig = sig]
      PROVE  SameJobs /\ DOMAIN jobs' = DOMAIN jobs
  <2> DEFINE new == [jobs[InHand(k).job] EXCEPT !.sig = sig]
  <2>1. new.url = jobs[InHand(k).job].url /\ new.action = jobs[InHand(k).job].action
    BY <1>1, <1>4, InHandIsRead DEF Job, Slots
  <2>2. jobs' = [jobs EXCEPT ![InHand(k).job] = new]
    BY <1>4
  <2> HIDE DEF new
  <2> QED
    BY <1>4, <2>1, <2>2, WrittenSame
<1>5. ASSUME tasks[k] # None, tasks[k].batch # {},
             NEW status, jobs' = [jobs EXCEPT ![InHand(k).job].status = status]
      PROVE  SameJobs /\ DOMAIN jobs' = DOMAIN jobs
  <2> DEFINE new == [jobs[InHand(k).job] EXCEPT !.status = status]
  <2>1. new.url = jobs[InHand(k).job].url /\ new.action = jobs[InHand(k).job].action
    BY <1>1, <1>5, InHandIsRead DEF Job, Slots
  <2>2. jobs' = [jobs EXCEPT ![InHand(k).job] = new]
    BY <1>5
  <2> HIDE DEF new
  <2> QED
    BY <1>5, <2>1, <2>2, WrittenSame
<1>6. ASSUME tasks[k] # None, tasks[k].batch # {}, NEW tried, NEW status,
             jobs' = [jobs EXCEPT ![InHand(k).job] =
                       [@ EXCEPT !.attempts = tried, !.status = status]]
      PROVE  SameJobs /\ DOMAIN jobs' = DOMAIN jobs
  <2> DEFINE new == [jobs[InHand(k).job] EXCEPT !.attempts = tried, !.status = status]
  <2>1. new.url = jobs[InHand(k).job].url /\ new.action = jobs[InHand(k).job].action
    BY <1>1, <1>6, InHandIsRead DEF Job, Slots
  <2>2. jobs' = [jobs EXCEPT ![InHand(k).job] = new]
    BY <1>6
  <2> HIDE DEF new
  <2> QED
    BY <1>6, <2>1, <2>2, WrittenSame
<1>7. CASE WriteStatus(k) \/ MarkCompleted(k) \/ MarkFailed(k)
  <2>1. tasks[k] # None /\ tasks[k].batch # {}
    BY <1>7, TaskType DEF WriteStatus, MarkCompleted, MarkFailed, At, Knows, Holding
  <2>2. CASE WriteStatus(k)
    BY <1>5, <2>1, <2>2 DEF WriteStatus
  <2>3. CASE MarkCompleted(k)
    BY <1>2, <1>5, <2>1, <2>3 DEF MarkCompleted
  <2>4. CASE MarkFailed(k)
    BY <1>6, <2>1, <2>4 DEF MarkFailed
  <2> QED
    BY <1>7, <2>2, <2>3, <2>4
<1>8. CASE SaveSignature(k) \/ SignAgain(k)
  <2>1. tasks[k] # None
    BY <1>8 DEF SignAgain, SaveSignature, At
  <2> QED
    BY <1>2, <1>4, <1>8, <2>1 DEF SignAgain, SaveSignature
<1> QED
  BY <1>3, <1>7, <1>8

(* Who moves on from a stage is the only one that moves.                   *)
LEMMA Moves ==
  ASSUME OutInv, NEW k \in Slots, Work(k) \/ Announce(k)
  PROVE  OnlyMoves(k)
<1>1. tasks \in [Slots -> Task \cup {None}] /\ Workers \subseteq Slots
  BY DEF OutInv, TypeOK, Slots
<1>2. ASSUME \E t : tasks' = [tasks EXCEPT ![k] = t] PROVE OnlyMoves(k)
  BY <1>1, <1>2 DEF OnlyMoves
<1>3. ASSUME Done(k) \/ (\E stage : Goto(k, stage)) \/ NextJob(k) PROVE OnlyMoves(k)
  <2>1. ASSUME NEW w \in Workers \ {k} PROVE tasks'[w] = tasks[w]
    BY <1>1, <1>3, <2>1 DEF Done, Goto, NextJob
  <2> QED
    BY <2>1 DEF OnlyMoves
<1>4. CASE InsertRegistry(k) \/ EnqueueAsked(k) \/ DropRegistry(k) \/ WriteStatus(k) \/ Post(k)
  <2>1. Done(k) \/ \E stage : Goto(k, stage)
    BY <1>4, Zenon DEF InsertRegistry, EnqueueAsked, DropRegistry, WriteStatus, Post
  <2> QED
    BY <1>3, <2>1
<1>5. CASE MarkCompleted(k) \/ MarkSynced(k) \/ MarkFailed(k) \/ MarkError(k)
  <2>1. (\E stage : Goto(k, stage)) \/ NextJob(k)
    BY <1>5, Zenon DEF MarkCompleted, MarkSynced, MarkFailed, MarkError
  <2> QED
    BY <1>3, <2>1
<1>6. CASE ReadActive(k) \/ EndBatch(k)
  <2>1. Done(k) \/ \E t : tasks' = [tasks EXCEPT ![k] = t]
    BY <1>6, Zenon DEF ReadActive, EndBatch
  <2> QED
    BY <1>2, <1>3, <2>1
<1>7. CASE LoadChain(k)
  <2>1. (\E stage : Goto(k, stage)) \/ \E t : tasks' = [tasks EXCEPT ![k] = t]
    BY <1>7, Zenon DEF LoadChain
  <2> QED
    BY <1>2, <1>3, <2>1
<1>8. CASE SaveSignature(k) \/ SignAgain(k)
  <2>1. Done(k) \/ \E batch : tasks' = [tasks EXCEPT ![k].batch = batch]
    BY <1>8, Zenon DEF SaveSignature, SignAgain
  <2>2. ASSUME NEW batch, tasks' = [tasks EXCEPT ![k].batch = batch] PROVE OnlyMoves(k)
    BY <1>1, <2>2 DEF OnlyMoves
  <2> QED
    BY <1>3, <2>1, <2>2
<1>9. CASE ReadRegistries(k) \/ ReadAnnounced(k) \/ ReadUnsigned(k)
  <2>1. Done(k) \/ \E t : tasks' = [tasks EXCEPT ![k] = t]
    BY <1>9, Zenon DEF ReadRegistries, ReadAnnounced, ReadUnsigned
  <2> QED
    BY <1>2, <1>3, <2>1
<1>10. CASE ClearSignatures(k) \/ AnnounceTo(k) \/ MarkPending(k)
  <2>1. Done(k) \/ (\E stage : Goto(k, stage)) \/ \E t : tasks' = [tasks EXCEPT ![k] = t]
    <3>1. CASE ClearSignatures(k)
      BY <3>1, Zenon DEF ClearSignatures
    <3>2. CASE AnnounceTo(k)
      BY <3>2, Zenon DEF AnnounceTo
    <3>3. CASE MarkPending(k)
      BY <3>3, Zenon DEF MarkPending
    <3> QED
      BY <1>10, <3>1, <3>2, <3>3
  <2> QED
    BY <1>2, <1>3, <2>1
<1> QED
  BY <1>4, <1>5, <1>6, <1>7, <1>8, <1>9, <1>10 DEF Work, Announce

LEMMA WorkPursued ==
  ASSUME OutInv, Pursued, NEW k \in Workers, Work(k) PROVE Pursued'
<1>1. k \in Slots /\ OnlyMoves(k)
  BY Moves DEF Slots
<1>2. CASE InsertRegistry(k) \/ DropRegistry(k) \/ EnqueueAsked(k) \/ Post(k)
  BY <1>2, RegistryPursued, EnqueuePursued, PostPursued
<1>3. CASE WriteStatus(k) \/ SaveSignature(k) \/ MarkCompleted(k) \/ MarkFailed(k)
  <2>1. SameJobs /\ DOMAIN jobs' = DOMAIN jobs
    BY <1>1, <1>3, JobsSame
  <2>2. Elsewhere(k) /\ UNCHANGED <<regs, accepted, gone>>
    BY <1>3 DEF WriteStatus, SaveSignature, MarkCompleted, MarkFailed, At, Elsewhere
  <2> QED
    BY <1>1, <2>1, <2>2, InPlace
<1>4. CASE ReadActive(k) \/ EndBatch(k) \/ LoadChain(k)
  <2>1. Elsewhere(k) /\ UNCHANGED <<regs, jobs, accepted, gone>>
    BY <1>4 DEF ReadActive, EndBatch, LoadChain, At, Elsewhere, outbox
  <2> QED
    BY <1>1, <2>1, InPlace DEF SameJobs
<1>5. CASE MarkSynced(k) \/ MarkError(k)
  <2>1. Elsewhere(k) /\ UNCHANGED <<jobs, accepted, gone>>
    BY <1>5 DEF MarkSynced, MarkError, At, Elsewhere
  <2>2. \A u \in Urls : regs'[u] # None => regs[u] # None
    BY <1>5 DEF MarkSynced, MarkError, SetStatus, OutInv, TypeOK
  <2> QED
    BY <1>1, <2>1, <2>2, InPlace DEF SameJobs
<1> QED
  BY <1>2, <1>3, <1>4, <1>5 DEF Work

LEMMA AnnouncePursued ==
  ASSUME OutInv, Pursued, NEW k \in Rotators, Announce(k) PROVE Pursued'
<1>1. k \in Slots /\ OnlyMoves(k)
  BY Moves DEF Slots
<1>2. CASE ReadRegistries(k) \/ ReadAnnounced(k) \/ ReadUnsigned(k)
  <2>1. Elsewhere(k) /\ UNCHANGED <<regs, jobs, accepted, gone>>
    BY <1>2 DEF ReadRegistries, ReadAnnounced, ReadUnsigned, At, Elsewhere, outbox
  <2> QED
    BY <1>1, <2>1, InPlace DEF SameJobs
<1>3. CASE ClearSignatures(k) \/ SignAgain(k)
  <2>1. SameJobs /\ DOMAIN jobs' = DOMAIN jobs
    BY <1>1, <1>3, JobsSame
  <2>2. Elsewhere(k) /\ UNCHANGED <<regs, accepted, gone>>
    BY <1>3 DEF ClearSignatures, SignAgain, At, Elsewhere
  <2> QED
    BY <1>1, <2>1, <2>2, InPlace
<1>4. CASE AnnounceTo(k)
  <2>1. Elsewhere(k) /\ UNCHANGED <<regs, accepted, gone>>
    BY <1>4 DEF AnnounceTo, At, Elsewhere
  <2>2. UNCHANGED jobs \/ \E u \in tasks[k].urls : Enqueue("update", u)
    BY <1>4 DEF AnnounceTo
  <2>3. SameJobs /\ \A j \in DOMAIN jobs' \ DOMAIN jobs : jobs'[j].action = "update"
    <3>1. CASE UNCHANGED jobs
      BY <3>1 DEF SameJobs
    <3>2. CASE \E u \in tasks[k].urls : Enqueue("update", u)
      BY <3>2, NewJob
    <3> QED
      BY <2>2, <3>1, <3>2
  <2> QED
    BY <1>1, <2>1, <2>3, InPlace
<1>5. CASE MarkPending(k)
  <2>1. Elsewhere(k) /\ UNCHANGED <<jobs, accepted, gone>>
    BY <1>5 DEF MarkPending, At, Elsewhere
  <2>2. \A u \in Urls : regs'[u] # None => regs[u] # None
    BY <1>5 DEF MarkPending, OutInv, TypeOK
  <2> QED
    BY <1>1, <2>1, <2>2, InPlace DEF SameJobs
<1> QED
  BY <1>2, <1>3, <1>4, <1>5 DEF Announce

(* Nothing happens to the outbox: who starts was idle.                     *)
LEMMA BeginPursued ==
  ASSUME OutInv, Pursued, UNCHANGED outbox,
         UNCHANGED tasks \/ \E k \in Slots :
           tasks[k] = None /\ \E t : tasks' = [tasks EXCEPT ![k] = t]
  PROVE  Pursued'
<1>1. UNCHANGED <<regs, jobs, accepted, gone>>
  BY DEF outbox
<1>2. CASE UNCHANGED tasks
  BY <1>1, <1>2 DEF Pursued, Followed, TakenDown, Announced, Acts
<1>3. ASSUME NEW k \in Slots, tasks[k] = None, NEW t, tasks' = [tasks EXCEPT ![k] = t]
      PROVE  Pursued'
  <2>1. OnlyMoves(k) /\ Elsewhere(k)
    BY <1>3 DEF OnlyMoves, Elsewhere, OutInv, TypeOK
  <2> QED
    BY <1>1, <2>1, InPlace DEF SameJobs
<1> QED
  BY <1>2, <1>3

Chased == OutInv /\ (faults = 0 => Pursued)

LEMMA ChasedStep == Chased /\ [Next]_vars => Chased'
<1> SUFFICES ASSUME Chased, [Next]_vars PROVE Chased'
  OBVIOUS
<1>1. OutInv /\ OutInv'
  BY OutStep DEF Chased
<1>2. ASSUME Next, faults' = 0 PROVE Pursued'
  <2>1. ~Fault /\ Pursued
    BY <1>1, <1>2, FaultsGrow DEF Fault, Chased, OutInv, IInv, RotationTypeOK
  <2>2. \A k : ~Throw(k)
    BY <2>1 DEF Throw
  <2>3. ASSUME NEW k \in Rotators, Rotate(k) PROVE Pursued'
    BY <1>1, <2>1, <2>3, BeginPursued DEF Rotate
  <2>4. ASSUME NEW k \in Rotators, StartRepublish(k) PROVE Pursued'
    BY <1>1, <2>1, <2>4, BeginPursued DEF StartRepublish, Slots
  <2>5. ASSUME NEW k \in Requests, Ask(k) PROVE Pursued'
    <3>1. \E t : Request(k, t)
      BY <2>5 DEF Ask, StartAdd, StartRemove, StartRetry, StartCancel, StartSync
    <3> QED
      BY <1>1, <2>1, <3>1, BeginPursued DEF Request, Start, Slots, Workers
  <2>6. CASE StartDeliver
    BY <1>1, <2>1, <2>6, BeginPursued DEF StartDeliver, Start, Slots, Workers
  <2> QED
    BY <1>1, <1>2, <2>1, <2>2, <2>3, <2>4, <2>5, <2>6, WorkPursued, AnnouncePursued DEF Next
<1>3. ASSUME UNCHANGED vars, faults' = 0 PROVE Pursued'
  <2>1. UNCHANGED <<faults, tasks, outbox>>
    BY <1>3 DEF vars, rotationVars, outboxVars
  <2> QED
    BY <1>1, <1>3, <2>1, BeginPursued DEF Chased
<1> QED
  BY <1>1, <1>2, <1>3 DEF Chased

LEMMA ChasedAlways == Spec => []Chased
<1>1. Init => Chased
  <2> SUFFICES ASSUME Init PROVE OutInv /\ Pursued
    BY DEF Chased
  <2>1. jobs = <<>> /\ gone = {} /\ \A u \in Urls : regs[u] = None
    BY DEF Init
  <2> QED
    BY <2>1, OutInit DEF Pursued, Followed, TakenDown
<1> QED
  BY <1>1, ChasedStep, PTL DEF Spec

(* The list of registries tells where the identity stands: with nothing    *)
(* under way, one called synced holds a record under the current root, and *)
(* one called pending has an update that is waiting or was cancelled, with *)
(* whatever republishAfterRotation, syncs and polls did before.  A record  *)
(* that is missing all the same was taken down late: by a removal that a   *)
(* newer announcement of the registry overtook.                            *)
THEOREM StandingSafe == Spec => []StatusTells
<1>1. Kept /\ Chased => StatusTells
  <2> SUFFICES ASSUME Kept, Chased, Quiet, NEW u \in Urls PROVE
        /\ regs[u] = "synced" => \/ RecordOf(u) = CurrentRoot
                                 \/ u \in gone /\ AnnouncedAgain(u)
        /\ regs[u] = "pending" => \E j \in DOMAIN jobs :
             /\ jobs[j].action = "update" /\ jobs[j].url = u
             /\ jobs[j].status # "completed"
    BY DEF StatusTells
  <2>1. Steady /\ Tidy(regs, jobs, shown, CurrentRoot) /\ Pursued
    BY DEF Kept, Chased, Calm, Quiet, Settled, Steady
  <2>2. regs[u] = "pending" => Awaited(jobs, u)
    BY <2>1 DEF Steady, Quiet
  <2>3. regs[u] = "synced" /\ u \notin gone => RecordOf(u) = CurrentRoot
    BY <2>1 DEF Tidy, RecordOf
  <2>4. ASSUME regs[u] = "synced", u \in gone PROVE AnnouncedAgain(u)
    <3>1. PICK j \in accepted :
            j \in DOMAIN jobs /\ jobs[j].action = "delete" /\ jobs[j].url = u
      BY <2>1, <2>4 DEF Pursued, TakenDown
    <3>2. \A k \in Workers : ~Acts(k, u)
      BY DEF Quiet, Acts
    <3>3. Announced(j, u)
      BY <2>1, <2>4, <3>1, <3>2, OutboxNone DEF Pursued, Followed
    <3> QED
      BY <3>1, <3>3 DEF Announced, AnnouncedAgain
  <2> QED
    BY <2>2, <2>3, <2>4 DEF Awaited
<1> QED
  BY <1>1, KeptAlways, ChasedAlways, PTL
===============================================================================

----------------------------- MODULE RootRotation -----------------------------
(***************************************************************************)
(* The root keys of one local identity: RotationService.rotate with its    *)
(* two custodies, the append-only chain of IdentityRotationRepository, and *)
(* the delegations PlatformService signs under the root (all under         *)
(* apps/slyng/api/src/idp).                                                *)
(*                                                                         *)
(* An identity whose seed the server keeps (wrapped in Aegis) is rotated   *)
(* with the password; one whose root lives on a device is rotated by a     *)
(* statement the device signed.  Either way the chain is read, a successor *)
(* prepared, and appended some awaits later; nothing is locked, and what   *)
(* keeps the chain linear is the unique index on (did, seq).  A root is    *)
(* the number of its making, 0 the genesis key the DID is derived from;    *)
(* a signature is the root that made it.                                   *)
(***************************************************************************)
EXTENDS Integers, FiniteSets

CONSTANTS Rotators,      \* bound: rotations and delegations under way at once
          Delegations,   \* bound: rows of delegated_key
          MaxRoots,      \* bound: keys ever made
          MaxFaults,     \* bound: how many database calls fail
          None

ASSUME RotationBounds == MaxRoots \in Nat /\ MaxFaults \in Nat
ASSUME RotationDelegations == IsFiniteSet(Delegations)

VARIABLES
  chain,   \* identity_rotation: the statement of each seq (the index is unique)
  seed,    \* the root whose seed the identity row wraps, None on a device
  sigs,    \* delegated_key.signature of each row, None before it is created
  minted,  \* how many keys were made after the genesis key
  faults,  \* how many database calls failed
  rots     \* rotations and delegations waiting for the database

identity == <<chain, seed, sigs, minted>>
rotationVars == <<identity, faults, rots>>

Genesis == 0
Roots == 0..MaxRoots
Statement == [seq : Nat \ {0}, prev : Roots, new : Roots, signer : Roots]
RotStages == {"chain", "prepare", "append", "resign", "republish", "create"}
Rot == [stage : RotStages,
        seed : Roots \cup {None},        \* the wrapped seed as read
        stmt : Statement \cup {None},    \* the statement offered or prepared
        todo : SUBSET Delegations]       \* rows whose new signature is made
ASSUME RotationNone == None \notin Rot \cup Statement \cup Roots

Rows(c) == Cardinality(DOMAIN c)

RotationTypeOK ==
  /\ DOMAIN chain \subseteq Nat \ {0} /\ IsFiniteSet(DOMAIN chain)
  /\ \A i \in DOMAIN chain : chain[i] \in Statement
  /\ seed \in Roots \cup {None}
  /\ sigs \in [Delegations -> Roots \cup {None}]
  /\ minted \in Roots
  /\ faults \in 0..MaxFaults
  /\ rots \in [Rotators -> Rot \cup {None}]

RotationInit ==
  /\ chain = [i \in {} |-> None]
  /\ seed \in {Genesis, None}
  /\ sigs = [d \in Delegations |-> None]
  /\ minted = 0
  /\ faults = 0
  /\ rots = [k \in Rotators |-> None]

-----------------------------------------------------------------------------
RootOf(c) == IF Rows(c) = 0 THEN Genesis ELSE c[Rows(c)].new
CurrentRoot == RootOf(chain)

(* verify_rotation_chain: no gap in seq, each statement names and is       *)
(* signed by the root before it, the first by the genesis key.             *)
Verifies(c) ==
  /\ DOMAIN c = 1..Rows(c)
  /\ \A i \in DOMAIN c :
       /\ c[i].seq = i
       /\ c[i].prev = IF i = 1 THEN Genesis ELSE c[i - 1].new
       /\ c[i].signer = c[i].prev

(* A row inserted at its seq.                                              *)
WithRow(c, st) ==
  [i \in DOMAIN c \cup {st.seq} |-> IF i = st.seq THEN st ELSE c[i]]

RootsOf(c) == {Genesis} \cup {c[i].new : i \in DOMAIN c}

RotAt(k, stage) == rots[k] # None /\ rots[k].stage = stage
RotGoto(k, stage) == rots' = [rots EXCEPT ![k].stage = stage]
RotDone(k) == rots' = [rots EXCEPT ![k] = None]

Fault == faults < MaxFaults /\ faults' = faults + 1

Custodial(k) == rots[k].seed # None

-----------------------------------------------------------------------------
(* rotate reads the identity row, the wrapped seed with it; the key it     *)
(* will make is counted here, its place in the chain is not known yet.     *)
RotateAegis(k) ==
  /\ rots[k] = None
  /\ seed # None
  /\ minted < MaxRoots
  /\ minted' = minted + 1
  /\ rots' = [rots EXCEPT ![k] =
       [stage |-> "chain", seed |-> seed, todo |-> {},
        stmt |-> [seq |-> 1, prev |-> Genesis, new |-> minted + 1, signer |-> seed]]]
  /\ UNCHANGED <<chain, seed, sigs, faults>>

(* A device signs the successor of a chain it saw, maybe a while ago.      *)
RotateExternal(k) ==
  /\ rots[k] = None
  /\ seed = None
  /\ minted < MaxRoots
  /\ minted' = minted + 1
  /\ \E n \in 0..Rows(chain) :
       LET prev == IF n = 0 THEN Genesis ELSE chain[n].new
       IN rots' = [rots EXCEPT ![k] =
            [stage |-> "chain", seed |-> None, todo |-> {},
             stmt |-> [seq |-> n + 1, prev |-> prev, new |-> minted + 1, signer |-> prev]]]
  /\ UNCHANGED <<chain, seed, sigs, faults>>

(* The stored chain must verify.  A device's statement must extend the     *)
(* chain as read; a custodial one is given its place now.  A wrong         *)
(* password, a refused statement and a failed call end the request.        *)
ReadChain(k) ==
  /\ RotAt(k, "chain")
  /\ \/ /\ Custodial(k) /\ Verifies(chain)
        /\ rots' = [rots EXCEPT ![k] =
             [stage |-> "prepare", seed |-> @.seed, todo |-> {},
              stmt |-> [seq |-> Rows(chain) + 1, prev |-> CurrentRoot,
                        new |-> @.stmt.new, signer |-> @.stmt.signer]]]
     \/ /\ ~Custodial(k) /\ Verifies(chain)
        /\ rots[k].stmt.seq = Rows(chain) + 1
        /\ rots[k].stmt.prev = CurrentRoot
        /\ Verifies(WithRow(chain, rots[k].stmt))
        /\ RotGoto(k, "append")
     \/ RotDone(k)
  /\ UNCHANGED <<identity, faults>>

\* Mutant: the delegations are written before the chain is.
ResignEarly(k) ==
  /\ RotAt(k, "prepare")
  /\ IF rots[k].stmt.signer = rots[k].stmt.prev
     THEN /\ rots' = [rots EXCEPT ![k].stage = "append"]
          /\ sigs' = [d \in Delegations |-> IF sigs[d] = None THEN None ELSE rots[k].stmt.new]
     ELSE RotDone(k) /\ UNCHANGED sigs
  /\ UNCHANGED <<chain, seed, minted, faults>>

\* Mutant: the seed read is not compared with the head read.
SelfCheckSkipped(k) ==
  /\ RotAt(k, "prepare")
  /\ rots' = [rots EXCEPT ![k] = [@ EXCEPT !.stage = "append",
                                  !.todo = {d \in Delegations : sigs[d] # None}]]
  /\ UNCHANGED <<identity, faults>>

(* The delegations to sign again are read, statement and signatures made;  *)
(* the self-check asks whether the seed read belongs to the head read.     *)
Prepare(k) ==
  /\ RotAt(k, "prepare")
  /\ IF rots[k].stmt.signer = rots[k].stmt.prev
     THEN rots' = [rots EXCEPT ![k] = [@ EXCEPT !.stage = "append",
                                       !.todo = {d \in Delegations : sigs[d] # None}]]
     ELSE RotDone(k)
  /\ UNCHANGED <<identity, faults>>

\* Mutant: the seed is wrapped again outside the transaction.
RewrapFirst(k) ==
  /\ RotAt(k, "append")
  /\ seed' = IF Custodial(k) THEN rots[k].stmt.new ELSE seed
  /\ IF rots[k].stmt.seq \in DOMAIN chain
     THEN RotDone(k) /\ UNCHANGED chain
     ELSE RotGoto(k, "resign") /\ chain' = WithRow(chain, rots[k].stmt)
  /\ UNCHANGED <<sigs, minted, faults>>

(* appendRotation: the statement and the re-wrapped seed in one            *)
(* transaction, which the index on (did, seq) rolls back as a whole.       *)
AppendRotation(k) ==
  /\ RotAt(k, "append")
  /\ \/ /\ rots[k].stmt.seq \notin DOMAIN chain
        /\ chain' = WithRow(chain, rots[k].stmt)
        /\ seed' = IF Custodial(k) THEN rots[k].stmt.new ELSE seed
        /\ RotGoto(k, "resign")
        /\ UNCHANGED faults
     \/ /\ IF rots[k].stmt.seq \in DOMAIN chain THEN UNCHANGED faults ELSE Fault
        /\ RotDone(k)
        /\ UNCHANGED <<chain, seed>>
  /\ UNCHANGED <<sigs, minted>>

(* One delegation after another is given its new signature; a call that    *)
(* fails ends the request, the rest of it and the announcement are lost.   *)
Resign(k) ==
  /\ RotAt(k, "resign")
  /\ \/ /\ rots[k].todo = {}
        /\ RotGoto(k, "republish")
        /\ UNCHANGED <<sigs, faults>>
     \/ \E d \in rots[k].todo :
          /\ sigs' = [sigs EXCEPT ![d] = rots[k].stmt.new]
          /\ rots' = [rots EXCEPT ![k].todo = @ \ {d}]
          /\ UNCHANGED faults
     \/ /\ rots[k].todo # {}
        /\ Fault /\ RotDone(k)
        /\ UNCHANGED sigs
  /\ UNCHANGED <<chain, seed, minted>>

(* finishRotation announces the new root (RegistryOutbox), and is done.    *)
FinishRotation(k) ==
  /\ RotAt(k, "republish")
  /\ RotDone(k)
  /\ UNCHANGED <<identity, faults>>

-----------------------------------------------------------------------------
(* createPlatformDelegation with a root signing function made from an      *)
(* identity row its caller has read (createAegisRootSignFn).               *)
DelegateStart(k) ==
  /\ rots[k] = None
  /\ seed # None
  /\ \E d \in Delegations : sigs[d] = None
  /\ rots' = [rots EXCEPT ![k] = [stage |-> "create", seed |-> seed,
                                  stmt |-> None, todo |-> {}]]
  /\ UNCHANGED <<identity, faults>>

(* The row is created with a signature by the seed read at the start.      *)
CreateDelegation(k) ==
  /\ RotAt(k, "create")
  /\ \/ \E d \in Delegations :
          sigs[d] = None /\ sigs' = [sigs EXCEPT ![d] = rots[k].seed]
     \/ UNCHANGED sigs
  /\ RotDone(k)
  /\ UNCHANGED <<chain, seed, minted, faults>>

RotationStep(k) ==
  \/ RotateAegis(k) \/ RotateExternal(k) \/ ReadChain(k) \/ Prepare(k)
  \/ AppendRotation(k) \/ Resign(k) \/ DelegateStart(k) \/ CreateDelegation(k)

RotationNext == \E k \in Rotators : RotationStep(k) \/ FinishRotation(k)
RotationSpec == RotationInit /\ [][RotationNext]_rotationVars

-----------------------------------------------------------------------------
(* Rotations that overlap, and statements of devices that saw an older     *)
(* chain, never gap, fork or falsify the stored chain: it is genesis       *)
(* anchored, and every consumer that verifies it finds one current root.   *)
ChainVerifies == Verifies(chain)

(* The seed the server keeps is always that of the current root: a         *)
(* rotation that loses against another leaves the winner's seed alone, so  *)
(* the password keeps opening the key the chain ends with.                 *)
SeedIsHead == seed # None => seed = CurrentRoot

(* Every delegation is signed by a root the chain vouches for, whatever    *)
(* order signatures and rotations were written in and wherever a rotation  *)
(* stopped: no delegation is signed by a key that was prepared and lost.   *)
DelegationsVouched ==
  \A d \in Delegations : sigs[d] # None => sigs[d] \in RootsOf(chain)
===============================================================================

------------------------- MODULE GatewayAdmissionProofs -------------------------
(***************************************************************************)
(* Proofs about GatewayAdmission, for every set of chains and emitters and *)
(* every bound.                                                            *)
(*                                                                         *)
(* The properties of the module are almost inductive together; Bookkeeping *)
(* has what they miss.  What a step does to the roots is one of six things *)
(* (RootEffects), and the counting and the refinement are proved from that *)
(* list rather than from the actions.                                      *)
(***************************************************************************)
EXTENDS GatewayAdmission, FiniteSetTheorems, TLAPS

\* A chain that waits holds no root; roots are numbered as they are created,
\* and their lines after the first root; no lease is from the future; and the
\* run loop asks for the roots only while it drains.
Bookkeeping ==
    /\ \A c \in Chains : waiter[c] \in {"waiting", "woken"} => own[c] = NoRoot
    /\ \A r \in 1..created : origin[r] \in 1..created
    /\ \A r \in Roots : r > created => origin[r] = r
    /\ \A e \in Emitters : signalLease[e] <= signalGeneration
    /\ drain # "none" => restartDraining

IInv ==
    /\ TypeOK /\ RootsAreCounted /\ WaitersAreWoken
    /\ DrainWaitsForSomething /\ DrainedIsFinal /\ FenceHasOneOwner
    /\ Bookkeeping

-----------------------------------------------------------------------------
(* What a step does to the roots.                                          *)

\* A chain that holds nothing gets a root: a new line through an open gate, or
\* the continuation of a line that is under way.
Admits(c, from) ==
    /\ own[c] = NoRoot /\ NewRoot(c, from)
    /\ (from = NoRoot /\ ~Closed) \/ from \in activeRootWork
    /\ UNCHANGED <<fenceVars, phaseVars, drain>>

GivesOwnUp(c) ==
    /\ own[c] # NoRoot /\ Release(own[c], FALSE)
    /\ own' = [own EXCEPT ![c] = NoRoot]
    /\ UNCHANGED <<fenceVars, phaseVars, retained, waiter>>

GivesRetainedUp(c) ==
    /\ retained[c] # NoRoot /\ Release(retained[c], FALSE)
    /\ retained' = [retained EXCEPT ![c] = NoRoot]
    /\ UNCHANGED <<fenceVars, phaseVars, own, waiter>>

\* A chain under an unreleased root runs under an active one.
LEMMA LiveIsActive ==
    ASSUME IInv, NEW c \in Chains, Live(c)
    PROVE  store[c] \in activeRootWork
BY DEF IInv, TypeOK, RootsAreCounted, Live, NoRoot

\* A lease that is released once counts once, however often its release is called.
LEMMA ReleasesCountOnce ==
    ASSUME NEW r, ReleaseAgain(r)
    PROVE  UNCHANGED admissionVars
BY DEF ReleaseAgain, Release, admissionVars, rootVars, chainVars

\* Roots and leases change by an admission, a retention, a release or a reset.
LEMMA RootEffects ==
    ASSUME IInv, [Next]_admissionVars
    PROVE  \/ UNCHANGED <<rootVars, own, retained>>
           \/ \E c \in Chains : \E from \in {NoRoot} \cup activeRootWork : Admits(c, from)
           \/ \E c \in Chains : Retain(c)
           \/ \E c \in Chains : GivesOwnUp(c) \/ GivesRetainedUp(c)
           \/ Reset
<1>1. CASE UNCHANGED admissionVars
    BY <1>1 DEF admissionVars, chainVars
<1>2. ASSUME NEW c \in Chains, ChainStep(c)
      PROVE  \/ UNCHANGED <<rootVars, own, retained>>
             \/ \E d \in Chains : \E from \in {NoRoot} \cup activeRootWork : Admits(d, from)
             \/ \E d \in Chains : Retain(d)
             \/ \E d \in Chains : GivesOwnUp(d) \/ GivesRetainedUp(d)
    <2>1. CASE Begin(c)
        BY <2>1 DEF Begin, Admits, Free
    <2>2. CASE AwaitOpen(c)
        BY <2>2 DEF AwaitOpen, chainVars
    <2>3. CASE Recheck(c)
        <3>1. own[c] = NoRoot
            BY <2>3 DEF Recheck, IInv, Bookkeeping
        <3> QED
            BY <2>3, <3>1 DEF Recheck, Admits, chainVars
    <2>4. ASSUME NEW d \in Chains, Continue(c, d)
          PROVE  \E from \in activeRootWork : Admits(d, from)
        <3>1. store[c] \in activeRootWork
            BY <2>4, LiveIsActive DEF Continue
        <3> QED
            BY <2>4, <3>1 DEF Continue, Admits, Idle, Free
    <2>5. ASSUME NEW d \in Chains, Spawn(c, d)
          PROVE  UNCHANGED <<rootVars, own, retained>>
        BY <2>5 DEF Spawn
    <2>6. CASE Leave(c)
        BY <2>6 DEF Leave
    <2>7. CASE Retain(c)
        BY <2>7
    <2>8. ASSUME NEW detached \in BOOLEAN, ReleaseOwn(c, detached)
          PROVE  GivesOwnUp(c)
        BY <2>8 DEF ReleaseOwn, GivesOwnUp
    <2>9. CASE ReleaseRetained(c)
        BY <2>9 DEF ReleaseRetained, GivesRetainedUp
    <2>10. ASSUME NEW r, ReleaseAgain(r)
           PROVE  UNCHANGED <<rootVars, own, retained>>
        BY <2>10, ReleasesCountOnce DEF admissionVars, chainVars
    <2> QED
        BY <1>2, <2>1, <2>2, <2>3, <2>4, <2>5, <2>6, <2>7, <2>8, <2>9, <2>10 DEF ChainStep
<1>3. CASE SignalStep \/ MarkRestartDraining
    BY <1>3 DEF SignalStep, BeginSignal, RollbackSignal, RollbackFence, MarkRestartDraining,
                chainVars
<1>4. CASE DrainStep
    BY <1>4 DEF DrainStep, WaitForRoots, DrainTimeout, DrainResumes, chainVars
<1>5. CASE BeginSuspend
    BY <1>5 DEF BeginSuspend, chainVars
<1>6. ASSUME NEW g \in 1..suspendGeneration, SuspendLeaseCall(g)
      PROVE  UNCHANGED <<rootVars, own, retained>>
    BY <1>6 DEF SuspendLeaseCall, Transition, chainVars
<1> QED
    BY <1>1, <1>2, <1>3, <1>4, <1>5, <1>6 DEF Next

-----------------------------------------------------------------------------
(* Counting leases.                                                        *)

Holders(f, r) == {c \in Chains : f[c] = r}

\* The number of chains that hold r is a number, and positive when one does.
LEMMA HoldersAreFinite ==
    ASSUME NEW f, NEW r
    PROVE  /\ IsFiniteSet(Holders(f, r)) /\ Cardinality(Holders(f, r)) \in Nat
           /\ \A c \in Chains : f[c] = r => Cardinality(Holders(f, r)) > 0
<1>1. IsFiniteSet(Holders(f, r))
    BY AdmissionAssumption, FS_Subset DEF Holders
<1>2. Cardinality(Holders(f, r)) \in Nat
    BY <1>1, FS_CardinalityType
<1>3. \A c \in Chains : f[c] = r => Holders(f, r) # {}
    BY DEF Holders
<1>4. Holders(f, r) # {} => Cardinality(Holders(f, r)) # 0
    BY <1>1, FS_EmptySet
<1> QED
    BY <1>1, <1>2, <1>3, <1>4

\* A chain that takes a lease adds one to its root and changes no other count.
LEMMA Takes ==
    ASSUME NEW f \in [Chains -> Nat], NEW c \in Chains, f[c] = NoRoot,
           NEW n \in Nat \ {0}, NEW r \in Nat \ {0}, NEW g, g = [f EXCEPT ![c] = n]
    PROVE  Cardinality(Holders(g, r))
             = Cardinality(Holders(f, r)) + (IF r = n THEN 1 ELSE 0)
<1>1. g[c] = n /\ \A d \in Chains \ {c} : g[d] = f[d]
    OBVIOUS
<1>2. CASE r = n
    <2>1. Holders(g, r) = Holders(f, r) \cup {c} /\ c \notin Holders(f, r)
        BY <1>1, <1>2 DEF Holders, NoRoot
    <2> QED
        BY <1>2, <2>1, HoldersAreFinite, FS_AddElement
<1>3. CASE r # n
    <2>1. Holders(g, r) = Holders(f, r)
        BY <1>1, <1>3 DEF Holders, NoRoot
    <2> QED
        BY <1>3, <2>1, HoldersAreFinite
<1> QED
    BY <1>2, <1>3

\* A chain that gives its lease up takes one from its root and from no other.
LEMMA GivesUp ==
    ASSUME NEW f \in [Chains -> Nat], NEW c \in Chains, NEW r \in Nat \ {0},
           NEW g, g = [f EXCEPT ![c] = NoRoot]
    PROVE  Cardinality(Holders(g, r))
             = Cardinality(Holders(f, r)) - (IF r = f[c] THEN 1 ELSE 0)
<1>1. g[c] = NoRoot /\ \A d \in Chains \ {c} : g[d] = f[d]
    OBVIOUS
<1>2. CASE r = f[c]
    <2>1. Holders(g, r) = Holders(f, r) \ {c} /\ c \in Holders(f, r)
        BY <1>1, <1>2 DEF Holders, NoRoot
    <2>2. IsFiniteSet(Holders(f, r))
        BY HoldersAreFinite
    <2>3. Cardinality(Holders(f, r) \ {c}) = Cardinality(Holders(f, r)) - 1
        BY <2>1, <2>2, FS_RemoveElement
    <2> QED
        BY <1>2, <2>1, <2>3
<1>3. CASE r # f[c]
    <2>1. Holders(g, r) = Holders(f, r)
        BY <1>1, <1>3 DEF Holders, NoRoot
    <2> QED
        BY <1>3, <2>1, HoldersAreFinite
<1> QED
    BY <1>2, <1>3

\* RootsAreCounted, with the counts by name.
LEMMA Counted ==
    RootsAreCounted <=>
        /\ activeRootWork = (1..created) \ released
        /\ \A r \in activeRootWork :
              /\ references[r] = Cardinality(Holders(own, r)) + Cardinality(Holders(retained, r))
              /\ references[r] > 0
BY DEF RootsAreCounted, Holders

-----------------------------------------------------------------------------
(* The roots, their leases and their lines.                                *)

RootTypes ==
    /\ created \in 0..MaxRoots /\ released \subseteq 1..created
    /\ spent \subseteq 1..created
    /\ references \in [Roots -> Nat] /\ origin \in [Roots -> Nat]
    /\ own \in [Chains -> 0..created] /\ retained \in [Chains -> 0..created]

Lineage ==
    /\ \A r \in 1..created : origin[r] \in 1..created
    /\ \A r \in Roots : r > created => origin[r] = r

RootInv == RootTypes /\ RootsAreCounted /\ Lineage

\* The invariant says all of it.
LEMMA InvHasRootInv == IInv => RootInv
BY DEF IInv, TypeOK, Bookkeeping, RootInv, RootTypes, Lineage

\* A new root has one lease, and the line of the root it continues.
LEMMA AdmitsKeepsRoots ==
    ASSUME RootInv, NEW c \in Chains, NEW from \in {NoRoot} \cup activeRootWork,
           Admits(c, from)
    PROVE  RootInv'
<1> DEFINE n == created + 1
<1>1. /\ created \in Nat /\ n \in Roots /\ created' = n /\ n <= MaxRoots
      /\ activeRootWork' = activeRootWork \cup {n}
      /\ released' = released /\ spent' = spent /\ retained' = retained
      /\ own' = [own EXCEPT ![c] = n] /\ own[c] = NoRoot
    BY AdmissionAssumption DEF Admits, NewRoot, RootInv, RootTypes, Roots
<1>2. /\ references' = [references EXCEPT ![n] = 1]
      /\ origin' = [origin EXCEPT ![n] = IF from = NoRoot THEN @ ELSE origin[from]]
    BY DEF Admits, NewRoot
<1>3. /\ created \in 0..MaxRoots /\ released \subseteq 1..created
      /\ spent \subseteq 1..created
      /\ references \in [Roots -> Nat] /\ origin \in [Roots -> Nat]
      /\ own \in [Chains -> 0..created] /\ retained \in [Chains -> 0..created]
      /\ activeRootWork = (1..created) \ released
    BY DEF RootInv, RootTypes, RootsAreCounted
<1> HIDE DEF n
<1>4. n = created + 1
    BY DEF n
<1>5. /\ from # NoRoot => from \in 1..created /\ origin[from] \in 1..created
      /\ origin[n] = n
    BY <1>1, <1>3, <1>4 DEF RootInv, Lineage, NoRoot
<1>6. RootTypes'
    <2>1. /\ created' \in 0..MaxRoots /\ released' \subseteq 1..created'
          /\ spent' \subseteq 1..created'
        BY <1>1, <1>3, <1>4
    <2>2. references' \in [Roots -> Nat] /\ origin' \in [Roots -> Nat]
        BY <1>1, <1>2, <1>3, <1>5
    <2>3. 0..created \subseteq 0..created' /\ n \in 0..created'
        BY <1>1, <1>4
    <2>4. own' \in [Chains -> 0..created'] /\ retained' \in [Chains -> 0..created']
        BY <1>1, <1>3, <2>3
    <2> QED
        BY <2>1, <2>2, <2>4 DEF RootTypes
<1>7. RootsAreCounted'
    <2>1. activeRootWork' = (1..created') \ released'
        BY <1>1, <1>3, <1>4
    <2>2. ASSUME NEW r \in activeRootWork'
          PROVE  /\ references'[r] = Cardinality(Holders(own', r)) + Cardinality(Holders(retained', r))
                 /\ references'[r] > 0
        <3>1. own \in [Chains -> Nat] /\ n \in Nat \ {0} /\ r \in Nat \ {0}
            BY <1>1, <1>3, <1>4, <2>1
        <3>2. Cardinality(Holders(own', r))
                = Cardinality(Holders(own, r)) + (IF r = n THEN 1 ELSE 0)
            <4>1. own' = [own EXCEPT ![c] = n] /\ own[c] = NoRoot
                BY <1>1
            <4>2. \A g : g = [own EXCEPT ![c] = n] =>
                      Cardinality(Holders(g, r))
                        = Cardinality(Holders(own, r)) + (IF r = n THEN 1 ELSE 0)
                BY <4>1, <3>1, Takes, ZenonT(60)
            <4> QED
                BY <4>1, <4>2
        <3>3. Holders(retained', r) = Holders(retained, r)
            BY <1>1
        <3>4. CASE r = n
            <4>1. Holders(own, r) = {} /\ Holders(retained, r) = {}
                BY <1>3, <1>4, <3>4 DEF Holders
            <4>2. Cardinality(Holders(own, r)) = 0 /\ Cardinality(Holders(retained, r)) = 0
                BY <4>1, FS_EmptySet
            <4>3. references'[r] = 1
                BY <1>1, <1>2, <1>3, <3>4
            <4> QED
                BY <3>2, <3>3, <3>4, <4>2, <4>3
        <3>5. CASE r # n
            <4>1. r \in activeRootWork /\ r \in Roots
                BY <1>1, <1>3, <3>5, AdmissionAssumption DEF Roots
            <4>2. references'[r] = references[r]
                BY <1>2, <1>3, <3>5, <4>1
            <4>3. /\ references[r] = Cardinality(Holders(own, r)) + Cardinality(Holders(retained, r))
                  /\ references[r] > 0
                BY <4>1, Counted DEF RootInv
            <4>4. Cardinality(Holders(own, r)) \in Nat
                BY HoldersAreFinite
            <4> QED
                BY <3>2, <3>3, <3>5, <4>2, <4>3, <4>4
        <3> QED
            BY <3>4, <3>5
    <2> QED
        BY <2>1, <2>2 DEF RootsAreCounted, Holders
<1>8. Lineage'
    <2>1. ASSUME NEW r \in 1..created'
          PROVE  origin'[r] \in 1..created'
        <3>1. CASE r = n
            BY <1>1, <1>2, <1>3, <1>4, <1>5, <3>1
        <3>2. CASE r # n
            BY <1>1, <1>2, <1>3, <1>4, <3>2 DEF RootInv, Lineage, Roots
        <3> QED
            BY <3>1, <3>2
    <2>2. ASSUME NEW r \in Roots, r > created'
          PROVE  origin'[r] = r
        BY <1>1, <1>2, <1>3, <1>4, <2>2 DEF RootInv, Lineage, Roots
    <2> QED
        BY <2>1, <2>2 DEF Lineage
<1> QED
    BY <1>6, <1>7, <1>8 DEF RootInv

\* Retaining a root gives it one lease more.
LEMMA RetainKeepsRoots ==
    ASSUME RootInv, NEW c \in Chains, Retain(c), store[c] \in activeRootWork
    PROVE  RootInv'
<1> DEFINE n == store[c]
<1>1. /\ created \in 0..MaxRoots /\ released \subseteq 1..created
      /\ spent \subseteq 1..created
      /\ references \in [Roots -> Nat] /\ origin \in [Roots -> Nat]
      /\ own \in [Chains -> 0..created] /\ retained \in [Chains -> 0..created]
      /\ activeRootWork = (1..created) \ released
    BY DEF RootInv, RootTypes, RootsAreCounted
<1>2. n \in 1..created /\ n \in Roots /\ n \in Nat \ {0} /\ n \in activeRootWork
    BY <1>1, AdmissionAssumption DEF Roots
<1>3. /\ references' = [references EXCEPT ![n] = @ + 1]
      /\ retained' = [retained EXCEPT ![c] = n] /\ retained[c] = NoRoot
      /\ UNCHANGED <<created, activeRootWork, released, spent, origin, own>>
    BY DEF Retain
<1> HIDE DEF n
<1>4. RootTypes'
    BY <1>1, <1>2, <1>3 DEF RootTypes
<1>5. RootsAreCounted'
    <2>1. ASSUME NEW r \in activeRootWork
          PROVE  /\ references'[r] = Cardinality(Holders(own', r)) + Cardinality(Holders(retained', r))
                 /\ references'[r] > 0
        <3>1. retained \in [Chains -> Nat] /\ r \in Nat \ {0} /\ r \in Roots
            BY <1>1, AdmissionAssumption DEF Roots
        <3>2. \A g : g = [retained EXCEPT ![c] = n] =>
                  Cardinality(Holders(g, r))
                    = Cardinality(Holders(retained, r)) + (IF r = n THEN 1 ELSE 0)
            BY <1>2, <1>3, <3>1, Takes, ZenonT(60)
        <3>3. Cardinality(Holders(retained', r))
                = Cardinality(Holders(retained, r)) + (IF r = n THEN 1 ELSE 0)
            BY <1>3, <3>2
        <3>4. Holders(own', r) = Holders(own, r)
            BY <1>3
        <3>5. /\ references[r] = Cardinality(Holders(own, r)) + Cardinality(Holders(retained, r))
              /\ references[r] > 0
            BY Counted DEF RootInv
        <3>6. references'[r] = references[r] + (IF r = n THEN 1 ELSE 0)
            BY <1>1, <1>3, <3>1
        <3>7. Cardinality(Holders(own, r)) \in Nat /\ Cardinality(Holders(retained, r)) \in Nat
            BY HoldersAreFinite
        <3> QED
            BY <3>3, <3>4, <3>5, <3>6, <3>7
    <2> QED
        BY <1>1, <1>3, <2>1 DEF RootsAreCounted, Holders
<1>6. Lineage'
    BY <1>3 DEF RootInv, Lineage
<1> QED
    BY <1>4, <1>5, <1>6 DEF RootInv

\* A release takes one lease from its root, and the root away with the last one.
LEMMA ReleaseKeepsRoots ==
    ASSUME RootInv, NEW n \in 1..created, Release(n, FALSE),
           own' \in [Chains -> 0..created], retained' \in [Chains -> 0..created],
           \A r \in 1..created :
              Cardinality(Holders(own', r)) + Cardinality(Holders(retained', r))
                = Cardinality(Holders(own, r)) + Cardinality(Holders(retained, r))
                    - (IF r = n THEN 1 ELSE 0)
    PROVE  RootInv'
<1>1. /\ created \in 0..MaxRoots /\ released \subseteq 1..created
      /\ spent \subseteq 1..created
      /\ references \in [Roots -> Nat] /\ origin \in [Roots -> Nat]
      /\ activeRootWork = (1..created) \ released
    BY DEF RootInv, RootTypes, RootsAreCounted
<1>2. created' = created /\ origin' = origin /\ n \in Roots
    BY <1>1, AdmissionAssumption DEF Release, Roots
<1>3. ASSUME NEW r \in activeRootWork
      PROVE  /\ references[r] \in Nat /\ references[r] > 0
             /\ references[r] = Cardinality(Holders(own, r)) + Cardinality(Holders(retained, r))
    <2>1. r \in Roots
        BY <1>1, AdmissionAssumption DEF Roots
    <2> QED
        BY <1>1, <2>1, Counted DEF RootInv
<1>4. \/ /\ n \in released
         /\ UNCHANGED <<activeRootWork, references, released>>
      \/ /\ n \in activeRootWork /\ references[n] = 1
         /\ references' = [references EXCEPT ![n] = @ - 1]
         /\ released' = released \cup {n} /\ activeRootWork' = activeRootWork \ {n}
      \/ /\ n \in activeRootWork /\ references[n] # 1
         /\ references' = [references EXCEPT ![n] = @ - 1]
         /\ UNCHANGED <<released, activeRootWork>>
    BY <1>1 DEF Release
<1>5. spent' \subseteq spent \cup {n}
    BY DEF Release
<1>6. RootTypes'
    <2>1. n \in activeRootWork => references[n] - 1 \in Nat
        BY <1>3
    <2>2. references' \in [Roots -> Nat]
        BY <1>1, <1>2, <1>4, <2>1
    <2>3. released' \subseteq 1..created /\ spent' \subseteq 1..created
        BY <1>1, <1>4, <1>5
    <2> QED
        BY <1>1, <1>2, <2>2, <2>3 DEF RootTypes
<1>7. RootsAreCounted'
    <2>1. activeRootWork' = (1..created') \ released'
        BY <1>1, <1>2, <1>4
    <2>2. ASSUME NEW r \in activeRootWork'
          PROVE  /\ references'[r] = Cardinality(Holders(own', r)) + Cardinality(Holders(retained', r))
                 /\ references'[r] > 0
        <3>1. r \in activeRootWork /\ r \in 1..created /\ r \in Roots
            BY <1>1, <1>4, AdmissionAssumption DEF Roots
        <3>2. references'[r] = references[r] - (IF r = n THEN 1 ELSE 0)
            BY <1>1, <1>3, <1>4, <3>1
        <3>3. r = n => references[r] # 1
            BY <1>1, <1>4, <3>1
        <3>4. Cardinality(Holders(own', r)) + Cardinality(Holders(retained', r))
                = Cardinality(Holders(own, r)) + Cardinality(Holders(retained, r))
                    - (IF r = n THEN 1 ELSE 0)
            BY <3>1, Zenon
        <3>5. /\ references[r] \in Nat /\ references[r] > 0
              /\ references[r] = Cardinality(Holders(own, r)) + Cardinality(Holders(retained, r))
            BY <1>3, <3>1
        <3>6. references'[r] > 0
            BY <3>2, <3>3, <3>5
        <3>7. /\ Cardinality(Holders(own, r)) \in Nat
              /\ Cardinality(Holders(retained, r)) \in Nat
              /\ Cardinality(Holders(own', r)) \in Nat
              /\ Cardinality(Holders(retained', r)) \in Nat
            BY HoldersAreFinite
        <3> QED
            BY <3>2, <3>4, <3>5, <3>6, <3>7
    <2> QED
        BY <2>1, <2>2 DEF RootsAreCounted, Holders
<1>8. Lineage'
    BY <1>2 DEF RootInv, Lineage
<1> QED
    BY <1>6, <1>7, <1>8 DEF RootInv

\* Whichever lease a chain gives up, the counts follow.
LEMMA GivesUpKeepsRoots ==
    ASSUME RootInv, NEW c \in Chains, GivesOwnUp(c) \/ GivesRetainedUp(c)
    PROVE  RootInv'
<1>1. /\ own \in [Chains -> 0..created] /\ retained \in [Chains -> 0..created]
      /\ created \in Nat /\ 0 \in 0..created
    BY DEF RootInv, RootTypes
<1>2. own \in [Chains -> Nat] /\ retained \in [Chains -> Nat]
    BY <1>1
<1>3. CASE GivesOwnUp(c)
    <2>1. /\ own[c] \in 1..created
          /\ own' = [own EXCEPT ![c] = NoRoot] /\ retained' = retained
        BY <1>1, <1>3 DEF GivesOwnUp, NoRoot
    <2>4. Release(own[c], FALSE)
        BY <1>3, Zenon DEF GivesOwnUp
    <2>2. own' \in [Chains -> 0..created] /\ retained' \in [Chains -> 0..created]
        BY <1>1, <2>1 DEF NoRoot
    <2>3. ASSUME NEW r \in 1..created
          PROVE  Cardinality(Holders(own', r)) + Cardinality(Holders(retained', r))
                   = Cardinality(Holders(own, r)) + Cardinality(Holders(retained, r))
                       - (IF r = own[c] THEN 1 ELSE 0)
        <3>1. r \in Nat \ {0}
            BY <1>1
        <3>2. \A g : g = [own EXCEPT ![c] = NoRoot] =>
                  Cardinality(Holders(g, r))
                    = Cardinality(Holders(own, r)) - (IF r = own[c] THEN 1 ELSE 0)
            BY <1>2, <3>1, GivesUp, ZenonT(30)
        <3>3. Cardinality(Holders(own', r))
                = Cardinality(Holders(own, r)) - (IF r = own[c] THEN 1 ELSE 0)
            BY <2>1, <3>2
        <3>4. Cardinality(Holders(retained', r)) = Cardinality(Holders(retained, r))
            BY <2>1
        <3>5. Cardinality(Holders(own, r)) \in Nat /\ Cardinality(Holders(retained, r)) \in Nat
            BY HoldersAreFinite
        <3> QED
            BY <3>3, <3>4, <3>5
    <2> QED
        BY <2>1, <2>2, <2>3, <2>4, ReleaseKeepsRoots
<1>4. CASE GivesRetainedUp(c)
    <2>1. /\ retained[c] \in 1..created
          /\ retained' = [retained EXCEPT ![c] = NoRoot] /\ own' = own
        BY <1>1, <1>4 DEF GivesRetainedUp, NoRoot
    <2>4. Release(retained[c], FALSE)
        BY <1>4, Zenon DEF GivesRetainedUp
    <2>2. own' \in [Chains -> 0..created] /\ retained' \in [Chains -> 0..created]
        BY <1>1, <2>1 DEF NoRoot
    <2>3. ASSUME NEW r \in 1..created
          PROVE  Cardinality(Holders(own', r)) + Cardinality(Holders(retained', r))
                   = Cardinality(Holders(own, r)) + Cardinality(Holders(retained, r))
                       - (IF r = retained[c] THEN 1 ELSE 0)
        <3>1. r \in Nat \ {0}
            BY <1>1
        <3>2. \A g : g = [retained EXCEPT ![c] = NoRoot] =>
                  Cardinality(Holders(g, r))
                    = Cardinality(Holders(retained, r)) - (IF r = retained[c] THEN 1 ELSE 0)
            BY <1>2, <3>1, GivesUp, ZenonT(30)
        <3>3. Cardinality(Holders(retained', r))
                = Cardinality(Holders(retained, r)) - (IF r = retained[c] THEN 1 ELSE 0)
            BY <2>1, <3>2
        <3>4. Cardinality(Holders(own', r)) = Cardinality(Holders(own, r))
            BY <2>1
        <3>5. Cardinality(Holders(own, r)) \in Nat /\ Cardinality(Holders(retained, r)) \in Nat
            BY HoldersAreFinite
        <3> QED
            BY <3>3, <3>4, <3>5
    <2> QED
        BY <2>1, <2>2, <2>3, <2>4, ReleaseKeepsRoots
<1> QED
    BY <1>3, <1>4

\* A reset retires every root: there is nothing left to count.
LEMMA ResetKeepsRoots ==
    ASSUME RootInv, Reset
    PROVE  RootInv'
<1>1. RootTypes'
    BY DEF RootInv, RootTypes, RootsAreCounted, Reset, chainVars
<1>2. RootsAreCounted'
    BY DEF RootInv, RootTypes, RootsAreCounted, Reset
<1>3. Lineage'
    BY DEF RootInv, Lineage, Reset
<1> QED
    BY <1>1, <1>2, <1>3 DEF RootInv

\* Every step keeps the roots counted and their lines in order.
LEMMA StepKeepsRoots ==
    ASSUME IInv, [Next]_admissionVars
    PROVE  RootInv'
<1>1. RootInv
    BY InvHasRootInv
<1>2. CASE UNCHANGED <<rootVars, own, retained>>
    BY <1>1, <1>2 DEF RootInv, RootTypes, RootsAreCounted, Lineage, rootVars
<1>3. ASSUME NEW c \in Chains, NEW from \in {NoRoot} \cup activeRootWork, Admits(c, from)
      PROVE  RootInv'
    BY <1>1, <1>3, AdmitsKeepsRoots
<1>4. ASSUME NEW c \in Chains, Retain(c)
      PROVE  RootInv'
    <2>1. store[c] \in activeRootWork
        BY <1>4, LiveIsActive DEF Retain
    <2> QED
        BY <1>1, <1>4, <2>1, RetainKeepsRoots
<1>5. ASSUME NEW c \in Chains, GivesOwnUp(c) \/ GivesRetainedUp(c)
      PROVE  RootInv'
    BY <1>1, <1>5, GivesUpKeepsRoots
<1>6. CASE Reset
    BY <1>1, <1>6, ResetKeepsRoots
<1> QED
    BY <1>2, <1>3, <1>4, <1>5, <1>6, RootEffects

-----------------------------------------------------------------------------
(* Fences, waiters, the drain and the stores.                              *)

\* A chain touches no fence.
LEMMA ChainsLeaveFences ==
    ASSUME NEW c \in Chains, ChainStep(c)
    PROVE  UNCHANGED <<fenceVars, phaseVars>>
BY DEF ChainStep, Begin, AwaitOpen, Recheck, Continue, Spawn, Leave, Retain, ReleaseOwn,
       ReleaseRetained, ReleaseAgain

\* The fence in force belongs to the emitter that closed it last.
LEMMA StepKeepsFences ==
    ASSUME IInv, [Next]_admissionVars
    PROVE  /\ restartDraining' \in BOOLEAN /\ signalPending' \in BOOLEAN
           /\ signalGeneration' \in Nat /\ signalLease' \in [Emitters -> Nat]
           /\ suspendPhase' \in Phases /\ suspendGeneration' \in Nat
           /\ FenceHasOneOwner'
           /\ \A e \in Emitters : signalLease'[e] <= signalGeneration'
<1>1. /\ restartDraining \in BOOLEAN /\ signalPending \in BOOLEAN
      /\ signalGeneration \in Nat /\ signalLease \in [Emitters -> Nat]
      /\ suspendPhase \in Phases /\ suspendGeneration \in Nat
      /\ FenceHasOneOwner
      /\ \A e \in Emitters : signalLease[e] <= signalGeneration
    BY DEF IInv, TypeOK, Bookkeeping
<1>2. CASE UNCHANGED <<fenceVars, phaseVars>>
    BY <1>1, <1>2 DEF fenceVars, phaseVars, FenceHasOneOwner
<1>3. ASSUME NEW c \in Chains, ChainStep(c)
      PROVE  UNCHANGED <<fenceVars, phaseVars>>
    BY <1>3, ChainsLeaveFences
<1>4. ASSUME NEW e \in Emitters, BeginSignal(e)
      PROVE  /\ signalPending' \in BOOLEAN /\ UNCHANGED <<restartDraining, phaseVars>>
             /\ signalGeneration' \in Nat /\ signalLease' \in [Emitters -> Nat]
             /\ \A f \in Emitters : /\ signalLease'[f] <= signalGeneration'
                                    /\ signalLease'[f] = signalGeneration' <=> f = e
    BY <1>1, <1>4 DEF BeginSignal
<1>5. CASE \/ \E e \in Emitters : RollbackSignal(e)
           \/ RollbackFence \/ MarkRestartDraining \/ Reset
    <2>1. /\ restartDraining' \in BOOLEAN /\ signalPending' = FALSE
          /\ signalGeneration' = signalGeneration + 1 /\ signalLease' = signalLease
        BY <1>1, <1>5 DEF RollbackSignal, RollbackFence, ClearSignalFence, MarkRestartDraining,
                          Reset
    <2>2. suspendPhase' \in Phases /\ suspendGeneration' \in Nat
        BY <1>1, <1>5 DEF RollbackSignal, RollbackFence, MarkRestartDraining, Reset,
                          phaseVars, Phases
    <2>3. signalGeneration' \in Nat /\ \A e \in Emitters : signalLease'[e] <= signalGeneration'
        BY <1>1, <2>1
    <2> QED
        BY <1>1, <2>1, <2>2, <2>3 DEF FenceHasOneOwner
<1>6. CASE DrainStep
    BY <1>2, <1>6 DEF DrainStep, WaitForRoots, DrainTimeout, DrainResumes
<1>7. ASSUME BeginSuspend \/ \E g \in 1..suspendGeneration : SuspendLeaseCall(g)
      PROVE  suspendPhase' \in Phases /\ suspendGeneration' \in Nat /\ UNCHANGED fenceVars
    BY <1>1, <1>7 DEF BeginSuspend, SuspendLeaseCall, Transition, Phases
<1>8. CASE \E e \in Emitters : BeginSignal(e)
    BY <1>1, <1>4, <1>8 DEF FenceHasOneOwner, phaseVars
<1>9. CASE BeginSuspend \/ \E g \in 1..suspendGeneration : SuspendLeaseCall(g)
    BY <1>1, <1>7, <1>9 DEF FenceHasOneOwner, fenceVars
<1>10. CASE UNCHANGED admissionVars
    BY <1>2, <1>10 DEF admissionVars
<1> QED
    BY <1>2, <1>3, <1>5, <1>6, <1>8, <1>9, <1>10 DEF Next, SignalStep

\* Whoever waits holds nothing, and waits for a fence that will be lifted.
LEMMA StepKeepsWaiters ==
    ASSUME IInv, [Next]_admissionVars
    PROVE  /\ waiter' \in [Chains -> {"none", "waiting", "woken", "refused"}]
           /\ WaitersAreWoken'
           /\ \A c \in Chains : waiter'[c] \in {"waiting", "woken"} => own'[c] = NoRoot
<1>1. /\ waiter \in [Chains -> {"none", "waiting", "woken", "refused"}]
      /\ own \in [Chains -> 0..created] /\ WaitersAreWoken
      /\ \A c \in Chains : waiter[c] \in {"waiting", "woken"} => own[c] = NoRoot
    BY DEF IInv, TypeOK, Bookkeeping
<1>2. ASSUME waiter' = waiter, UNCHANGED <<fenceVars, phaseVars>>,
             \A c \in Chains : own'[c] # own[c] => own'[c] = NoRoot
      PROVE  /\ waiter' \in [Chains -> {"none", "waiting", "woken", "refused"}]
             /\ WaitersAreWoken'
             /\ \A c \in Chains : waiter'[c] \in {"waiting", "woken"} => own'[c] = NoRoot
    BY <1>1, <1>2 DEF WaitersAreWoken, fenceVars, phaseVars
<1>3. ASSUME waiter' = Woken, own' = own
      PROVE  /\ waiter' \in [Chains -> {"none", "waiting", "woken", "refused"}]
             /\ WaitersAreWoken'
             /\ \A c \in Chains : waiter'[c] \in {"waiting", "woken"} => own'[c] = NoRoot
    BY <1>1, <1>3 DEF WaitersAreWoken, Woken
<1>4. ASSUME NEW c \in Chains, ChainStep(c)
      PROVE  /\ waiter' \in [Chains -> {"none", "waiting", "woken", "refused"}]
             /\ WaitersAreWoken'
             /\ \A d \in Chains : waiter'[d] \in {"waiting", "woken"} => own'[d] = NoRoot
    <2>1. UNCHANGED <<fenceVars, phaseVars>>
        BY <1>4, ChainsLeaveFences
    <2>2. ASSUME NEW d \in Chains, NEW n, own' = [own EXCEPT ![d] = n],
                 waiter' = [waiter EXCEPT ![d] = "none"]
          PROVE  /\ waiter' \in [Chains -> {"none", "waiting", "woken", "refused"}]
                 /\ WaitersAreWoken'
                 /\ \A b \in Chains : waiter'[b] \in {"waiting", "woken"} => own'[b] = NoRoot
        BY <1>1, <2>1, <2>2 DEF WaitersAreWoken, fenceVars, phaseVars
    <2>3. ASSUME own' = own, own[c] = NoRoot, Closed,
                 waiter' = [waiter EXCEPT ![c] = IF restartDraining THEN "refused" ELSE "waiting"]
          PROVE  /\ waiter' \in [Chains -> {"none", "waiting", "woken", "refused"}]
                 /\ WaitersAreWoken'
                 /\ \A b \in Chains : waiter'[b] \in {"waiting", "woken"} => own'[b] = NoRoot
        BY <1>1, <2>1, <2>3 DEF WaitersAreWoken, Closed, fenceVars, phaseVars
    <2>4. CASE Begin(c)
        BY <2>2, <2>4 DEF Begin, NewRoot
    <2>5. CASE AwaitOpen(c)
        BY <2>3, <2>5 DEF AwaitOpen, Free, chainVars
    <2>6. CASE Recheck(c)
        <3>1. CASE ~Closed
            BY <2>2, <2>6, <3>1 DEF Recheck, NewRoot
        <3>2. CASE Closed
            BY <1>1, <2>3, <2>6, <3>2 DEF Recheck, chainVars
        <3> QED
            BY <3>1, <3>2
    <2>7. ASSUME NEW d \in Chains, Continue(c, d)
          PROVE  /\ own' = [own EXCEPT ![d] = created + 1]
                 /\ waiter' = [waiter EXCEPT ![d] = "none"]
        BY <2>7 DEF Continue, NewRoot
    <2>8. ASSUME waiter' = waiter, own' = own \/ own' = [own EXCEPT ![c] = NoRoot]
          PROVE  /\ waiter' \in [Chains -> {"none", "waiting", "woken", "refused"}]
                 /\ WaitersAreWoken'
                 /\ \A b \in Chains : waiter'[b] \in {"waiting", "woken"} => own'[b] = NoRoot
        <3>1. \A b \in Chains : own'[b] # own[b] => own'[b] = NoRoot
            BY <1>1, <2>8
        <3> QED
            BY <1>2, <2>1, <2>8, <3>1
    <2>9. CASE \/ \E d \in Chains : Spawn(c, d)
               \/ Leave(c) \/ Retain(c)
               \/ \E detached \in BOOLEAN : ReleaseOwn(c, detached)
               \/ ReleaseRetained(c)
        BY <2>8, <2>9 DEF Spawn, Leave, Retain, ReleaseOwn, ReleaseRetained
    <2>10. CASE \E d \in Chains : Continue(c, d)
        BY <2>2, <2>7, <2>10
    <2>11. CASE \E r \in spent : ReleaseAgain(r)
        BY <2>8, <2>11, ReleasesCountOnce DEF admissionVars, chainVars
    <2> QED
        BY <1>4, <2>4, <2>5, <2>6, <2>9, <2>10, <2>11 DEF ChainStep
<1>5. ASSUME NEW e \in Emitters, BeginSignal(e)
      PROVE  /\ waiter' = waiter /\ own' = own /\ signalPending' /\ UNCHANGED restartDraining
    BY <1>5 DEF BeginSignal, chainVars
<1>6. ASSUME NEW e \in Emitters, RollbackSignal(e)
      PROVE  waiter' = Woken /\ own' = own
    BY <1>6 DEF RollbackSignal, ClearSignalFence, chainVars
<1>7. CASE RollbackFence \/ MarkRestartDraining \/ Reset
    BY <1>3, <1>7 DEF RollbackFence, ClearSignalFence, MarkRestartDraining, Reset, chainVars
<1>8. CASE DrainStep
    BY <1>2, <1>8 DEF DrainStep, WaitForRoots, DrainTimeout, DrainResumes, chainVars
<1>9. CASE BeginSuspend
    BY <1>1, <1>9 DEF BeginSuspend, WaitersAreWoken, fenceVars, chainVars
<1>10. ASSUME NEW g \in 1..suspendGeneration, SuspendLeaseCall(g)
       PROVE  /\ own' = own /\ UNCHANGED fenceVars
              /\ \/ waiter' = Woken
                 \/ waiter' = waiter /\ suspendPhase' # "accepting"
    BY <1>10 DEF SuspendLeaseCall, Transition, chainVars
<1>11. CASE \E g \in 1..suspendGeneration : SuspendLeaseCall(g)
    BY <1>1, <1>3, <1>10, <1>11 DEF WaitersAreWoken, fenceVars
<1>12. CASE UNCHANGED admissionVars
    BY <1>2, <1>12 DEF admissionVars, chainVars
<1>13. CASE \E e \in Emitters : BeginSignal(e)
    BY <1>1, <1>5, <1>13 DEF WaitersAreWoken
<1>14. CASE \E e \in Emitters : RollbackSignal(e)
    BY <1>3, <1>6, <1>14
<1> QED
    BY <1>4, <1>7, <1>8, <1>9, <1>11, <1>12, <1>13, <1>14 DEF Next, SignalStep

\* The drain waits only for roots that are there, and its good news stays true.
LEMMA StepKeepsDrain ==
    ASSUME IInv, [Next]_admissionVars
    PROVE  /\ drain' \in {"none", "waiting", "woken", "drained", "notDrained"}
           /\ DrainWaitsForSomething' /\ DrainedIsFinal'
           /\ drain' # "none" => restartDraining'
<1> DEFINE Goal == /\ drain' \in {"none", "waiting", "woken", "drained", "notDrained"}
                   /\ DrainWaitsForSomething' /\ DrainedIsFinal'
                   /\ drain' # "none" => restartDraining'
<1>1. /\ drain \in {"none", "waiting", "woken", "drained", "notDrained"}
      /\ DrainWaitsForSomething /\ DrainedIsFinal
      /\ drain # "none" => restartDraining
    BY DEF IInv, TypeOK, Bookkeeping
<1>2. CASE /\ drain' = drain /\ activeRootWork' = activeRootWork
           /\ restartDraining' = restartDraining \/ restartDraining'
    BY <1>1, <1>2 DEF DrainWaitsForSomething, DrainedIsFinal
<1>3. ASSUME NEW c \in Chains, ChainStep(c)
      PROVE  Goal
    <2>1. UNCHANGED restartDraining
        BY <1>3, ChainsLeaveFences DEF fenceVars
    <2>2. ASSUME drain' = drain, activeRootWork' = activeRootWork
          PROVE  Goal
        BY <1>2, <2>1, <2>2
    <2>3. ASSUME drain' = drain, activeRootWork' = activeRootWork \cup {created + 1},
                 ~Closed \/ activeRootWork # {}
          PROVE  Goal
        BY <1>1, <2>1, <2>3 DEF DrainWaitsForSomething, DrainedIsFinal, Closed
    <2>4. ASSUME NEW r, Release(r, FALSE)
          PROVE  Goal
        <3>1. \/ drain' = drain /\ activeRootWork' = activeRootWork
              \/ /\ activeRootWork' = activeRootWork \ {r}
                 /\ \/ drain' = drain /\ ~(activeRootWork' = {} /\ drain = "waiting")
                    \/ drain' = "woken" /\ drain = "waiting"
            BY <2>4 DEF Release
        <3> QED
            BY <1>1, <2>1, <3>1 DEF DrainWaitsForSomething, DrainedIsFinal
    <2>5. CASE Begin(c)
        BY <2>3, <2>5 DEF Begin, NewRoot
    <2>6. CASE AwaitOpen(c)
        BY <2>2, <2>6 DEF AwaitOpen, rootVars
    <2>7. CASE Recheck(c)
        <3>1. CASE ~Closed
            BY <2>3, <2>7, <3>1 DEF Recheck, NewRoot
        <3>2. CASE Closed
            BY <2>2, <2>7, <3>2 DEF Recheck, rootVars
        <3> QED
            BY <3>1, <3>2
    <2>8. ASSUME NEW d \in Chains, Continue(c, d)
          PROVE  Goal
        <3>1. activeRootWork # {}
            BY <2>8, LiveIsActive DEF Continue
        <3> QED
            BY <2>3, <2>8, <3>1 DEF Continue, NewRoot
    <2>9. CASE (\E d \in Chains : Spawn(c, d)) \/ Leave(c) \/ Retain(c)
        BY <2>2, <2>9 DEF Spawn, Leave, Retain, rootVars
    <2>10. CASE (\E detached \in BOOLEAN : ReleaseOwn(c, detached)) \/ ReleaseRetained(c)
        BY <2>4, <2>10 DEF ReleaseOwn, ReleaseRetained
    <2>11. CASE \E r \in spent : ReleaseAgain(r)
        BY <2>2, <2>11, ReleasesCountOnce DEF admissionVars, rootVars
    <2> QED
        BY <1>3, <2>5, <2>6, <2>7, <2>8, <2>9, <2>10, <2>11 DEF ChainStep
<1>4. CASE \/ SignalStep \/ MarkRestartDraining \/ BeginSuspend
           \/ \E g \in 1..suspendGeneration : SuspendLeaseCall(g)
    BY <1>2, <1>4 DEF SignalStep, BeginSignal, RollbackSignal, RollbackFence,
                      MarkRestartDraining, BeginSuspend, SuspendLeaseCall, Transition,
                      rootVars, fenceVars
<1>5. CASE DrainStep
    BY <1>1, <1>5 DEF DrainStep, WaitForRoots, DrainTimeout, DrainResumes, rootVars, fenceVars,
                      DrainWaitsForSomething, DrainedIsFinal
<1>6. CASE Reset
    BY <1>6 DEF Reset, DrainWaitsForSomething, DrainedIsFinal
<1>7. CASE UNCHANGED admissionVars
    BY <1>2, <1>7 DEF admissionVars, rootVars, fenceVars
<1> QED
    BY <1>3, <1>4, <1>5, <1>6, <1>7 DEF Next

\* A store names a root that was created.
LEMMA StepKeepsStores ==
    ASSUME IInv, [Next]_admissionVars
    PROVE  store' \in [Chains -> 0..created']
<1>1. store \in [Chains -> 0..created] /\ created \in Nat
    BY DEF IInv, TypeOK
<1>2. CASE UNCHANGED <<store, created>>
    BY <1>1, <1>2
<1>3. ASSUME NEW c \in Chains, ChainStep(c)
      PROVE  store' \in [Chains -> 0..created']
    <2>1. ASSUME NEW d \in Chains, NEW from, NewRoot(d, from)
          PROVE  store' \in [Chains -> 0..created']
        <3>1. store' = [store EXCEPT ![d] = created + 1] /\ created' = created + 1
            BY <2>1 DEF NewRoot
        <3>2. 0..created \subseteq 0..created' /\ created + 1 \in 0..created'
            BY <1>1, <3>1
        <3> QED
            BY <1>1, <3>1, <3>2
    <2>2. ASSUME created' = created,
                 store' = store \/ \E d \in Chains : \E r \in 0..created :
                                       store' = [store EXCEPT ![d] = r]
          PROVE  store' \in [Chains -> 0..created']
        BY <1>1, <2>2
    <2>3. CASE Begin(c) \/ \E d \in Chains : Continue(c, d)
        BY <2>1, <2>3 DEF Begin, Continue
    <2>4. CASE Recheck(c)
        BY <1>2, <2>1, <2>4 DEF Recheck, rootVars, chainVars
    <2>5. CASE AwaitOpen(c) \/ Retain(c)
        BY <1>2, <2>5 DEF AwaitOpen, Retain, rootVars, chainVars
    <2>6. CASE (\E d \in Chains : Spawn(c, d)) \/ Leave(c)
        BY <1>1, <2>2, <2>6 DEF Spawn, Leave, rootVars, NoRoot
    <2>7. ASSUME NEW detached \in BOOLEAN, ReleaseOwn(c, detached)
          PROVE  /\ created' = created
                 /\ store' = store \/ store' = [store EXCEPT ![c] = NoRoot]
        BY <2>7 DEF ReleaseOwn, Release
    <2>8. CASE \E detached \in BOOLEAN : ReleaseOwn(c, detached)
        BY <1>1, <2>2, <2>7, <2>8 DEF NoRoot
    <2>9. CASE ReleaseRetained(c)
        BY <1>2, <2>9 DEF ReleaseRetained, Release
    <2>10. CASE \E r \in spent : ReleaseAgain(r)
        BY <1>2, <2>10, ReleasesCountOnce DEF admissionVars, rootVars, chainVars
    <2> QED
        BY <1>3, <2>3, <2>4, <2>5, <2>6, <2>8, <2>9, <2>10 DEF ChainStep
<1>4. CASE \/ SignalStep \/ MarkRestartDraining \/ DrainStep \/ Reset \/ BeginSuspend
           \/ \E g \in 1..suspendGeneration : SuspendLeaseCall(g)
    BY <1>2, <1>4 DEF SignalStep, BeginSignal, RollbackSignal, RollbackFence,
                      MarkRestartDraining, DrainStep, WaitForRoots, DrainTimeout, DrainResumes,
                      Reset, BeginSuspend, SuspendLeaseCall, Transition, rootVars, chainVars
<1>5. CASE UNCHANGED admissionVars
    BY <1>2, <1>5 DEF admissionVars, rootVars, chainVars
<1> QED
    BY <1>3, <1>4, <1>5 DEF Next

-----------------------------------------------------------------------------
(* The invariant.                                                          *)

\* The gateway starts with nothing admitted and every fence open.
LEMMA InitHasInv == Init => IInv
<1> SUFFICES ASSUME Init
             PROVE  IInv
    OBVIOUS
<1>1. TypeOK
    <2>1. /\ created \in 0..MaxRoots
          /\ references \in [Roots -> Nat] /\ origin \in [Roots -> Nat]
        BY AdmissionAssumption DEF Init, Roots
    <2>2. /\ signalGeneration \in Nat /\ suspendGeneration \in Nat
          /\ signalLease \in [Emitters -> Nat] /\ store \in [Chains -> 0..created]
          /\ own \in [Chains -> 0..created] /\ retained \in [Chains -> 0..created]
        BY DEF Init, NoRoot
    <2>3. /\ activeRootWork \subseteq 1..created /\ released \subseteq 1..created
          /\ spent \subseteq 1..created
          /\ waiter \in [Chains -> {"none", "waiting", "woken", "refused"}]
        BY DEF Init
    <2>4. /\ restartDraining \in BOOLEAN /\ signalPending \in BOOLEAN
          /\ suspendPhase \in Phases
          /\ drain \in {"none", "waiting", "woken", "drained", "notDrained"}
        BY DEF Init, Phases
    <2> QED
        BY <2>1, <2>2, <2>3, <2>4 DEF TypeOK
<1>2. RootsAreCounted
    BY DEF Init, RootsAreCounted
<1>3. WaitersAreWoken /\ DrainWaitsForSomething /\ DrainedIsFinal /\ FenceHasOneOwner
    BY DEF Init, WaitersAreWoken, DrainWaitsForSomething, DrainedIsFinal, FenceHasOneOwner
<1>4. Bookkeeping
    BY DEF Init, Bookkeeping, Roots, NoRoot
<1> QED
    BY <1>1, <1>2, <1>3, <1>4 DEF IInv

\* Every step keeps it.
LEMMA StepKeepsInv ==
    ASSUME IInv, [Next]_admissionVars
    PROVE  IInv'
<1>1. RootInv'
    BY StepKeepsRoots
<1>2. /\ restartDraining' \in BOOLEAN /\ signalPending' \in BOOLEAN
      /\ signalGeneration' \in Nat /\ signalLease' \in [Emitters -> Nat]
      /\ suspendPhase' \in Phases /\ suspendGeneration' \in Nat
      /\ FenceHasOneOwner'
      /\ \A e \in Emitters : signalLease'[e] <= signalGeneration'
    BY StepKeepsFences
<1>3. /\ waiter' \in [Chains -> {"none", "waiting", "woken", "refused"}]
      /\ WaitersAreWoken'
      /\ \A c \in Chains : waiter'[c] \in {"waiting", "woken"} => own'[c] = NoRoot
    BY StepKeepsWaiters
<1>4. /\ drain' \in {"none", "waiting", "woken", "drained", "notDrained"}
      /\ DrainWaitsForSomething' /\ DrainedIsFinal'
      /\ drain' # "none" => restartDraining'
    BY StepKeepsDrain
<1>5. store' \in [Chains -> 0..created']
    BY StepKeepsStores
<1>6. activeRootWork' \subseteq 1..created' /\ RootTypes' /\ RootsAreCounted' /\ Lineage'
    BY <1>1 DEF RootInv, RootsAreCounted
<1>7. TypeOK'
    BY <1>2, <1>3, <1>4, <1>5, <1>6 DEF TypeOK, RootTypes, Phases
<1>8. Bookkeeping'
    BY <1>2, <1>3, <1>4, <1>6 DEF Bookkeeping, Lineage, NoRoot
<1> QED
    BY <1>2, <1>3, <1>4, <1>6, <1>7, <1>8 DEF IInv

\* The invariant holds in every reachable state.
LEMMA InvHolds == Spec => []IInv
<1>1. Init => IInv
    BY InitHasInv
<1>2. IInv /\ [Next]_admissionVars => IInv'
    BY StepKeepsInv
<1> QED
    BY <1>1, <1>2, PTL DEF Spec

\* Every variable of the admission keeps its type, for any chains and bounds.
THEOREM AdmissionTyped == Spec => []TypeOK
<1>1. IInv => TypeOK
    BY DEF IInv
<1> QED
    BY <1>1, InvHolds, PTL

\* The active set is exactly the unreleased roots and the references of a root are
\* exactly the leases on it (createGatewayRootWorkRelease, the retained continuations
\* and the reset), for any chains and bounds.
THEOREM LeasesAreCounted == Spec => []RootsAreCounted
<1>1. IInv => RootsAreCounted
    BY DEF IInv
<1> QED
    BY <1>1, InvHolds, PTL

\* Nobody waits for a gate that is open or that will never open: every fence
\* lifted wakes its waiters (resolveSuspendOpenWaiters).
THEOREM NobodyIsLeftWaiting == Spec => []WaitersAreWoken
<1>1. IInv => WaitersAreWoken
    BY DEF IInv
<1> QED
    BY <1>1, InvHolds, PTL

\* The restart waits only for roots that are there
\* (waitForActiveGatewayRootWork is answered at once when none is).
THEOREM DrainHasWork == Spec => []DrainWaitsForSomething
<1>1. IInv => DrainWaitsForSomething
    BY DEF IInv
<1> QED
    BY <1>1, InvHolds, PTL

\* Once the restart was told that the roots have drained none comes back
\* (waitForActiveGatewayRootWork, the continuations).
THEOREM DrainTellsTheTruth == Spec => []DrainedIsFinal
<1>1. IInv => DrainedIsFinal
    BY DEF IInv
<1> QED
    BY <1>1, InvHolds, PTL

\* Exactly the emitter that closed the signal fence can reopen it with its lease
\* (beginGatewayRestartSignalAdmission), for any number of emitters.
THEOREM FenceIsOwned == Spec => []FenceHasOneOwner
<1>1. IInv => FenceHasOneOwner
    BY DEF IInv
<1> QED
    BY <1>1, InvHolds, PTL

-----------------------------------------------------------------------------
(* The refinement.                                                         *)

\* What the gate shows of a step that touches neither fences nor the drain.
LEMMA GateUnmoved ==
    ASSUME UNCHANGED <<fenceVars, phaseVars>>
    PROVE  GateState' = GateState
BY DEF fenceVars, phaseVars, GateState, Closed

\* Nor of one that touches no root.
LEMMA LinesUnmoved ==
    ASSUME UNCHANGED rootVars
    PROVE  /\ Origins(activeRootWork)' = Origins(activeRootWork)
           /\ Origins(1..created)' = Origins(1..created)
BY DEF rootVars, Origins

\* An admission starts a line through an open gate, or belongs to one under way.
LEMMA AdmissionStartsALine ==
    ASSUME IInv, NEW c \in Chains, NEW from \in {NoRoot} \cup activeRootWork, Admits(c, from)
    PROVE  Gate!StartLine \/ UNCHANGED Gate!vars
<1> DEFINE n == created + 1
<1>1. /\ created \in Nat /\ n \in Roots /\ created' = n
      /\ activeRootWork' = activeRootWork \cup {n} /\ n \notin 1..created
      /\ activeRootWork \subseteq 1..created /\ 1..created' = (1..created) \cup {n}
    <2>1. /\ created \in Nat /\ created < MaxRoots /\ created' = n
          /\ activeRootWork' = activeRootWork \cup {n} /\ activeRootWork \subseteq 1..created
        BY DEF Admits, NewRoot, IInv, TypeOK
    <2> QED
        BY <2>1, AdmissionAssumption DEF Roots
<1>2. /\ origin' = [origin EXCEPT ![n] = IF from = NoRoot THEN @ ELSE origin[from]]
      /\ origin \in [Roots -> Nat] /\ origin[n] = n
      /\ \A r \in 1..created : origin[r] \in 1..created /\ r \in Roots
    BY <1>1, AdmissionAssumption, SMTT(20) DEF Admits, NewRoot, IInv, TypeOK, Bookkeeping, Roots
<1>3. GateState' = GateState /\ DrainReport' = DrainReport
    BY GateUnmoved DEF Admits, DrainReport
<1> HIDE DEF n
<1>4. \A r \in 1..created : origin'[r] = origin[r]
    BY <1>1, <1>2
<1>5. /\ Origins(activeRootWork)' = Origins(activeRootWork) \cup {origin'[n]}
      /\ Origins(1..created)' = Origins(1..created) \cup {origin'[n]}
    BY <1>1, <1>4 DEF Origins
<1>6. CASE from = NoRoot
    <2>1. origin'[n] = n
        BY <1>1, <1>2, <1>6
    <2>2. n \notin Origins(1..created)
        BY <1>1, <1>2 DEF Origins
    <2>3. from \notin activeRootWork
        BY <1>1, <1>6 DEF NoRoot
    <2>4. GateState = "open"
        BY <2>3 DEF Admits, GateState, Closed
    <2> QED
        BY <1>1, <1>3, <1>5, <2>1, <2>2, <2>4 DEF Gate!StartLine
<1>7. CASE from # NoRoot
    <2>1. from \in activeRootWork /\ origin'[n] = origin[from]
        BY <1>1, <1>2, <1>7
    <2>2. origin[from] \in Origins(activeRootWork) /\ origin[from] \in Origins(1..created)
        BY <1>1, <2>1 DEF Origins
    <2> QED
        BY <1>3, <1>5, <2>1, <2>2 DEF Gate!vars
<1> QED
    BY <1>6, <1>7

\* A release ends a line with its last root.
LEMMA ReleaseEndsALine ==
    ASSUME NEW r, Release(r, FALSE), UNCHANGED <<fenceVars, phaseVars>>
    PROVE  Gate!EndLine \/ UNCHANGED Gate!vars
<1>1. GateState' = GateState /\ DrainReport' = DrainReport
    BY GateUnmoved DEF Release, DrainReport
<1>2. created' = created /\ origin' = origin
    BY DEF Release
<1>3. Origins(1..created)' = Origins(1..created)
    BY <1>2 DEF Origins
<1>4. activeRootWork' = activeRootWork \/ activeRootWork' = activeRootWork \ {r}
    BY DEF Release
<1>5. CASE Origins(activeRootWork)' = Origins(activeRootWork)
    BY <1>1, <1>3, <1>5 DEF Gate!vars
<1>6. CASE Origins(activeRootWork)' # Origins(activeRootWork)
    <2>1. activeRootWork' = activeRootWork \ {r} /\ r \in activeRootWork
        BY <1>2, <1>4, <1>6 DEF Origins
    <2>2. ~\E s \in activeRootWork \ {r} : origin[s] = origin[r]
        BY <1>2, <1>6, <2>1 DEF Origins
    <2>3. /\ origin[r] \in Origins(activeRootWork)
          /\ Origins(activeRootWork)' = Origins(activeRootWork) \ {origin[r]}
        BY <1>2, <2>1, <2>2 DEF Origins
    <2> QED
        BY <1>1, <1>3, <2>3 DEF Gate!EndLine
<1> QED
    BY <1>5, <1>6

\* Every step of the admission is a step of the gate, or none.
LEMMA StepRefinesGate ==
    ASSUME IInv, [Next]_admissionVars
    PROVE  [Gate!Next]_(Gate!vars)
<1>1. CASE UNCHANGED <<fenceVars, phaseVars, rootVars>> /\ DrainReport' = DrainReport
    BY <1>1, GateUnmoved, LinesUnmoved DEF Gate!vars
<1>2. ASSUME NEW c \in Chains, ChainStep(c)
      PROVE  [Gate!Next]_(Gate!vars)
    <2>1. UNCHANGED <<fenceVars, phaseVars>>
        BY <1>2, ChainsLeaveFences
    <2>2. ASSUME UNCHANGED rootVars, drain' = drain
          PROVE  UNCHANGED Gate!vars
        BY <2>1, <2>2, GateUnmoved, LinesUnmoved DEF Gate!vars, DrainReport
    <2>3. ASSUME NEW d \in Chains, NEW from \in {NoRoot} \cup activeRootWork, Admits(d, from)
          PROVE  [Gate!Next]_(Gate!vars)
        BY <2>3, AdmissionStartsALine DEF Gate!Next
    <2>4. ASSUME NEW r, Release(r, FALSE)
          PROVE  [Gate!Next]_(Gate!vars)
        BY <2>1, <2>4, ReleaseEndsALine DEF Gate!Next
    <2>5. CASE Begin(c)
        BY <2>3, <2>5 DEF Begin, Admits, Free
    <2>6. CASE AwaitOpen(c)
        BY <2>2, <2>6 DEF AwaitOpen
    <2>7. CASE Recheck(c)
        <3>1. own[c] = NoRoot
            BY <2>7 DEF Recheck, IInv, Bookkeeping
        <3>2. CASE ~Closed
            BY <2>3, <2>7, <3>1, <3>2 DEF Recheck, Admits
        <3>3. CASE Closed
            BY <2>2, <2>7, <3>3 DEF Recheck
        <3> QED
            BY <3>2, <3>3
    <2>8. ASSUME NEW d \in Chains, Continue(c, d)
          PROVE  [Gate!Next]_(Gate!vars)
        <3>1. store[c] \in activeRootWork
            BY <2>8, LiveIsActive DEF Continue
        <3> QED
            BY <2>3, <2>8, <3>1 DEF Continue, Admits, Idle, Free
    <2>9. CASE (\E d \in Chains : Spawn(c, d)) \/ Leave(c)
        BY <2>2, <2>9 DEF Spawn, Leave
    <2>10. CASE Retain(c)
        <3>1. UNCHANGED <<created, activeRootWork, origin, drain>>
            BY <2>10 DEF Retain
        <3> QED
            BY <2>1, <3>1, GateUnmoved DEF Gate!vars, DrainReport, Origins
    <2>11. CASE (\E detached \in BOOLEAN : ReleaseOwn(c, detached)) \/ ReleaseRetained(c)
        BY <2>4, <2>11 DEF ReleaseOwn, ReleaseRetained
    <2>12. CASE \E r \in spent : ReleaseAgain(r)
        BY <2>2, <2>12, ReleasesCountOnce DEF admissionVars
    <2> QED
        BY <1>2, <2>5, <2>6, <2>7, <2>8, <2>9, <2>10, <2>11, <2>12 DEF ChainStep
<1>3. ASSUME UNCHANGED <<rootVars, drain, restartDraining>>
      PROVE  Gate!Fence \/ UNCHANGED Gate!vars
    <2>1. /\ Origins(activeRootWork)' = Origins(activeRootWork)
          /\ Origins(1..created)' = Origins(1..created) /\ DrainReport' = DrainReport
        BY <1>3, LinesUnmoved DEF DrainReport
    <2>2. CASE restartDraining
        BY <1>3, <2>1, <2>2 DEF GateState, Gate!vars
    <2>3. CASE ~restartDraining
        BY <1>3, <2>1, <2>3 DEF GateState, Gate!Fence
    <2> QED
        BY <2>2, <2>3
<1>4. CASE SignalStep \/ BeginSuspend \/ \E g \in 1..suspendGeneration : SuspendLeaseCall(g)
    <2>1. UNCHANGED <<rootVars, drain, restartDraining>>
        BY <1>4 DEF SignalStep, BeginSignal, RollbackSignal, RollbackFence, BeginSuspend,
                    SuspendLeaseCall, Transition, fenceVars
    <2> QED
        BY <1>3, <2>1 DEF Gate!Next
<1>5. CASE MarkRestartDraining
    <2>1. GateState # "draining" /\ GateState' = "draining" /\ DrainReport' = DrainReport
        BY <1>5 DEF MarkRestartDraining, GateState, DrainReport
    <2>2. UNCHANGED rootVars
        BY <1>5 DEF MarkRestartDraining
    <2> QED
        BY <2>1, <2>2, LinesUnmoved DEF Gate!Next, Gate!DrainForRestart
<1>6. CASE DrainStep
    <2>1. restartDraining /\ UNCHANGED <<fenceVars, phaseVars, rootVars>>
        BY <1>6 DEF DrainStep, WaitForRoots, DrainTimeout, DrainResumes, IInv, Bookkeeping
    <2>2. \/ DrainReport' = DrainReport
          \/ /\ DrainReport = "none"
             /\ DrainReport' = IF activeRootWork = {} THEN "drained" ELSE "notDrained"
        BY <1>6 DEF DrainStep, WaitForRoots, DrainTimeout, DrainResumes, DrainReport
    <2>3. GateState = "draining" /\ (Origins(activeRootWork) = {} <=> activeRootWork = {})
        BY <2>1 DEF GateState, Origins
    <2> QED
        BY <1>1, <2>1, <2>2, <2>3, GateUnmoved, LinesUnmoved DEF Gate!Next, Gate!Report
<1>7. CASE Reset
    <2>1. GateState = "draining" /\ GateState' = "open" /\ DrainReport' = "none"
        BY <1>7 DEF Reset, GateState, DrainReport, Closed
    <2>2. Origins(activeRootWork)' = {} /\ Origins(1..created)' = Origins(1..created)
        BY <1>7 DEF Reset, Origins
    <2> QED
        BY <2>1, <2>2 DEF Gate!Next, Gate!StartAnew
<1>8. CASE UNCHANGED admissionVars
    BY <1>1, <1>8 DEF admissionVars, DrainReport
<1> QED
    BY <1>2, <1>4, <1>5, <1>6, <1>7, <1>8 DEF Next

\* Root work admission is a gate (AdmissionGate): no line of work starts behind
\* a fence and none comes back once it has ended, through waiters, continuations
\* and chains that outlive their roots, and what the restart was told stays true.
THEOREM AdmissionImplementsGate == Spec => ImplementsGate
<1>1. Init => Gate!Init
    BY DEF Init, Gate!Init, GateState, DrainReport, Origins, Closed
<1>2. IInv /\ [Next]_admissionVars => [Gate!Next]_(Gate!vars)
    BY StepRefinesGate
<1> QED
    BY <1>1, <1>2, InvHolds, PTL DEF Spec, ImplementsGate, Gate!Spec

=============================================================================

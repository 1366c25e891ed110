-------------------------- MODULE SnapshotsProofs --------------------------
(***************************************************************************)
(* Theorems about Snapshots, for any number of calls and any length of the *)
(* log.                                                                    *)
(***************************************************************************)
EXTENDS Snapshots, SequenceTheorems, WellFoundedInduction, TLAPS

\* A non-empty set of revision numbers up to k has a largest one.
LEMMA MaxOfBounded ==
    ASSUME NEW k \in Nat, NEW S \in SUBSET (0 .. k), S # {}
    PROVE  /\ Max(S) \in S
           /\ \A n \in S : Max(S) >= n
<1> DEFINE T == {k - n : n \in S}
           R == {ss \in Nat \X Nat : ss[1] < ss[2]}
<1>1. T \subseteq Nat /\ T # {}
  <2>1. \A n \in S : n \in 0 .. k /\ k - n \in Nat
    OBVIOUS
  <2>2. PICK m \in S : TRUE
    OBVIOUS
  <2>3. k - m \in T
    BY <2>2
  <2> QED BY <2>1, <2>3
<1>2. PICK t \in T : \A u \in T : t <= u
  <2> HIDE DEF T
  <2>1. IsWellFoundedOn(R, Nat)
    BY NatLessThanWellFounded DEF OpToRel
  <2> HIDE DEF R
  <2>2. \E t \in T : \A u \in T : ~ (<<u, t>> \in R)
    BY <1>1, <2>1, WFMin
  <2>3. \A t, u \in T : ~ (<<u, t>> \in R) => t <= u
    BY <1>1 DEF R
  <2> QED BY <2>2, <2>3
<1>3. k - t \in S /\ \A n \in S : k - t >= n
  <2>1. PICK m \in S : t = k - m
    OBVIOUS
  <2>2. k - t = m
    BY <2>1
  <2>3. \A n \in S : k - n \in T
    OBVIOUS
  <2>4. \A n \in S : t <= k - n
    BY <1>2, <2>3
  <2> QED BY <2>1, <2>2, <2>4
<1>4. \E m \in S : \A n \in S : m >= n
  BY <1>3
<1> HIDE DEF T
<1> QED BY <1>4 DEF Max

\* The largest revision number not beyond the limit of a call.
LEMMA MaxUpto ==
    ASSUME TypeOK, NEW c \in Call, NEW numbers \in SUBSET (0 .. last),
           Upto(c, numbers) # {}
    PROVE  /\ Max(Upto(c, numbers)) \in numbers
           /\ \A n \in Upto(c, numbers) : Max(Upto(c, numbers)) >= n
           /\ ~ IsLatest(c) => Max(Upto(c, numbers)) <= at[c]
<1>1. Upto(c, numbers) \in SUBSET (0 .. last)
  BY DEF Upto
<1>2. last \in Nat
  BY DEF TypeOK
<1> QED BY <1>1, <1>2, MaxOfBounded DEF Upto

\* Composing the operations after b onto the contents at b gives the contents at u.
LEMMA ComposeOnto ==
    ASSUME NEW b \in Nat, NEW u \in Nat, b < u
    PROVE  Composition(b) \o Operations(b + 1, u) = Composition(u)
BY SMTT(30) DEF Composition, Operations

\* Without a snapshot all operations are composed, 0 included.
LEMMA ComposeAll ==
    ASSUME NEW u \in Nat, origin = 0
    PROVE  << >> \o Operations(0, u) = Composition(u)
<1>1. Operations(0, u) = Composition(u)
  BY DEF Composition, Operations
<1>2. Operations(0, u) \in Seq(Int)
  BY DEF Operations
<1> QED BY <1>1, <1>2, ConcatEmptySeq

LEMMA CompositionType ==
    ASSUME TypeOK, NEW n \in Nat
    PROVE  Composition(n) \in Seq(Int)
<1>1. origin \in Int
  BY DEF TypeOK, Copy
<1> QED BY <1>1 DEF Composition

-----------------------------------------------------------------------------
LEMMA Initially ==
    ASSUME Init
    PROVE  SnapshotInv
<1> USE DEF Init, Copy, Latest, None
<1>1. /\ DOMAIN snapshots \subseteq 0 .. last
      /\ \A n \in DOMAIN snapshots : n = 0 /\ snapshots[n] = <<Copy>> /\ origin = Copy
      /\ origin = Copy => 0 \in DOMAIN snapshots
  <2>1. CASE origin = 0
    BY <2>1
  <2>2. CASE origin # 0
    BY <2>2
  <2> QED BY <2>1, <2>2
<1>2. TypeOK
  <2>1. <<Copy>> \in Seq(Int)
    OBVIOUS
  <2>2. \A n \in DOMAIN snapshots : snapshots[n] \in Seq(Int)
    BY <1>1, <2>1
  <2> QED BY <1>1, <2>2 DEF TypeOK
<1>3. SnapshotsCompose
  <2>1. origin = Copy => Composition(0) = <<Copy>>
    BY DEF Composition
  <2> QED BY <1>1, <2>1 DEF SnapshotsCompose
<1>4. \A c \in Call : CallFits(c)
  BY DEF CallFits
<1> QED BY <1>1, <1>2, <1>3, <1>4 DEF SnapshotInv

\* What the invariant says of a call that does not move stays true as the log
\* grows and snapshots are stored.
LEMMA CallStays ==
    ASSUME TypeOK, NEW c \in Call, CallFits(c),
           isPane' = isPane, origin' = origin, last' \in Nat, last <= last',
           pc'[c] = pc[c], at'[c] = at[c], since'[c] = since[c],
           base'[c] = base[c], start'[c] = start[c], upto'[c] = upto[c],
           result'[c] = result[c]
    PROVE  CallFits(c)'
<1>1. since[c] \in Nat /\ upto[c] \in Nat /\ base[c] \in Nat \cup {None} /\ last \in Nat
  BY DEF TypeOK
<1>2. \A n \in Nat : Composition(n)' = Composition(n)
  BY DEF Composition
<1>3. IsLatest(c)' = IsLatest(c)
  BY DEF IsLatest
<1>4. BaseFits(c) => BaseFits(c)'
  BY <1>1, <1>2, <1>3 DEF BaseFits
<1>5. IsFresh(c, upto[c]) => IsFresh(c, upto[c])'
  BY <1>3 DEF IsFresh
<1> QED BY <1>1, <1>2, <1>4, <1>5 DEF CallFits

LEMMA CommitStep ==
    ASSUME SnapshotInv, CommitRevision
    PROVE  SnapshotInv'
<1> USE DEF SnapshotInv
<1>1. last' \in Nat /\ last <= last'
  BY DEF CommitRevision, TypeOK
<1>2. TypeOK'
  BY <1>1 DEF CommitRevision, TypeOK
<1>3. SnapshotsCompose'
  BY DEF CommitRevision, SnapshotsCompose, Composition
<1>4. \A c \in Call : CallFits(c)'
  BY <1>1, CallStays DEF CommitRevision
<1> QED BY <1>2, <1>3, <1>4 DEF CommitRevision

\* The parts of the invariant that a reading step can disturb: the types of what
\* the call holds, and what the call knows.
LEMMA ReadingStep ==
    ASSUME SnapshotInv, NEW c \in Call, UNCHANGED <<isPane, origin, last, snapshots>>,
           TypeOK', CallFits(c)',
           \A d \in Call \ {c} :
              /\ pc'[d] = pc[d] /\ at'[d] = at[d] /\ since'[d] = since[d]
              /\ base'[d] = base[d] /\ start'[d] = start[d] /\ upto'[d] = upto[d]
              /\ result'[d] = result[d]
    PROVE  SnapshotInv'
<1>1. SnapshotsCompose'
  BY DEF SnapshotInv, SnapshotsCompose, Composition
<1>2. \A d \in Call \ {c} : CallFits(d)'
  BY CallStays DEF SnapshotInv, TypeOK
<1> QED BY <1>1, <1>2 DEF SnapshotInv

LEMMA StartStep ==
    ASSUME SnapshotInv, NEW c \in Call, Start(c)
    PROVE  SnapshotInv'
<1> USE DEF Start, SnapshotInv
<1>0. \A n \in Askable(c) : n \in Nat \cup {Latest} /\ (c \in Saver => n = Latest)
  BY ReaderAssumption DEF Askable, TypeOK
<1>1. TypeOK'
  BY <1>0 DEF TypeOK
<1>2. CallFits(c)'
  <2>1. pc'[c] = "snapshot" /\ since'[c] = last /\ last' = last
    BY DEF TypeOK
  <2>2. c \in Saver => at'[c] = Latest
    BY <1>0 DEF TypeOK
  <2>3. last \in Nat
    BY DEF TypeOK
  <2> QED BY <2>1, <2>2, <2>3 DEF CallFits
<1> QED BY <1>1, <1>2, ReadingStep DEF TypeOK

LEMMA FindSnapshotStep ==
    ASSUME SnapshotInv, NEW c \in Call, FindSnapshot(c)
    PROVE  SnapshotInv'
<1> USE DEF FindSnapshot
<1> DEFINE found == Upto(c, DOMAIN snapshots)
<1>1. /\ TypeOK /\ SnapshotsCompose /\ CallFits(c)
      /\ origin = Copy => 0 \in DOMAIN snapshots
      /\ DOMAIN snapshots \in SUBSET (0 .. last)
  BY DEF SnapshotInv, TypeOK
<1>2. /\ pc'[c] = "last" /\ since'[c] = since[c] /\ at'[c] = at[c]
      /\ UNCHANGED <<isPane, origin, last, snapshots>>
  BY <1>1 DEF TypeOK
<1>3. \/ /\ found = {} /\ base'[c] = None /\ start'[c] = << >>
      \/ /\ found # {} /\ base'[c] = Max(found) /\ start'[c] = snapshots[Max(found)]
  BY <1>1 DEF TypeOK
<1>4. found # {} => /\ Max(found) \in DOMAIN snapshots
                    /\ ~ IsLatest(c) => Max(found) <= at[c]
  BY <1>1, MaxUpto
<1>5. found = {} => origin = 0
  <2>1. 0 \in DOMAIN snapshots => 0 \in found
    BY <1>1 DEF Upto, IsLatest, TypeOK, Latest
  <2> QED BY <1>1, <2>1 DEF TypeOK
<1> HIDE DEF found
<1>6. BaseFits(c)'
  <2>1. \A n : Composition(n)' = Composition(n)
    BY <1>2 DEF Composition
  <2>2. IsLatest(c)' = IsLatest(c)
    BY <1>2 DEF IsLatest
  <2>3. CASE found = {}
    BY <1>2, <1>3, <1>5, <2>3 DEF BaseFits
  <2>4. CASE found # {}
    <3>1. base'[c] \in 0 .. last /\ start'[c] = Composition(base'[c])
      BY <1>1, <1>3, <1>4, <2>4 DEF SnapshotsCompose
    <3> QED BY <1>2, <1>3, <1>4, <2>1, <2>2, <2>4, <3>1 DEF BaseFits
  <2> QED BY <2>3, <2>4
<1>7. CallFits(c)'
  BY <1>1, <1>2, <1>6 DEF CallFits
<1>8. TypeOK'
  <2>1. /\ found # {} => Max(found) \in Nat /\ snapshots[Max(found)] \in Seq(Int)
        /\ << >> \in Seq(Int)
    BY <1>1, <1>4 DEF TypeOK
  <2>2. /\ base' \in [Call -> Nat \cup {None}]
        /\ start' \in [Call -> Seq(Int)]
    BY <1>1, <2>1 DEF TypeOK, found
  <2> QED BY <1>1, <2>2 DEF TypeOK
<1> QED BY <1>1, <1>2, <1>7, <1>8, ReadingStep DEF TypeOK

LEMMA FindLastStep ==
    ASSUME SnapshotInv, NEW c \in Call, FindLast(c)
    PROVE  SnapshotInv'
<1> USE DEF FindLast
<1> DEFINE found == Max(Upto(c, 0 .. last))
<1>1. TypeOK /\ CallFits(c) /\ BaseFits(c)
  BY DEF SnapshotInv, CallFits
<1>2. last \in Nat /\ since[c] \in Nat /\ at[c] \in Nat \cup {Latest} /\ since[c] <= last
  BY <1>1 DEF TypeOK, CallFits
<1>3. /\ found \in 0 .. last
      /\ ~ IsLatest(c) => found <= at[c]
      /\ \A n \in Upto(c, 0 .. last) : found >= n
  <2>1. 0 \in Upto(c, 0 .. last)
    BY <1>2 DEF Upto, IsLatest, Latest
  <2> QED BY <1>1, <2>1, MaxUpto
<1>4. IsFresh(c, found)
  <2>1. CASE IsLatest(c)
    BY <1>2, <1>3, <2>1 DEF IsFresh, Upto
  <2>2. CASE ~ IsLatest(c)
    <3>1. at[c] \in Nat
      BY <1>2, <2>2 DEF IsLatest
    <3>2. at[c] <= last => found = at[c]
      <4>1. at[c] <= last => at[c] \in Upto(c, 0 .. last)
        BY <2>2, <3>1, <1>2 DEF Upto
      <4> QED BY <1>2, <1>3, <2>2, <3>1, <4>1
    <3>3. at[c] > last => found >= since[c]
      <4>1. at[c] > last => since[c] \in Upto(c, 0 .. last)
        BY <1>2, <3>1 DEF Upto
      <4> QED BY <1>3, <4>1
    <3> QED BY <1>2, <1>3, <2>2, <3>1, <3>2, <3>3 DEF IsFresh
  <2> QED BY <2>1, <2>2
<1>5. /\ upto'[c] = found /\ since'[c] = since[c] /\ at'[c] = at[c]
      /\ base'[c] = base[c] /\ start'[c] = start[c]
      /\ UNCHANGED <<isPane, origin, last, snapshots>>
      /\ \/ base[c] = found /\ pc'[c] = "read" /\ result'[c] = start[c]
         \/ base[c] # found /\ pc'[c] = "revisions" /\ result' = result
  BY <1>1 DEF TypeOK
<1>6. base[c] <= found
  <2>1. CASE base[c] = None
    BY <1>3, <2>1 DEF None
  <2>2. CASE base[c] \in 0 .. last /\ (~ IsLatest(c) => base[c] <= at[c])
    <3>1. base[c] \in Upto(c, 0 .. last)
      BY <2>2 DEF Upto
    <3> QED BY <1>3, <3>1
  <2> QED BY <1>1, <2>1, <2>2 DEF BaseFits
<1>7. TypeOK'
  <2>1. upto' \in [Call -> Nat]
    BY <1>1, <1>3 DEF TypeOK
  <2>2. result' \in [Call -> Seq(Int)]
    BY <1>1 DEF TypeOK
  <2> HIDE DEF found
  <2> QED BY <1>1, <2>1, <2>2 DEF TypeOK
<1> HIDE DEF found
<1>8. CallFits(c)'
  <2>1. \A n : Composition(n)' = Composition(n)
    BY <1>5 DEF Composition
  <2>2. IsLatest(c)' = IsLatest(c)
    BY <1>5 DEF IsLatest
  <2>3. BaseFits(c)'
    BY <1>1, <1>5, <2>1, <2>2 DEF BaseFits
  <2>4. IsFresh(c, upto[c])'
    BY <1>4, <1>5, <2>2 DEF IsFresh
  <2>5. base[c] = found => start[c] = Composition(found)
    BY <1>1, <1>3 DEF BaseFits, None
  <2>6. base[c] \in Int /\ found \in Int
    BY <1>1, <1>3 DEF TypeOK, None
  <2> QED BY <1>1, <1>2, <1>3, <1>5, <1>6, <2>1, <2>3, <2>4, <2>5, <2>6 DEF CallFits
<1> QED BY <1>1, <1>5, <1>7, <1>8, ReadingStep DEF TypeOK

LEMMA FindRevisionsStep ==
    ASSUME SnapshotInv, NEW c \in Call, FindRevisions(c)
    PROVE  SnapshotInv'
<1> USE DEF FindRevisions
<1>1. TypeOK /\ CallFits(c) /\ BaseFits(c) /\ base[c] < upto[c] /\ upto[c] \in Nat
  BY DEF SnapshotInv, CallFits, TypeOK
<1>2. /\ upto'[c] = upto[c] /\ since'[c] = since[c] /\ at'[c] = at[c]
      /\ UNCHANGED <<isPane, origin, last, snapshots>>
      /\ pc'[c] = "read"
      /\ result'[c] = start[c] \o Operations(base[c] + 1, upto[c])
  BY <1>1 DEF TypeOK
<1>3. result'[c] = Composition(upto[c])
  <2>1. CASE base[c] = None /\ start[c] = << >> /\ origin = 0
    <3>1. base[c] + 1 = 0
      BY <2>1 DEF None
    <3> QED BY <1>1, <1>2, <2>1, <3>1, ComposeAll
  <2>2. CASE base[c] \in 0 .. last /\ start[c] = Composition(base[c])
    <3>1. base[c] \in Nat
      BY <2>2
    <3>2. Composition(base[c]) \o Operations(base[c] + 1, upto[c]) = Composition(upto[c])
      BY <1>1, <3>1, ComposeOnto
    <3> QED BY <1>2, <2>2, <3>2
  <2> QED BY <1>1, <2>1, <2>2 DEF BaseFits
<1>4. TypeOK'
  <2>1. Composition(upto[c]) \in Seq(Int)
    BY <1>1, CompositionType
  <2>2. result' = [result EXCEPT ![c] = Composition(upto[c])]
    BY <1>1, <1>3 DEF TypeOK
  <2>3. result' \in [Call -> Seq(Int)]
    BY <1>1, <2>1, <2>2 DEF TypeOK
  <2> QED BY <1>1, <2>3 DEF TypeOK
<1>5. CallFits(c)'
  <2>1. Composition(upto[c])' = Composition(upto'[c])
    BY <1>2 DEF Composition
  <2>2. IsFresh(c, upto[c])'
    BY <1>1, <1>2 DEF CallFits, IsFresh, IsLatest
  <2>3. Composition(upto'[c]) = Composition(upto[c])
    BY <1>2
  <2> QED BY <1>1, <1>2, <1>3, <2>1, <2>2, <2>3 DEF CallFits
<1> QED BY <1>1, <1>2, <1>4, <1>5, ReadingStep DEF TypeOK

LEMMA SaveStep ==
    ASSUME SnapshotInv, NEW c \in Call, SaveSnapshot(c)
    PROVE  SnapshotInv'
<1> USE DEF SaveSnapshot
<1>1. /\ TypeOK /\ SnapshotsCompose /\ CallFits(c)
      /\ origin = Copy => 0 \in DOMAIN snapshots
  BY DEF SnapshotInv
<1>2. upto[c] \in 0 .. last /\ result[c] = Composition(upto[c])
  BY <1>1 DEF CallFits, TypeOK
<1>3. /\ DOMAIN snapshots' = DOMAIN snapshots \cup {upto[c]}
      /\ \A n \in DOMAIN snapshots' :
            snapshots'[n] = IF n = upto[c] THEN result[c] ELSE snapshots[n]
  OBVIOUS
<1>4. TypeOK'
  <2>1. \A n \in DOMAIN snapshots' : snapshots'[n] \in Seq(Int)
    BY <1>1, <1>3 DEF TypeOK
  <2>2. << >> \in Seq(Int) /\ None \in Nat \cup {None}
    OBVIOUS
  <2> QED BY <1>1, <1>2, <1>3, <2>1, <2>2 DEF TypeOK
<1>5. SnapshotsCompose'
  <2>1. \A n : Composition(n)' = Composition(n)
    BY DEF Composition
  <2> QED BY <1>1, <1>2, <1>3, <2>1 DEF SnapshotsCompose
<1>6. CallFits(c)'
  <2>1. pc'[c] = "idle"
    BY <1>1 DEF TypeOK
  <2> QED BY <2>1 DEF CallFits
<1>7. \A d \in Call \ {c} : CallFits(d)'
  BY CallStays DEF SnapshotInv, TypeOK
<1> QED BY <1>1, <1>3, <1>4, <1>5, <1>6, <1>7 DEF SnapshotInv

LEMMA Stutter ==
    ASSUME SnapshotInv, UNCHANGED vars
    PROVE  SnapshotInv'
BY DEF vars, SnapshotInv, TypeOK, SnapshotsCompose, Composition, CallFits,
       BaseFits, IsFresh, IsLatest

-----------------------------------------------------------------------------
\* Every snapshot is the composition of its revisions, and every call knows after
\* each query what it needs for the next.
THEOREM SnapshotsCorrect == Spec => []SnapshotInv
<1>1. Init => SnapshotInv
  BY Initially
<1>2. SnapshotInv /\ [Next]_vars => SnapshotInv'
  BY CommitStep, StartStep, FindSnapshotStep, FindLastStep, FindRevisionsStep,
     SaveStep, Stutter DEF Next
<1> QED BY <1>1, <1>2, PTL DEF Spec

\* A read returns the composition of the revision it reports.
THEOREM ReadsCorrect == Spec => []ReadsCompose
<1>1. SnapshotInv => ReadsCompose
  BY DEF SnapshotInv, CallFits, ReadsCompose
<1> QED BY <1>1, SnapshotsCorrect, PTL

\* A read returns at least what was committed when it began, and nothing after
\* the revision it was asked for.
THEOREM ReadsCurrent == Spec => []ReadsFresh
<1>1. SnapshotInv => ReadsFresh
  BY DEF SnapshotInv, CallFits, ReadsFresh
<1> QED BY <1>1, SnapshotsCorrect, PTL

\* A read never finds an empty list of revisions.
THEOREM ReadsSomething == Spec => []NeverEmpty
<1>1. SnapshotInv => NeverEmpty
  BY DEF SnapshotInv, CallFits, NeverEmpty
<1> QED BY <1>1, SnapshotsCorrect, PTL
=============================================================================

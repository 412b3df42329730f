----------------------------- MODULE Pool_proofs -----------------------------
(***************************************************************************)
(* What the stores of observations keep, the inventory excludes, the       *)
(* kernels decide, the pairing search finds and the scheduler stages, for  *)
(* every set of nodes, GPUs, jobs, messages and settings.                  *)
(***************************************************************************)
EXTENDS Pool, FiniteSetTheorems, WellFoundedInduction, TLAPS

LEMMA MaxOfTwo ==
    ASSUME NEW a \in Int, NEW b \in Int
    PROVE  Max({a, b}) = IF a >= b THEN a ELSE b
<1> DEFINE m == IF a >= b THEN a ELSE b
<1>1. m \in {a, b} /\ \A y \in {a, b} : m >= y
  OBVIOUS
<1>2. \A x \in {a, b} : (\A y \in {a, b} : x >= y) => x = m
  OBVIOUS
<1> HIDE DEF m
<1>3. Max({a, b}) = m
  BY <1>1, <1>2 DEF Max
<1> QED BY <1>3 DEF m

LEMMA MinOfTwo ==
    ASSUME NEW a \in Int, NEW b \in Int
    PROVE  Min({a, b}) = IF a <= b THEN a ELSE b
<1> DEFINE m == IF a <= b THEN a ELSE b
<1>1. m \in {a, b} /\ \A y \in {a, b} : m <= y
  OBVIOUS
<1>2. \A x \in {a, b} : (\A y \in {a, b} : x <= y) => x = m
  OBVIOUS
<1> HIDE DEF m
<1>3. Min({a, b}) = m
  BY <1>1, <1>2 DEF Min
<1> QED BY <1>3 DEF m

-----------------------------------------------------------------------------
(* The inventory.                                                          *)

InventoryTypeOK ==
    /\ clock \in 0 .. MaxNow
    /\ DOMAIN registry = InvNodes
    /\ inventory \in [InvNodes -> InventoryRows \cup {Nil}]
    /\ attestation \in [InvNodes -> Matches \cup {Nil}]
    /\ mismatch \in [InvNodes -> (0 .. MaxNow) \cup {Nil}]
    /\ newest \in [InvNodes -> Judgements \cup {Nil}]

\* A registered node has a declaration, a match was with it or with an older one,
\* and nothing is of the future.
DeclarationKept(n) ==
    /\ registry[n] # Nil => inventory[n] # Nil
    /\ inventory[n] # Nil => inventory[n].observed <= clock
    /\ attestation[n] # Nil =>
          /\ inventory[n] # Nil
          /\ attestation[n].revision <= inventory[n].revision
          /\ attestation[n].at <= clock

\* The contradiction is not older than the newest observation if that one
\* contradicts, and no match with the declaration is newer than it.
Judged(n) ==
    /\ inventory[n] # Nil /\ newest[n] # Nil => inventory[n].gpus # <<>>
    /\ inventory[n] # Nil /\ newest[n] # Nil =>
          (newest[n].contradicts => mismatch[n] # Nil /\ mismatch[n] >= newest[n].at)
    /\ inventory[n] # Nil /\ LastMatch(n) # Nil =>
          newest[n] # Nil /\ newest[n].at >= LastMatch(n)

InventoryInv == InventoryTypeOK /\ \A n \in InvNodes : DeclarationKept(n) /\ Judged(n)

LEMMA NilApart ==
    /\ Nil \notin Nat /\ Nil \notin InventoryRows
    /\ Nil \notin Matches /\ Nil \notin Judgements
    /\ MaxNow \in Nat /\ MaxRevision \in Nat
  BY InventoryAssumption

LEMMA ImportKeeps ==
    ASSUME InventoryInv, NEW nodes \in SUBSET InvNodes, NEW doc \in [nodes -> Entry],
           ImportBootstrap(doc)
    PROVE  InventoryInv'
<1> DEFINE updated == {n \in DOMAIN doc : Newer(n, doc[n].inventory)}
<1>0. /\ InventoryTypeOK /\ clock' = clock /\ attestation' = attestation
      /\ \A n \in DOMAIN doc : doc[n].inventory.observed <= clock
      /\ updated \subseteq InvNodes /\ DOMAIN doc = nodes
      /\ \A n \in nodes : doc[n].inventory \in InventoryRows
  BY DEF InventoryInv, ImportBootstrap, Entry, InventoryRows
<1>1. /\ inventory' = [n \in InvNodes |-> IF n \in updated THEN doc[n].inventory
                                                           ELSE inventory[n]]
      /\ mismatch' = [n \in InvNodes |->
             IF n \in updated /\ doc[n].inventory.gpus = <<>> THEN Nil ELSE mismatch[n]]
      /\ newest' = [n \in InvNodes |-> IF n \in updated THEN Nil ELSE newest[n]]
      /\ registry' = [n \in InvNodes |-> IF n \in DOMAIN doc THEN doc[n].registration
                                                             ELSE registry[n]]
  BY DEF ImportBootstrap
<1>2. \A n \in updated : /\ doc[n].inventory \in InventoryRows /\ n \in DOMAIN doc
                         /\ inventory[n] # Nil =>
                               doc[n].inventory.revision > inventory[n].revision
  BY <1>0 DEF Newer
<1>3. \A n \in DOMAIN doc : n \notin updated => inventory[n] # Nil
  BY DEF Newer
<1> HIDE DEF updated
<1>4. InventoryTypeOK'
  <2>1. /\ inventory' \in [InvNodes -> InventoryRows \cup {Nil}]
        /\ newest' \in [InvNodes -> Judgements \cup {Nil}]
    BY <1>0, <1>1, <1>2 DEF InventoryTypeOK
  <2>2. mismatch' \in [InvNodes -> (0 .. MaxNow) \cup {Nil}]
    BY <1>0, <1>1 DEF InventoryTypeOK
  <2> QED BY <1>0, <1>1, <2>1, <2>2 DEF InventoryTypeOK
<1>5. ASSUME NEW n \in InvNodes
      PROVE  DeclarationKept(n)' /\ Judged(n)'
  <2>0. DeclarationKept(n) /\ Judged(n)
    BY DEF InventoryInv
  <2>1. CASE n \in updated
    <3>1. /\ inventory'[n] = doc[n].inventory /\ inventory'[n] # Nil /\ newest'[n] = Nil
          /\ inventory'[n].observed <= clock
      BY <1>0, <1>1, <1>2, <2>1, NilApart
    <3>2. attestation[n] # Nil => attestation[n].revision < inventory'[n].revision
      <4> SUFFICES ASSUME attestation[n] # Nil
                   PROVE  attestation[n].revision < inventory'[n].revision
        OBVIOUS
      <4>1. inventory[n] # Nil /\ attestation[n].revision <= inventory[n].revision
        BY <2>0 DEF DeclarationKept
      <4>2. /\ attestation[n].revision \in Nat /\ inventory[n].revision \in Nat
            /\ inventory'[n].revision \in Nat
        BY <1>0, <1>2, <2>1, <3>1, <4>1 DEF InventoryTypeOK, Matches, InventoryRows
      <4> QED BY <1>2, <2>1, <3>1, <4>1, <4>2
    <3>3. attestation[n] # Nil =>
              attestation[n].revision \in Nat /\ inventory'[n].revision \in Nat
      BY <1>0, <1>2, <2>1, <3>1 DEF InventoryTypeOK, Matches, InventoryRows
    <3>4. LastMatch(n)' = Nil
      BY <1>0, <3>2, <3>3 DEF LastMatch
    <3>5. DeclarationKept(n)'
      BY <1>0, <2>0, <3>1, <3>2, <3>3 DEF DeclarationKept
    <3> QED BY <3>1, <3>4, <3>5 DEF Judged
  <2>2. CASE n \notin updated
    <3>1. inventory'[n] = inventory[n] /\ newest'[n] = newest[n] /\ mismatch'[n] = mismatch[n]
      BY <1>1, <2>2
    <3>2. registry'[n] # Nil => inventory[n] # Nil
      BY <1>1, <1>3, <2>0, <2>2 DEF DeclarationKept
    <3>3. LastMatch(n)' = LastMatch(n)
      BY <1>0, <3>1 DEF LastMatch
    <3>4. DeclarationKept(n)'
      BY <1>0, <2>0, <3>1, <3>2 DEF DeclarationKept
    <3> QED BY <2>0, <3>1, <3>3, <3>4 DEF Judged
  <2> QED BY <2>1, <2>2
<1> QED BY <1>4, <1>5 DEF InventoryInv

\* What an observation at a time up to now does to one node.
LEMMA RecordedOne ==
    ASSUME InventoryInv, NEW n \in InvNodes, inventory[n] # Nil, NEW gpus,
           NEW at \in 0 .. MaxNow, at <= clock, RecordGpuAttestation(n, gpus, at),
           UNCHANGED <<clock, registry, inventory>>
    PROVE  /\ \E m \in Matches \cup {Nil} : attestation' = [attestation EXCEPT ![n] = m]
           /\ \E m \in (0 .. MaxNow) \cup {Nil} : mismatch' = [mismatch EXCEPT ![n] = m]
           /\ \E m \in Judgements \cup {Nil} : newest' = [newest EXCEPT ![n] = m]
           /\ DeclarationKept(n)' /\ Judged(n)'
<1>0. InventoryTypeOK /\ DeclarationKept(n) /\ Judged(n) /\ clock \in Nat
  BY NilApart DEF InventoryInv, InventoryTypeOK
<1>1. /\ inventory[n] \in InventoryRows /\ inventory[n].revision \in 1 .. MaxRevision
      /\ attestation[n] \in Matches \cup {Nil} /\ mismatch[n] \in (0 .. MaxNow) \cup {Nil}
      /\ newest[n] \in Judgements \cup {Nil}
      /\ newest[n] # Nil => newest[n].at \in Nat
  BY <1>0, NilApart DEF InventoryTypeOK, InventoryRows, Judgements
<1>2. /\ DOMAIN attestation = InvNodes /\ DOMAIN mismatch = InvNodes
      /\ DOMAIN newest = InvNodes
  BY <1>0 DEF InventoryTypeOK
<1>3. /\ LastMatch(n) \in Nat \cup {Nil}
      /\ LastMatch(n) # Nil => LastMatch(n) <= clock
  BY <1>0, <1>1, NilApart DEF LastMatch, Matches, DeclarationKept
<1>4. CASE inventory[n].gpus = <<>>
  <2>1. mismatch' = [mismatch EXCEPT ![n] = Nil] /\ attestation' = attestation
        /\ newest' = newest
    BY <1>4 DEF RecordGpuAttestation
  <2>2. DeclarationKept(n)'
    BY <1>0, <2>1 DEF DeclarationKept
  <2>3. newest[n] = Nil /\ LastMatch(n) = Nil /\ LastMatch(n)' = LastMatch(n)
    BY <1>0, <1>4, <2>1 DEF Judged, LastMatch
  <2>4. Judged(n)'
    BY <2>1, <2>3 DEF Judged
  <2>5. /\ attestation' = [attestation EXCEPT ![n] = attestation[n]]
        /\ newest' = [newest EXCEPT ![n] = newest[n]]
    BY <1>0, <2>1 DEF InventoryTypeOK
  <2> QED BY <1>1, <2>1, <2>2, <2>4, <2>5
<1>5. CASE inventory[n].gpus # <<>>
  <2> DEFINE taken == \/ newest[n] = Nil \/ at > newest[n].at
                      \/ at = newest[n].at /\ Contradicts(n, gpus)
             judged == IF taken THEN [at |-> at, contradicts |-> Contradicts(n, gpus)]
                                ELSE newest[n]
  <2>1. newest' = [newest EXCEPT ![n] = judged]
    BY <1>2, <1>5 DEF RecordGpuAttestation
  <2>2. Contradicts(n, gpus) \in BOOLEAN
    BY DEF Contradicts, Pairable
  <2>3. judged \in Judgements \cup {Nil} /\ judged # Nil /\ judged.at \in Nat
    <3>1. CASE taken
      <4>1. judged = [at |-> at, contradicts |-> Contradicts(n, gpus)]
        BY <3>1
      <4>2. judged \in Judgements
        BY <2>2, <4>1 DEF Judgements
      <4>3. judged # Nil
        BY <4>2, NilApart
      <4> QED BY <4>1, <4>2, <4>3
    <3>2. CASE ~taken
      BY <1>1, <3>2
    <3> QED BY <3>1, <3>2
  <2>4. /\ at <= judged.at
        /\ newest[n] # Nil => newest[n].at <= judged.at
        /\ judged.contradicts =>
              \/ Contradicts(n, gpus) /\ judged.at = at /\ taken
              \/ newest[n] # Nil /\ newest[n].contradicts /\ judged = newest[n] /\ ~taken
    BY <1>1, <2>2, NilApart DEF Judgements
  <2>5. taken => newest[n] = Nil \/ newest[n].at <= at
    BY <1>1, NilApart
  <2> HIDE DEF judged, taken
  <2>6. newest'[n] = judged
    BY <1>2, <2>1
  <2>7. CASE Contradicts(n, gpus)
    <3> DEFINE counts == LastMatch(n) = Nil \/ at >= LastMatch(n)
               latest == IF counts THEN Later(mismatch[n], at) ELSE mismatch[n]
    <3>0. RecordMismatch(n, at)
      BY <1>5, <2>7 DEF RecordGpuAttestation
    <3>1. /\ attestation' = attestation
          /\ mismatch' = [mismatch EXCEPT ![n] = latest]
      <4>1. CASE counts
        BY <3>0, <4>1 DEF RecordMismatch
      <4>2. CASE ~counts
        <5>1. mismatch = [mismatch EXCEPT ![n] = mismatch[n]]
          BY <1>0 DEF InventoryTypeOK
        <5> QED BY <3>0, <4>2, <5>1 DEF RecordMismatch
      <4> QED BY <4>1, <4>2
    <3>2. /\ Later(mismatch[n], at) \in 0 .. MaxNow /\ Later(mismatch[n], at) >= at
          /\ mismatch[n] # Nil => Later(mismatch[n], at) >= mismatch[n]
      <4>1. CASE mismatch[n] = Nil
        BY <4>1, NilApart DEF Later
      <4>2. CASE mismatch[n] # Nil
        <5>1. mismatch[n] \in 0 .. MaxNow
          BY <1>1, <4>2
        <5>2. Later(mismatch[n], at) = IF mismatch[n] >= at THEN mismatch[n] ELSE at
          BY <4>2, <5>1, MaxOfTwo DEF Later
        <5> QED BY <5>1, <5>2
      <4> QED BY <4>1, <4>2
    <3>3. latest \in (0 .. MaxNow) \cup {Nil}
      BY <1>1, <3>2
    <3>4. LastMatch(n)' = LastMatch(n) /\ DeclarationKept(n)'
      BY <1>0, <3>1 DEF LastMatch, DeclarationKept
    <3>5. ~counts => ~taken
      BY <1>0, <1>1, <1>3, <2>5, NilApart DEF Judged
    <3>6. judged.contradicts => latest # Nil /\ latest >= judged.at
      BY <1>0, <1>1, <2>4, <3>2, <3>5, NilApart DEF Judged
    <3> HIDE DEF latest
    <3>7. mismatch'[n] = latest
      BY <1>2, <3>1
    <3>8. LastMatch(n) # Nil => judged.at >= LastMatch(n)
      BY <1>0, <1>1, <1>3, <2>3, <2>4, NilApart DEF Judged
    <3>9. Judged(n)'
      BY <1>5, <2>3, <2>6, <3>4, <3>6, <3>7, <3>8 DEF Judged
    <3>10. attestation' = [attestation EXCEPT ![n] = attestation[n]]
      BY <1>0, <3>1 DEF InventoryTypeOK
    <3> QED BY <1>1, <2>1, <2>3, <3>1, <3>3, <3>4, <3>9, <3>10
  <2>8. CASE ~Contradicts(n, gpus)
    <3>0. RecordMatch(n, at)
      BY <1>5, <2>8 DEF RecordGpuAttestation
    <3>1. CASE mismatch[n] # Nil /\ at <= mismatch[n]
      <4>1. UNCHANGED <<mismatch, attestation>>
        BY <3>0, <3>1 DEF RecordMatch
      <4>2. LastMatch(n)' = LastMatch(n) /\ DeclarationKept(n)'
        BY <1>0, <4>1 DEF LastMatch, DeclarationKept
      <4>3. LastMatch(n) # Nil => judged.at >= LastMatch(n)
        BY <1>0, <1>1, <1>3, <2>3, <2>4, NilApart DEF Judged
      <4>4. judged.contradicts => mismatch[n] >= judged.at
        BY <1>0, <2>4, <2>8 DEF Judged
      <4>5. Judged(n)'
        BY <1>5, <2>3, <2>6, <3>1, <4>1, <4>2, <4>3, <4>4 DEF Judged
      <4>6. /\ attestation' = [attestation EXCEPT ![n] = attestation[n]]
            /\ mismatch' = [mismatch EXCEPT ![n] = mismatch[n]]
        BY <1>0, <4>1 DEF InventoryTypeOK
      <4> QED BY <1>1, <2>1, <2>3, <4>2, <4>5, <4>6
    <3>2. CASE ~ (mismatch[n] # Nil /\ at <= mismatch[n])
      <4> DEFINE time == Later(LastMatch(n), at)
                 match == [revision |-> inventory[n].revision, at |-> time]
      <4>1. /\ mismatch' = [mismatch EXCEPT ![n] = Nil]
            /\ attestation' = [attestation EXCEPT ![n] = match]
        BY <3>0, <3>2 DEF RecordMatch
      <4>2. /\ time \in 0 .. MaxNow /\ time <= clock
            /\ time <= judged.at
        <5>1. CASE LastMatch(n) = Nil
          BY <2>4, <5>1 DEF Later
        <5>2. CASE LastMatch(n) # Nil
          <6>1. LastMatch(n) \in 0 .. MaxNow /\ LastMatch(n) <= clock
            BY <1>1, <1>3, <5>2, NilApart DEF LastMatch, Matches
          <6>2. LastMatch(n) <= judged.at
            BY <1>0, <1>1, <2>3, <2>4, <5>2, <6>1, NilApart DEF Judged
          <6>3. time = IF LastMatch(n) >= at THEN LastMatch(n) ELSE at
            BY <5>2, <6>1, MaxOfTwo DEF Later
          <6> QED BY <2>4, <6>1, <6>2, <6>3
        <5> QED BY <5>1, <5>2
      <4> HIDE DEF time
      <4>3. match \in Matches /\ match # Nil
        <5>1. match \in Matches
          BY <1>1, <4>2 DEF Matches
        <5> QED BY <5>1, NilApart
      <4>4. attestation'[n] = match /\ mismatch'[n] = Nil
        BY <1>2, <4>1
      <4>5. LastMatch(n)' = time /\ DeclarationKept(n)'
        BY <1>0, <1>1, <4>2, <4>3, <4>4 DEF LastMatch, DeclarationKept, InventoryRows
      <4>6. ~ judged.contradicts
        BY <1>0, <1>1, <2>3, <2>4, <2>5, <2>8, <3>2, NilApart DEF Judged, taken
      <4>7. Judged(n)'
        BY <1>5, <2>3, <2>6, <4>2, <4>5, <4>6 DEF Judged
      <4> QED BY <2>1, <2>3, <4>1, <4>3, <4>5, <4>7
    <3> QED BY <3>1, <3>2
  <2> QED BY <2>7, <2>8
<1> QED BY <1>4, <1>5

LEMMA HelloKeeps ==
    ASSUME InventoryInv, NEW n \in InvNodes, NEW issued \in Int, NEW gpus,
           NEW observed \in Nat, HelloWithObservation(n, issued, observed, gpus)
    PROVE  InventoryInv'
<1> DEFINE at == Min({observed, clock})
<1>0. InventoryTypeOK /\ clock \in 0 .. MaxNow /\ MaxNow \in Nat
  BY NilApart DEF InventoryInv, InventoryTypeOK
<1>1. at \in 0 .. MaxNow /\ at <= clock
  BY <1>0, MinOfTwo
<1> HIDE DEF at
<1>2. /\ RecordGpuAttestation(n, gpus, at) /\ UNCHANGED <<clock, registry, inventory>>
      /\ inventory[n] # Nil
  BY DEF HelloWithObservation, InventoryInv, DeclarationKept, at
<1>3. /\ \E m \in Matches \cup {Nil} : attestation' = [attestation EXCEPT ![n] = m]
      /\ \E m \in (0 .. MaxNow) \cup {Nil} : mismatch' = [mismatch EXCEPT ![n] = m]
      /\ \E m \in Judgements \cup {Nil} : newest' = [newest EXCEPT ![n] = m]
      /\ DeclarationKept(n)' /\ Judged(n)'
  BY <1>1, <1>2, RecordedOne
<1>4. InventoryTypeOK'
  BY <1>0, <1>2, <1>3 DEF InventoryTypeOK
<1>5. ASSUME NEW k \in InvNodes, k # n
      PROVE  DeclarationKept(k)' /\ Judged(k)'
  <2>1. /\ attestation'[k] = attestation[k] /\ mismatch'[k] = mismatch[k]
        /\ newest'[k] = newest[k]
    BY <1>0, <1>3, <1>5 DEF InventoryTypeOK
  <2>2. DeclarationKept(k) /\ Judged(k)
    BY DEF InventoryInv
  <2> QED BY <1>2, <2>1, <2>2 DEF DeclarationKept, Judged, LastMatch
<1> QED BY <1>3, <1>4, <1>5 DEF InventoryInv

LEMMA InventoryBegins == InventoryInit => InventoryInv
  BY NilApart DEF InventoryInit, InventoryInv, InventoryTypeOK, DeclarationKept, Judged, LastMatch

LEMMA InventoryStep ==
    ASSUME InventoryInv, [InventoryNext]_invVars
    PROVE  InventoryInv'
<1>1. CASE \E nodes \in SUBSET InvNodes : \E doc \in [nodes -> Entry] : ImportBootstrap(doc)
  BY <1>1, ImportKeeps
<1>2. CASE \E n \in InvNodes, issued \in 0 .. MaxNow + HelloSkew, gpus \in Observations :
               \E observed \in 0 .. issued : HelloWithObservation(n, issued, observed, gpus)
  <2>1. PICK n \in InvNodes, issued \in 0 .. MaxNow + HelloSkew, gpus \in Observations :
               \E observed \in 0 .. issued : HelloWithObservation(n, issued, observed, gpus)
    BY <1>2
  <2>2. PICK observed \in 0 .. issued : HelloWithObservation(n, issued, observed, gpus)
    BY <2>1
  <2>3. issued \in Int /\ observed \in Nat
    OBVIOUS
  <2> QED BY <2>2, <2>3, HelloKeeps
<1>3. CASE ClockTicks
  <2>1. InventoryTypeOK'
    BY <1>3, NilApart DEF ClockTicks, InventoryInv, InventoryTypeOK
  <2>2. ASSUME NEW n \in InvNodes
        PROVE  DeclarationKept(n)' /\ Judged(n)'
    <3>1. /\ clock \in Nat /\ clock' = clock + 1
          /\ inventory[n] # Nil => inventory[n].observed \in Nat
          /\ attestation[n] # Nil => attestation[n].at \in Nat
      BY <1>3, NilApart DEF ClockTicks, InventoryInv, InventoryTypeOK, InventoryRows, Matches
    <3>2. /\ DeclarationKept(n) /\ Judged(n)
          /\ UNCHANGED <<registry, inventory, attestation, mismatch, newest>>
      BY <1>3 DEF InventoryInv, ClockTicks
    <3>3. DeclarationKept(n)'
      BY <3>1, <3>2 DEF DeclarationKept
    <3> QED BY <3>2, <3>3 DEF Judged, LastMatch
  <2> QED BY <2>1, <2>2 DEF InventoryInv
<1>4. CASE UNCHANGED invVars
  BY <1>4 DEF invVars, InventoryInv, InventoryTypeOK, DeclarationKept, Judged, LastMatch
<1> QED BY <1>1, <1>2, <1>3, <1>4 DEF InventoryNext

LEMMA InventoryExcludes == InventoryInv => ContradictedNodeExcluded
<1> SUFFICES ASSUME InventoryInv, NEW n \in InvNodes, inventory[n] # Nil
             PROVE  /\ newest[n] # Nil /\ newest[n].contradicts => ExcludedByObservation(n)
                    /\ ObservedAt(n) <= clock
  BY Zenon DEF ContradictedNodeExcluded
<1>1. DeclarationKept(n) /\ Judged(n) /\ InventoryTypeOK
  BY DEF InventoryInv
<1>2. newest[n] # Nil /\ newest[n].contradicts => ExcludedByObservation(n)
  BY <1>1 DEF Judged, ExcludedByObservation
<1>3. inventory[n].observed \in Nat /\ inventory[n].observed <= clock /\ clock \in Nat
  BY <1>1, NilApart DEF DeclarationKept, InventoryTypeOK, InventoryRows
<1>4. CASE LastMatch(n) = Nil
  BY <1>2, <1>3, <1>4 DEF ObservedAt, Later
<1>5. CASE LastMatch(n) # Nil
  <2>1. LastMatch(n) \in Nat /\ LastMatch(n) <= clock
    BY <1>1, <1>5, NilApart DEF LastMatch, DeclarationKept, InventoryTypeOK, Matches
  <2> QED BY <1>2, <1>3, <1>5, <2>1, MaxOfTwo DEF ObservedAt, Later
<1> QED BY <1>2, <1>4, <1>5

-----------------------------------------------------------------------------
(* Submissions.                                                            *)

SubmissionTypeOK ==
    /\ keyJob \in [SubmissionKeys -> SubmittedJobs \cup {Untaken}]
    /\ submitted \in [SubmittedJobs -> SubmittedRows \cup {Untaken}]
    /\ bound \in [SubmittedJobs -> BoundRows \cup {Untaken}]
    /\ promised \subseteq [submission : Submissions, manifest : JobManifests \cup {Untaken}]

SubmissionInv == SubmissionTypeOK /\ SubmissionsKept

LEMMA UntakenApart ==
    /\ Untaken \notin SubmittedJobs /\ Untaken \notin JobManifests
    /\ Untaken \notin SubmittedRows /\ Untaken \notin BoundRows
  BY SubmissionAssumption

LEMMA RowOfSubmission ==
    ASSUME NEW s \in Submissions
    PROVE  /\ s.key \in SubmissionKeys /\ s.job \in SubmittedJobs
           /\ SubmittedRow(s) \in SubmittedRows /\ SubmittedRow(s) # Untaken
           /\ SubmittedRow(s).submitter = s.submitter /\ SubmittedRow(s).hash = s.hash
<1>1. s.key \in SubmissionKeys /\ s.job \in SubmittedJobs /\ SubmittedRow(s) \in SubmittedRows
  BY DEF Submissions, SubmittedRow, SubmittedRows
<1>2. SubmittedRow(s).submitter = s.submitter /\ SubmittedRow(s).hash = s.hash
  BY DEF SubmittedRow
<1> QED BY <1>1, <1>2, UntakenApart

\* A new job leaves alone what was promised, and is what its submitter gave.
LEMMA InsertKeeps ==
    ASSUME SubmissionInv, NEW s \in Submissions, keyJob[s.key] = Untaken, InsertJob(s),
           \/ bound' = bound
           \/ \E b \in BoundRows : bound' = [bound EXCEPT ![s.job] = b]
    PROVE  /\ MatchesSubmission(s)' /\ submitted'[s.job] = SubmittedRow(s)
           /\ keyJob' \in [SubmissionKeys -> SubmittedJobs \cup {Untaken}]
           /\ submitted' \in [SubmittedJobs -> SubmittedRows \cup {Untaken}]
           /\ bound' \in [SubmittedJobs -> BoundRows \cup {Untaken}]
           /\ \A p \in promised :
                 /\ MatchesSubmission(p.submission)'
                 /\ p.manifest # Untaken =>
                       /\ ManifestBound(p.submission.job)'
                       /\ bound'[p.submission.job].body = p.manifest
<1>0. SubmissionTypeOK /\ s.key \in SubmissionKeys /\ s.job \in SubmittedJobs
  BY RowOfSubmission DEF SubmissionInv
<1>1. /\ submitted[s.job] = Untaken
      /\ submitted' = [submitted EXCEPT ![s.job] = SubmittedRow(s)]
      /\ keyJob' = [keyJob EXCEPT ![s.key] = s.job]
  BY DEF InsertJob
<1>2. /\ keyJob' \in [SubmissionKeys -> SubmittedJobs \cup {Untaken}]
      /\ submitted' \in [SubmittedJobs -> SubmittedRows \cup {Untaken}]
      /\ bound' \in [SubmittedJobs -> BoundRows \cup {Untaken}]
  BY <1>0, <1>1, RowOfSubmission DEF SubmissionTypeOK
<1>3. MatchesSubmission(s)' /\ submitted'[s.job] = SubmittedRow(s)
  BY <1>0, <1>1 DEF MatchesSubmission, SubmissionTypeOK
<1>4. ASSUME NEW p \in promised
      PROVE  /\ MatchesSubmission(p.submission)'
             /\ p.manifest # Untaken =>
                   /\ ManifestBound(p.submission.job)'
                   /\ bound'[p.submission.job].body = p.manifest
  <2>0. PICK q \in Submissions : q = p.submission
    BY <1>0 DEF SubmissionTypeOK
  <2>1. /\ MatchesSubmission(q)
        /\ p.manifest # Untaken => /\ ManifestBound(q.job) /\ bound[q.job].body = p.manifest
    BY <2>0 DEF SubmissionInv, SubmissionsKept
  <2>2. q.key \in SubmissionKeys /\ q.job \in SubmittedJobs
        /\ q.key # s.key /\ q.job # s.job
    BY <1>1, <2>1, RowOfSubmission, UntakenApart DEF MatchesSubmission
  <2>3. /\ keyJob'[q.key] = keyJob[q.key] /\ submitted'[q.job] = submitted[q.job]
        /\ bound'[q.job] = bound[q.job]
    BY <1>0, <1>1, <2>2 DEF SubmissionTypeOK
  <2> QED BY <2>0, <2>1, <2>3 DEF MatchesSubmission, ManifestBound
<1> QED BY <1>2, <1>3, <1>4

LEMMA SubmissionBegins == SubmissionInit => SubmissionInv
  BY DEF SubmissionInit, SubmissionInv, SubmissionTypeOK, SubmissionsKept

LEMMA SubmissionStep ==
    ASSUME SubmissionInv, [SubmissionNext]_subVars
    PROVE  SubmissionInv'
<1>0. SubmissionTypeOK /\ SubmissionsKept
  BY DEF SubmissionInv
<1>1. ASSUME NEW s \in Submissions, SubmitWithoutManifest(s)
      PROVE  SubmissionInv'
  <2> DEFINE p == [submission |-> s, manifest |-> Untaken]
  <2>0. /\ promised' = promised \cup {p} /\ p.submission = s /\ p.manifest = Untaken
        /\ p \in [submission : Submissions, manifest : JobManifests \cup {Untaken}]
        /\ bound' = bound
    BY <1>1 DEF SubmitWithoutManifest
  <2> HIDE DEF p
  <2>1. CASE keyJob[s.key] # Untaken
    <3>1. MatchesSubmission(s) /\ UNCHANGED <<keyJob, submitted>>
      BY <1>1, <2>1 DEF SubmitWithoutManifest
    <3>2. SubmissionTypeOK'
      BY <1>0, <2>0, <3>1 DEF SubmissionTypeOK
    <3> QED BY <1>0, <2>0, <3>1, <3>2 DEF SubmissionInv, SubmissionsKept, MatchesSubmission,
            ManifestBound
  <2>2. CASE keyJob[s.key] = Untaken
    <3>1. InsertJob(s)
      BY <1>1, <2>2 DEF SubmitWithoutManifest
    <3>2. /\ MatchesSubmission(s)'
          /\ keyJob' \in [SubmissionKeys -> SubmittedJobs \cup {Untaken}]
          /\ submitted' \in [SubmittedJobs -> SubmittedRows \cup {Untaken}]
          /\ \A r \in promised :
                 /\ MatchesSubmission(r.submission)'
                 /\ r.manifest # Untaken =>
                       /\ ManifestBound(r.submission.job)'
                       /\ bound'[r.submission.job].body = r.manifest
      BY <2>0, <2>2, <3>1, InsertKeeps
    <3>3. SubmissionTypeOK'
      BY <1>0, <2>0, <3>2 DEF SubmissionTypeOK
    <3> QED BY <2>0, <3>2, <3>3 DEF SubmissionInv, SubmissionsKept
  <2> QED BY <2>1, <2>2
<1>2. ASSUME NEW s \in Submissions, NEW m \in JobManifests, NEW signer \in Submitters,
             SubmitVerifiedManifest(s, m, signer)
      PROVE  SubmissionInv'
  <2> DEFINE p == [submission |-> s, manifest |-> m]
  <2>0. /\ promised' = promised \cup {p} /\ p.submission = s /\ p.manifest = m
        /\ p \in [submission : Submissions, manifest : JobManifests \cup {Untaken}]
        /\ m.job = s.job /\ m.submitter = s.submitter /\ signer = s.submitter
        /\ s.hash = DeriveManifestHash(m)
    BY <1>2 DEF SubmitVerifiedManifest, ManifestIdentity
  <2> HIDE DEF p
  <2>1. CASE keyJob[s.key] # Untaken
    <3>1. /\ MatchesSubmission(s) /\ ManifestBound(s.job) /\ bound[s.job].body = m
          /\ UNCHANGED <<keyJob, submitted, bound>>
      BY <1>2, <2>1 DEF SubmitVerifiedManifest
    <3>2. SubmissionTypeOK'
      BY <1>0, <2>0, <3>1 DEF SubmissionTypeOK
    <3> QED BY <1>0, <2>0, <3>1, <3>2 DEF SubmissionInv, SubmissionsKept, MatchesSubmission,
            ManifestBound
  <2>2. CASE keyJob[s.key] = Untaken
    <3> DEFINE fresh == [signer |-> signer, body |-> m]
    <3>1. InsertJob(s) /\ bound' = [bound EXCEPT ![s.job] = fresh]
      BY <1>2, <2>2 DEF SubmitVerifiedManifest
    <3>2. fresh \in BoundRows /\ fresh.signer = signer /\ fresh.body = m
      BY DEF BoundRows
    <3> HIDE DEF fresh
    <3>3. /\ MatchesSubmission(s)' /\ submitted'[s.job] = SubmittedRow(s)
          /\ keyJob' \in [SubmissionKeys -> SubmittedJobs \cup {Untaken}]
          /\ submitted' \in [SubmittedJobs -> SubmittedRows \cup {Untaken}]
          /\ bound' \in [SubmittedJobs -> BoundRows \cup {Untaken}]
          /\ \A r \in promised :
                 /\ MatchesSubmission(r.submission)'
                 /\ r.manifest # Untaken =>
                       /\ ManifestBound(r.submission.job)'
                       /\ bound'[r.submission.job].body = r.manifest
      BY <2>2, <3>1, <3>2, InsertKeeps
    <3>4. bound'[s.job] = fresh
      BY <1>0, <3>1, RowOfSubmission DEF SubmissionTypeOK
    <3>5. ManifestBound(s.job)'
      BY <2>0, <3>2, <3>3, <3>4, RowOfSubmission, UntakenApart DEF ManifestBound
    <3>6. SubmissionTypeOK'
      BY <1>0, <2>0, <3>3 DEF SubmissionTypeOK
    <3>7. SubmissionsKept'
      BY <2>0, <3>2, <3>3, <3>4, <3>5 DEF SubmissionsKept
    <3> QED BY <3>6, <3>7 DEF SubmissionInv
  <2> QED BY <2>1, <2>2
<1>3. CASE UNCHANGED subVars
  BY <1>0, <1>3 DEF subVars, SubmissionInv, SubmissionTypeOK, SubmissionsKept,
     MatchesSubmission, ManifestBound
<1> QED BY <1>1, <1>2, <1>3 DEF SubmissionNext

-----------------------------------------------------------------------------
(* Heartbeats.                                                             *)

HeartbeatTypeOK ==
    /\ row \in [Nodes -> HeartbeatRows \cup {None}]
    /\ pending \in [Nodes -> Devices \cup {None}]
    /\ received \in [Nodes -> SUBSET Heartbeat]
    /\ named \in [Nodes -> Devices \cup {None}]

\* The row was made from one of the heartbeats received, which is above the others,
\* and all are from one device; a device is named only for a node without a row.
Kept(n) ==
    /\ row[n] = None <=> received[n] = {}
    /\ row[n] # None =>
          /\ row[n] = Stored(row[n].body, row[n].body.device)
          /\ row[n].body \in received[n]
          /\ \A hb \in received[n] : hb.device = row[n].body.device
          /\ \A hb \in received[n] \ {row[n].body} : OutRanks(row[n].body, hb)
          /\ pending[n] = None

HeartbeatInv == HeartbeatTypeOK /\ NamedDeviceSpeaks /\ \A n \in Nodes : Kept(n)

LEMMA StoredRow ==
    ASSUME NEW hb \in Heartbeat
    PROVE  /\ Stored(hb, hb.device) \in HeartbeatRows
           /\ Stored(hb, hb.device) # None
           /\ Stored(hb, hb.device).body = hb /\ Stored(hb, hb.device).device = hb.device
<1>1. Stored(hb, hb.device) \in HeartbeatRows
  BY DEF Stored, Heartbeat, HeartbeatRows
<1>2. Stored(hb, hb.device).body = hb /\ Stored(hb, hb.device).device = hb.device
  BY DEF Stored
<1> QED BY <1>1, <1>2, HeartbeatAssumption

LEMMA RankTotal ==
    ASSUME NEW a \in Heartbeat, NEW b \in Heartbeat, a.device = b.device, a # b
    PROVE  OutRanks(a, b) <=> ~OutRanks(b, a)
<1>1. /\ a.issued \in Int /\ a.epoch \in Int /\ a.attempts \in Int
      /\ b.issued \in Int /\ b.epoch \in Int /\ b.attempts \in Int
  BY HeartbeatAssumption DEF Heartbeat
<1>2. a.issued # b.issued \/ a.epoch # b.epoch \/ a.attempts # b.attempts
  BY DEF Heartbeat
<1> QED BY <1>1, <1>2 DEF OutRanks

LEMMA RankTransitive ==
    ASSUME NEW a \in Heartbeat, NEW b \in Heartbeat, NEW c \in Heartbeat,
           OutRanks(a, b), OutRanks(b, c)
    PROVE  OutRanks(a, c)
<1>1. /\ a.issued \in Int /\ a.epoch \in Int /\ a.attempts \in Int
      /\ b.issued \in Int /\ b.epoch \in Int /\ b.attempts \in Int
      /\ c.issued \in Int /\ c.epoch \in Int /\ c.attempts \in Int
  BY HeartbeatAssumption DEF Heartbeat
<1> QED BY <1>1 DEF OutRanks

LEMMA HeartbeatBegins == HeartbeatInit => HeartbeatInv
  BY DEF HeartbeatInit, HeartbeatInv, HeartbeatTypeOK, NamedDeviceSpeaks, Kept

\* What happens to one node is no concern of another.
LEMMA OtherNodes ==
    ASSUME HeartbeatInv, HeartbeatTypeOK', NEW n \in Nodes,
           \A k \in Nodes \ {n} : /\ row'[k] = row[k] /\ pending'[k] = pending[k]
                                  /\ received'[k] = received[k] /\ named'[k] = named[k],
           Kept(n)',
           named'[n] # None => /\ row'[n] = None => pending'[n] = named'[n]
                               /\ row'[n] # None => row'[n].device = named'[n]
    PROVE  HeartbeatInv'
<1>1. ASSUME NEW k \in Nodes
      PROVE  Kept(k)'
  <2>1. CASE k = n
    BY <2>1
  <2>2. CASE k # n
    <3>1. Kept(k) /\ row'[k] = row[k] /\ pending'[k] = pending[k] /\ received'[k] = received[k]
      BY <2>2 DEF HeartbeatInv
    <3> QED BY <3>1 DEF Kept
  <2> QED BY <2>1, <2>2
<1>2. NamedDeviceSpeaks'
  BY DEF HeartbeatInv, NamedDeviceSpeaks
<1> QED BY <1>1, <1>2 DEF HeartbeatInv

LEMMA ObserveKeeps ==
    ASSUME HeartbeatInv, NEW n \in Nodes, NEW hb \in Heartbeat, NEW signer,
           Observe(n, hb, signer)
    PROVE  HeartbeatInv'
<1>0. /\ HeartbeatTypeOK /\ Kept(n) /\ None \notin Devices /\ hb.device \in Devices
      /\ DOMAIN row = Nodes /\ DOMAIN pending = Nodes /\ DOMAIN received = Nodes
      /\ named' = named /\ received' = [received EXCEPT ![n] = @ \cup {hb}]
  BY HeartbeatAssumption DEF HeartbeatInv, HeartbeatTypeOK, Heartbeat, Observe
<1>1. received'[n] = received[n] \cup {hb} /\ received[n] \subseteq Heartbeat
  BY <1>0 DEF HeartbeatTypeOK
<1>2. named[n] # None => /\ row[n] = None => pending[n] = named[n]
                         /\ row[n] # None => row[n].device = named[n]
  BY DEF HeartbeatInv, NamedDeviceSpeaks
<1> DEFINE stored == Stored(hb, hb.device)
<1>3. stored \in HeartbeatRows /\ stored # None /\ stored.body = hb
      /\ stored.device = hb.device
  BY StoredRow
<1>4. CASE row[n] = None
  <2>1. /\ pending[n] \in {None, hb.device} /\ pending' = [pending EXCEPT ![n] = None]
        /\ row' = [row EXCEPT ![n] = stored]
    BY <1>4 DEF Observe
  <2>2. row'[n] = stored /\ pending'[n] = None /\ received'[n] = {hb}
    BY <1>0, <1>1, <1>4, <2>1 DEF Kept
  <2>3. HeartbeatTypeOK'
    BY <1>0, <1>3, <2>1 DEF HeartbeatTypeOK
  <2>4. Kept(n)'
    BY <1>3, <2>2 DEF Kept
  <2>5. named'[n] # None => row'[n].device = named'[n]
    BY <1>0, <1>2, <1>3, <1>4, <2>1, <2>2
  <2>6. \A k \in Nodes \ {n} : /\ row'[k] = row[k] /\ pending'[k] = pending[k]
                               /\ received'[k] = received[k] /\ named'[k] = named[k]
    BY <1>0, <2>1
  <2> QED BY <1>3, <2>2, <2>3, <2>4, <2>5, <2>6, OtherNodes
<1>5. CASE row[n] # None
  <2> DEFINE new == IF Overtakes(hb, row[n]) THEN stored ELSE row[n]
             b == row[n].body
  <2>1. /\ row[n].device = hb.device /\ pending' = pending
        /\ row' = [row EXCEPT ![n] = new]
    <3>1. /\ row[n].device = hb.device /\ pending' = pending
          /\ row' = IF Overtakes(hb, row[n]) THEN [row EXCEPT ![n] = stored] ELSE row
      BY <1>5 DEF Observe
    <3>2. row = [row EXCEPT ![n] = row[n]]
      BY <1>0 DEF HeartbeatTypeOK
    <3> QED BY <3>1, <3>2
  <2>2. /\ row[n] = Stored(b, b.device) /\ b \in received[n] /\ b \in Heartbeat
        /\ \A h \in received[n] : h.device = b.device
        /\ \A h \in received[n] \ {b} : OutRanks(b, h)
        /\ pending[n] = None /\ b.device = hb.device
        /\ row[n].issued = b.issued /\ row[n].epoch = b.epoch /\ row[n].attempts = b.attempts
    <3>1. /\ row[n] = Stored(b, b.device) /\ b \in received[n] /\ b \in Heartbeat
          /\ \A h \in received[n] : h.device = b.device
          /\ \A h \in received[n] \ {b} : OutRanks(b, h)
          /\ pending[n] = None
      BY <1>0, <1>1, <1>5 DEF Kept
    <3>2. /\ row[n].device = b.device /\ row[n].issued = b.issued
          /\ row[n].epoch = b.epoch /\ row[n].attempts = b.attempts
      BY <3>1 DEF Stored
    <3> QED BY <2>1, <3>1, <3>2
  <2>3. Overtakes(hb, row[n]) <=> OutRanks(hb, b)
    BY <2>2 DEF Overtakes, OutRanks
  <2> HIDE DEF b
  <2>4. new \in HeartbeatRows /\ new # None /\ new.device = hb.device
    BY <1>0, <1>3, <1>5, <2>1 DEF HeartbeatTypeOK
  <2>5. /\ new = Stored(new.body, new.body.device) /\ new.body \in received'[n]
        /\ \A h \in received'[n] : h.device = new.body.device
        /\ \A h \in received'[n] \ {new.body} : OutRanks(new.body, h)
    <3>1. CASE OutRanks(hb, b)
      <4>1. new = stored /\ new.body = hb
        BY <1>3, <2>3, <3>1
      <4>2. ASSUME NEW h \in received'[n] \ {hb}
            PROVE  OutRanks(hb, h)
        <5>1. h \in received[n] /\ h \in Heartbeat
          BY <1>1
        <5>2. CASE h = b
          BY <3>1, <5>2
        <5>3. CASE h # b
          <6>1. OutRanks(b, h)
            BY <2>2, <5>1, <5>3
          <6> QED BY <2>2, <3>1, <5>1, <6>1, RankTransitive
        <5> QED BY <5>2, <5>3
      <4> QED BY <1>1, <2>2, <4>1, <4>2
    <3>2. CASE ~OutRanks(hb, b)
      <4>1. new = row[n] /\ new.body = b
        BY <2>3, <3>2 DEF b
      <4>2. hb # b => OutRanks(b, hb)
        BY <2>2, <3>2, RankTotal
      <4> QED BY <1>1, <2>2, <4>1, <4>2
    <3> QED BY <3>1, <3>2
  <2> HIDE DEF new
  <2>6. row'[n] = new /\ received'[n] # {} /\ pending'[n] = None
    BY <1>0, <1>1, <2>1, <2>2
  <2>7. Kept(n)'
    BY <2>4, <2>5, <2>6 DEF Kept
  <2>8. HeartbeatTypeOK'
    BY <1>0, <2>1, <2>4 DEF HeartbeatTypeOK
  <2>9. \A k \in Nodes \ {n} : /\ row'[k] = row[k] /\ pending'[k] = pending[k]
                               /\ received'[k] = received[k] /\ named'[k] = named[k]
    BY <1>0, <2>1
  <2>10. named'[n] # None => row'[n].device = named'[n]
    BY <1>0, <1>2, <1>5, <2>1, <2>4, <2>6
  <2> QED BY <2>4, <2>6, <2>7, <2>8, <2>9, <2>10, OtherNodes
<1> QED BY <1>4, <1>5

LEMMA HeartbeatStep ==
    ASSUME HeartbeatInv, [HeartbeatNext]_hbVars
    PROVE  HeartbeatInv'
<1>0. /\ HeartbeatTypeOK /\ None \notin Devices
      /\ DOMAIN row = Nodes /\ DOMAIN pending = Nodes /\ DOMAIN received = Nodes
      /\ DOMAIN named = Nodes
  BY HeartbeatAssumption DEF HeartbeatInv, HeartbeatTypeOK
<1>1. ASSUME NEW n \in Nodes, NEW hb \in Heartbeat, NEW signer \in Devices,
             Observe(n, hb, signer)
      PROVE  HeartbeatInv'
  BY <1>1, ObserveKeeps
<1>2. ASSUME NEW n \in Nodes, NEW d \in Devices, RebindDevice(n, d)
      PROVE  HeartbeatInv'
  <2>1. /\ row' = [row EXCEPT ![n] = None] /\ pending' = [pending EXCEPT ![n] = d]
        /\ received' = [received EXCEPT ![n] = {}] /\ named' = [named EXCEPT ![n] = d]
    BY <1>2 DEF RebindDevice
  <2>2. row'[n] = None /\ pending'[n] = d /\ received'[n] = {} /\ named'[n] = d
    BY <1>0, <2>1
  <2>3. HeartbeatTypeOK'
    BY <1>0, <2>1 DEF HeartbeatTypeOK
  <2>4. \A k \in Nodes \ {n} : /\ row'[k] = row[k] /\ pending'[k] = pending[k]
                               /\ received'[k] = received[k] /\ named'[k] = named[k]
    BY <1>0, <2>1
  <2>5. Kept(n)'
    BY <2>2 DEF Kept
  <2> QED BY <2>2, <2>3, <2>4, <2>5, OtherNodes
<1>3. ASSUME NEW n \in Nodes, CancelRebind(n)
      PROVE  HeartbeatInv'
  <2>1. /\ pending[n] # None /\ pending' = [pending EXCEPT ![n] = None]
        /\ named' = [named EXCEPT ![n] = None] /\ UNCHANGED <<row, received>>
    BY <1>3 DEF CancelRebind
  <2>2. pending'[n] = None /\ named'[n] = None
    BY <1>0, <2>1
  <2>3. HeartbeatTypeOK'
    BY <1>0, <2>1 DEF HeartbeatTypeOK
  <2>4. \A k \in Nodes \ {n} : /\ row'[k] = row[k] /\ pending'[k] = pending[k]
                               /\ received'[k] = received[k] /\ named'[k] = named[k]
    BY <1>0, <2>1
  <2>5. Kept(n)'
    BY <2>1, <2>2 DEF HeartbeatInv, Kept
  <2> QED BY <2>2, <2>3, <2>4, <2>5, OtherNodes
<1>4. CASE UNCHANGED hbVars
  <2>1. UNCHANGED <<row, pending, received, named>>
    BY <1>4 DEF hbVars
  <2> QED BY <2>1 DEF HeartbeatInv, HeartbeatTypeOK, NamedDeviceSpeaks, Kept
<1> QED BY <1>1, <1>2, <1>3, <1>4 DEF HeartbeatNext

\* The row is what the classification selects from what was received.
LEMMA SelectedIsKept ==
    ASSUME HeartbeatInv, NEW n \in Nodes, row[n] # None
    PROVE  DecodeRow(row[n]) = SelectObservation(received[n])
<1> DEFINE b == row[n].body
           R == received[n]
<1>1. /\ row[n] = Stored(b, b.device) /\ b \in R /\ R \subseteq Heartbeat
      /\ \A h \in R : h.device = b.device
      /\ \A h \in R \ {b} : OutRanks(b, h)
  BY DEF HeartbeatInv, HeartbeatTypeOK, Kept
<1>2. DecodeRow(row[n]) = b
  BY <1>1 DEF DecodeRow, Stored
<1> HIDE DEF b, R
<1>3. {o.device : o \in R} = {b.device}
  BY <1>1
<1>4. ~ (Cardinality({o.device : o \in R}) > 1)
  <2>1. Cardinality({o.device : o \in R}) = 1
    BY <1>3, FS_Singleton, Zenon
  <2> DEFINE c == Cardinality({o.device : o \in R})
  <2> HIDE DEF c
  <2>2. ~ (c > 1)
    BY <2>1 DEF c
  <2> QED BY <2>2 DEF c
<1>5. \A o \in R : (\A p \in R \ {o} : OutRanks(o, p)) => o = b
  <2> SUFFICES ASSUME NEW o \in R, \A p \in R \ {o} : OutRanks(o, p), o # b
               PROVE  FALSE
    OBVIOUS
  <2>1. OutRanks(o, b) /\ OutRanks(b, o)
    BY <1>1
  <2>2. o \in Heartbeat /\ b \in Heartbeat /\ o.device = b.device
    BY <1>1
  <2> QED BY <2>1, <2>2, RankTotal
<1>6. (CHOOSE o \in R : \A p \in R \ {o} : OutRanks(o, p)) = b
  BY <1>1, <1>5
<1>7. SelectObservation(R) = b
  <2> DEFINE many == Cardinality({o.device : o \in R}) > 1
             top == CHOOSE o \in R : \A p \in R \ {o} : OutRanks(o, p)
  <2>1. SelectObservation(R) = CASE R = {} -> None [] many -> Refused [] OTHER -> top
    BY Zenon DEF SelectObservation
  <2>2. R # {} /\ ~many /\ top = b
    BY <1>1, <1>4, <1>6
  <2> HIDE DEF many, top
  <2> QED BY <2>1, <2>2, Zenon
<1> QED BY <1>2, <1>7 DEF R

LEMMA HeartbeatsKept == HeartbeatInv => LatestHeartbeatKept /\ NamedDeviceSpeaks
<1> SUFFICES ASSUME HeartbeatInv
             PROVE  LatestHeartbeatKept
  BY DEF HeartbeatInv
<1>1. {m \in Nodes : row[m] # None} = {m \in Nodes : received[m] # {}}
  BY DEF HeartbeatInv, Kept
<1>2. \A n \in {m \in Nodes : row[m] # None} :
          DecodeRow(row[n]) = SelectObservation(received[n])
  BY SelectedIsKept
<1> QED BY <1>1, <1>2 DEF LatestHeartbeatKept, LoadAll

-----------------------------------------------------------------------------
(* Evidence about attempts.                                                *)

EvidenceTypeOK ==
    /\ assigned \subseteq EvidenceAttempts
    /\ reservedFor \in [EvidenceNodes -> EvidenceAttempts \cup {Absent}]
    /\ manifestRow \in [Checkpoints -> ManifestRows \cup {Absent}]
    /\ ackRow \in [AckKeys -> AckRows \cup {Absent}]
    /\ reportRow \in [EvidenceAttempts -> ReportRows \cup {Absent}]
    /\ releaseRow \in [EvidenceAttempts -> Reports \cup {Absent}]
    /\ takenBack \subseteq assigned

\* Whatever is in a table can be read back.
ManifestsReadable == \A c \in Checkpoints : manifestRow[c] # Absent => ManifestReadable(c)
AcksReadable == \A k \in AckKeys : ackRow[k] # Absent => AckReadable(k)
ReportsReadable == \A a \in EvidenceAttempts : reportRow[a] # Absent => ReportReadable(a)

\* What was answered as stored is in its table.
InTable(e) ==
    \/ /\ e.kind = "manifest" /\ e.body.checkpoint \in Checkpoints
       /\ manifestRow[e.body.checkpoint] # Absent
       /\ manifestRow[e.body.checkpoint].body = e.body
    \/ /\ e.kind = "ack" /\ e.body.key \in AckKeys
       /\ ackRow[e.body.key] # Absent
       /\ ackRow[e.body.key].body = e.body
    \/ /\ e.kind = "report" /\ e.body.claim.attempt \in EvidenceAttempts
       /\ reportRow[e.body.claim.attempt] # Absent
       /\ reportRow[e.body.claim.attempt].body = e.body

ConfirmedStored == \A e \in confirmed : InTable(e)

\* A node is reserved for an attempt that was staged on it, and only the node of an
\* attempt that reported was released.
ReservedForStaged ==
    \A n \in EvidenceNodes :
        reservedFor[n] # Absent =>
            reservedFor[n] \in assigned /\ AttemptFacts[reservedFor[n]].node = n

ReleasedAfterReport ==
    \A a \in EvidenceAttempts :
        releaseRow[a] # Absent => a \in assigned /\ reportRow[a] # Absent

EvidenceInv ==
    /\ EvidenceTypeOK
    /\ ManifestsReadable /\ AcksReadable /\ ReportsReadable
    /\ ConfirmedStored
    /\ ReservedForStaged /\ ReleasedAfterReport /\ NodeFreedByOwnRelease

LEMMA AbsentApart ==
    /\ Absent \notin EvidenceAttempts /\ Absent \notin Reports
    /\ Absent \notin ManifestRows /\ Absent \notin AckRows /\ Absent \notin ReportRows
    /\ \A a \in EvidenceAttempts : AttemptFacts[a].node \in EvidenceNodes
  BY EvidenceAssumption

\* No row is ever replaced.
RowsStay ==
    /\ assigned \subseteq assigned'
    /\ \A c \in Checkpoints : manifestRow[c] # Absent => manifestRow'[c] = manifestRow[c]
    /\ \A k \in AckKeys : ackRow[k] # Absent => ackRow'[k] = ackRow[k]
    /\ \A a \in EvidenceAttempts : reportRow[a] # Absent => reportRow'[a] = reportRow[a]

LEMMA ReadableStays ==
    ASSUME EvidenceInv, RowsStay
    PROVE  /\ \A c \in Checkpoints : manifestRow[c] # Absent => ManifestReadable(c)'
           /\ \A k \in AckKeys : ackRow[k] # Absent => AckReadable(k)'
           /\ \A a \in EvidenceAttempts : reportRow[a] # Absent => ReportReadable(a)'
           /\ \A e \in confirmed : InTable(e)'
<1>1. ASSUME NEW r, ColumnsAgree(r)
      PROVE  ColumnsAgree(r)'
  BY <1>1 DEF ColumnsAgree, RowsStay, NamesAttempt, CurrentFence, SignedByNode
<1>2. ASSUME NEW c \in Checkpoints, manifestRow[c] # Absent
      PROVE  ManifestReadable(c)'
  <2>1. ManifestReadable(c) /\ manifestRow'[c] = manifestRow[c]
    BY <1>2 DEF EvidenceInv, ManifestsReadable, RowsStay
  <2>2. PICK r : r = manifestRow[c]
    OBVIOUS
  <2>3. ColumnsAgree(r) /\ r.body.checkpoint = c /\ r.body.digest = r.digest
    BY <2>1, <2>2 DEF ManifestReadable
  <2>4. ColumnsAgree(r)' /\ r = manifestRow'[c]
    BY <1>1, <2>1, <2>2, <2>3
  <2> QED BY <2>3, <2>4 DEF ManifestReadable
<1>3. ASSUME NEW k \in AckKeys, ackRow[k] # Absent
      PROVE  AckReadable(k)'
  <2>1. AckReadable(k) /\ ackRow'[k] = ackRow[k]
    BY <1>3 DEF EvidenceInv, AcksReadable, RowsStay
  <2>2. k[1] \in Checkpoints /\ manifestRow[k[1]] # Absent
    BY <2>1 DEF AckReadable, Anchored, AckKeys
  <2>3. ManifestReadable(k[1])' /\ manifestRow'[k[1]] = manifestRow[k[1]]
    BY <1>2, <2>2 DEF RowsStay
  <2> QED BY <2>1, <2>2, <2>3 DEF AckReadable, Anchored
<1>4. ASSUME NEW a \in EvidenceAttempts, reportRow[a] # Absent
      PROVE  ReportReadable(a)'
  <2>1. ReportReadable(a) /\ reportRow'[a] = reportRow[a]
    BY <1>4 DEF EvidenceInv, ReportsReadable, RowsStay
  <2>2. PICK r : r = reportRow[a]
    OBVIOUS
  <2>3. ColumnsAgree(r) /\ r.claim.attempt = a /\ r.body.said \in AllowedReports
    BY <2>1, <2>2 DEF ReportReadable
  <2>4. ColumnsAgree(r)' /\ r = reportRow'[a]
    BY <1>1, <2>1, <2>2, <2>3
  <2> QED BY <2>3, <2>4 DEF ReportReadable
<1>5. \A e \in confirmed : InTable(e)'
  BY DEF EvidenceInv, ConfirmedStored, InTable, RowsStay
<1> QED BY <1>2, <1>3, <1>4, <1>5

LEMMA EvidenceBegins == EvidenceInit => EvidenceInv
  BY DEF EvidenceInit, EvidenceInv, EvidenceTypeOK, ManifestsReadable, AcksReadable,
     ReportsReadable, ConfirmedStored, ReservedForStaged, ReleasedAfterReport,
     NodeFreedByOwnRelease

LEMMA ManifestKeeps ==
    ASSUME EvidenceInv, NEW m \in Manifests, NEW signer \in EvidenceNodes,
           StoreVerifiedManifest(m, signer)
    PROVE  EvidenceInv'
<1> DEFINE c == m.checkpoint
           e == [kind |-> "manifest", body |-> m, signer |-> signer]
<1>0. EvidenceTypeOK /\ c \in Checkpoints /\ m.claim \in Claims /\ m.digest \in Digests
  BY DEF EvidenceInv, Manifests
<1>1. /\ confirmed' = confirmed \cup {e} /\ e.kind = "manifest" /\ e.body = m
      /\ UNCHANGED <<assigned, reservedFor, ackRow, reportRow, releaseRow, takenBack>>
  BY DEF StoreVerifiedManifest
<1> HIDE DEF e
<1>2. /\ manifestRow' \in [Checkpoints -> ManifestRows \cup {Absent}]
      /\ manifestRow'[c] # Absent /\ manifestRow'[c].body = m
      /\ \A d \in Checkpoints : manifestRow[d] # Absent => manifestRow'[d] = manifestRow[d]
      /\ \A d \in Checkpoints \ {c} : manifestRow'[d] = manifestRow[d]
      /\ manifestRow[c] = Absent => ManifestReadable(c)'
  <2>1. CASE manifestRow[c] # Absent
    BY <1>0, <2>1 DEF StoreVerifiedManifest, EvidenceTypeOK
  <2>2. CASE manifestRow[c] = Absent
    <3> DEFINE r == [claim |-> m.claim, signer |-> signer, digest |-> m.digest, body |-> m]
    <3>1. /\ BindAttemptIdentityAndFence(m.claim) /\ BindProducerAndSigner(m.claim, signer)
          /\ manifestRow' = [manifestRow EXCEPT ![c] = r]
      BY <2>2 DEF StoreVerifiedManifest
    <3>2. /\ r \in ManifestRows /\ r.claim = m.claim /\ r.signer = signer
          /\ r.digest = m.digest /\ r.body = m
      BY <1>0 DEF ManifestRows
    <3>3. r # Absent
      BY <3>2, AbsentApart
    <3> HIDE DEF r
    <3>4. manifestRow'[c] = r
      BY <1>0, <3>1 DEF EvidenceTypeOK
    <3>5. ColumnsAgree(r)'
      BY <1>1, <3>1, <3>2 DEF ColumnsAgree, BindAttemptIdentityAndFence,
         BindProducerAndSigner, NamesAttempt, CurrentFence, SignedByNode
    <3>6. ManifestReadable(c)'
      BY <3>2, <3>4, <3>5 DEF ManifestReadable
    <3> QED BY <1>0, <2>2, <3>1, <3>2, <3>3, <3>4, <3>6 DEF EvidenceTypeOK
  <2> QED BY <2>1, <2>2
<1>3. RowsStay
  BY <1>1, <1>2 DEF RowsStay
<1>4. EvidenceTypeOK'
  BY <1>0, <1>1, <1>2 DEF EvidenceTypeOK
<1>5. ManifestsReadable'
  <2> SUFFICES ASSUME NEW d \in Checkpoints, manifestRow'[d] # Absent
               PROVE  ManifestReadable(d)'
    BY DEF ManifestsReadable
  <2>1. CASE manifestRow[d] # Absent
    BY <1>3, <2>1, ReadableStays
  <2>2. CASE manifestRow[d] = Absent
    BY <1>2, <2>2
  <2> QED BY <2>1, <2>2
<1>6. AcksReadable' /\ ReportsReadable'
  BY <1>1, <1>3, ReadableStays DEF AcksReadable, ReportsReadable
<1>7. ConfirmedStored'
  BY <1>0, <1>1, <1>2, <1>3, ReadableStays DEF ConfirmedStored, InTable
<1>8. ReservedForStaged' /\ ReleasedAfterReport' /\ NodeFreedByOwnRelease'
  BY <1>1 DEF EvidenceInv, ReservedForStaged, ReleasedAfterReport, NodeFreedByOwnRelease
<1> QED BY <1>4, <1>5, <1>6, <1>7, <1>8 DEF EvidenceInv

LEMMA AckKeeps ==
    ASSUME EvidenceInv, NEW ack \in Acks, NEW signer \in EvidenceNodes,
           StoreVerifiedAck(ack, signer)
    PROVE  EvidenceInv'
<1> DEFINE k == ack.key
           e == [kind |-> "ack", body |-> ack, signer |-> signer]
<1>0. EvidenceTypeOK /\ k \in AckKeys /\ ack.digest \in Digests
  BY DEF EvidenceInv, Acks
<1>1. /\ confirmed' = confirmed \cup {e} /\ e.kind = "ack" /\ e.body = ack
      /\ UNCHANGED <<assigned, reservedFor, manifestRow, reportRow, releaseRow, takenBack>>
      /\ signer = k[2] /\ Anchored(k[1]) /\ ack.digest = manifestRow[k[1]].digest
  BY DEF StoreVerifiedAck
<1> HIDE DEF e
<1>2. /\ ackRow' \in [AckKeys -> AckRows \cup {Absent}]
      /\ ackRow'[k] # Absent /\ ackRow'[k].body = ack
      /\ \A l \in AckKeys : ackRow[l] # Absent => ackRow'[l] = ackRow[l]
      /\ \A l \in AckKeys \ {k} : ackRow'[l] = ackRow[l]
      /\ ackRow[k] = Absent =>
            ackRow'[k] = [signer |-> signer, digest |-> ack.digest, body |-> ack]
  <2>1. CASE ackRow[k] # Absent
    BY <1>0, <2>1 DEF StoreVerifiedAck, EvidenceTypeOK
  <2>2. CASE ackRow[k] = Absent
    <3> DEFINE r == [signer |-> signer, digest |-> ack.digest, body |-> ack]
    <3>1. ackRow' = [ackRow EXCEPT ![k] = r]
      BY <2>2 DEF StoreVerifiedAck
    <3>2. r \in AckRows /\ r.body = ack
      BY <1>0 DEF AckRows
    <3>3. r # Absent
      BY <3>2, AbsentApart
    <3> HIDE DEF r
    <3>4. ackRow'[k] = r
      BY <1>0, <3>1 DEF EvidenceTypeOK
    <3>5. /\ ackRow' \in [AckKeys -> AckRows \cup {Absent}]
          /\ \A l \in AckKeys \ {k} : ackRow'[l] = ackRow[l]
      BY <1>0, <3>1, <3>2 DEF EvidenceTypeOK
    <3> QED BY <2>2, <3>2, <3>3, <3>4, <3>5 DEF r
  <2> QED BY <2>1, <2>2
<1>3. RowsStay
  BY <1>1, <1>2 DEF RowsStay
<1>4. EvidenceTypeOK'
  BY <1>0, <1>1, <1>2 DEF EvidenceTypeOK
<1>5. ManifestReadable(k[1])' /\ manifestRow[k[1]] # Absent
  BY <1>0, <1>1, <1>3, ReadableStays DEF Anchored, AckKeys
<1>6. AcksReadable'
  <2> SUFFICES ASSUME NEW l \in AckKeys, ackRow'[l] # Absent
               PROVE  AckReadable(l)'
    BY DEF AcksReadable
  <2>1. CASE ackRow[l] # Absent
    BY <1>3, <2>1, ReadableStays
  <2>2. CASE ackRow[l] = Absent
    <3>1. l = k /\ ackRow'[k] = [signer |-> signer, digest |-> ack.digest, body |-> ack]
      BY <1>2, <2>2
    <3>2. /\ ackRow'[k].signer = signer /\ ackRow'[k].digest = ack.digest
          /\ ackRow'[k].body = ack
      BY <3>1
    <3> QED BY <1>1, <1>5, <3>1, <3>2 DEF AckReadable, Anchored
  <2> QED BY <2>1, <2>2
<1>7. ManifestsReadable' /\ ReportsReadable'
  BY <1>1, <1>3, ReadableStays DEF ManifestsReadable, ReportsReadable
<1>8. ConfirmedStored'
  BY <1>0, <1>1, <1>2, <1>3, ReadableStays DEF ConfirmedStored, InTable
<1>9. ReservedForStaged' /\ ReleasedAfterReport' /\ NodeFreedByOwnRelease'
  BY <1>1 DEF EvidenceInv, ReservedForStaged, ReleasedAfterReport, NodeFreedByOwnRelease
<1> QED BY <1>4, <1>6, <1>7, <1>8, <1>9 DEF EvidenceInv

LEMMA ReportKeeps ==
    ASSUME EvidenceInv, NEW r \in Reports, NEW signer \in EvidenceNodes,
           StoreReportRow(r, signer)
    PROVE  EvidenceInv'
<1> DEFINE a == r.claim.attempt
           e == [kind |-> "report", body |-> r, signer |-> signer]
<1>0. /\ EvidenceTypeOK /\ r.claim \in Claims /\ a \in EvidenceAttempts
      /\ r.said \in AllowedReports
  BY ReportsAllowed DEF EvidenceInv, Reports, Claims
<1>1. /\ confirmed' = confirmed \cup {e} /\ e.kind = "report" /\ e.body = r
      /\ UNCHANGED <<assigned, reservedFor, manifestRow, ackRow, releaseRow, takenBack>>
  BY DEF StoreReportRow
<1> HIDE DEF e
<1>2. /\ reportRow' \in [EvidenceAttempts -> ReportRows \cup {Absent}]
      /\ reportRow'[a] # Absent /\ reportRow'[a].body = r
      /\ \A b \in EvidenceAttempts : reportRow[b] # Absent => reportRow'[b] = reportRow[b]
      /\ \A b \in EvidenceAttempts \ {a} : reportRow'[b] = reportRow[b]
      /\ reportRow[a] = Absent => ReportReadable(a)'
  <2>1. CASE reportRow[a] # Absent /\ r.claim.node = reportRow[a].claim.node
    BY <1>0, <2>1 DEF StoreReportRow, EvidenceTypeOK
  <2>2. CASE ~ (reportRow[a] # Absent /\ r.claim.node = reportRow[a].claim.node)
    <3>0. PICK row1 : row1 = [claim |-> r.claim, signer |-> signer, via |-> BoundVia(r.claim),
                              body |-> r]
      OBVIOUS
    <3>1. BindAttempt(r.claim, signer) /\ reportRow' = [reportRow EXCEPT ![a] = row1]
      BY <2>2, <3>0 DEF StoreReportRow
    <3>2. reportRow[a] = Absent
      <4> SUFFICES ASSUME reportRow[a] # Absent
                   PROVE  FALSE
        OBVIOUS
      <4>1. ReportReadable(a)
        BY <1>0 DEF EvidenceInv, ReportsReadable
      <4>2. reportRow[a].claim.node = AttemptFacts[a].node
        BY <4>1 DEF ReportReadable, ColumnsAgree, SignedByNode
      <4>3. r.claim.node = AttemptFacts[a].node
        BY <3>1 DEF BindAttempt, SignedByNode
      <4> QED BY <2>2, <4>2, <4>3
    <3>3. BoundVia(r.claim) \in {"current_reservation", "assignment_record"}
      BY DEF BoundVia
    <3>4. /\ row1 \in ReportRows /\ row1.claim = r.claim /\ row1.signer = signer
          /\ row1.body = r
      BY <1>0, <3>0, <3>3 DEF ReportRows
    <3>5. row1 # Absent
      BY <3>4, AbsentApart
    <3>6. reportRow'[a] = row1
      BY <1>0, <3>1 DEF EvidenceTypeOK
    <3>7. ColumnsAgree(row1)'
      BY <1>1, <3>1, <3>4 DEF ColumnsAgree, BindAttempt, NamesAttempt, CurrentFence,
         SignedByNode
    <3>8. ReportReadable(a)'
      BY <1>0, <3>4, <3>6, <3>7 DEF ReportReadable
    <3>9. /\ reportRow' \in [EvidenceAttempts -> ReportRows \cup {Absent}]
          /\ \A b \in EvidenceAttempts \ {a} : reportRow'[b] = reportRow[b]
      BY <1>0, <3>1, <3>4 DEF EvidenceTypeOK
    <3> QED BY <3>2, <3>4, <3>5, <3>6, <3>8, <3>9
  <2> QED BY <2>1, <2>2
<1>3. RowsStay
  BY <1>1, <1>2 DEF RowsStay
<1>4. EvidenceTypeOK'
  BY <1>0, <1>1, <1>2 DEF EvidenceTypeOK
<1>5. ReportsReadable'
  <2> SUFFICES ASSUME NEW b \in EvidenceAttempts, reportRow'[b] # Absent
               PROVE  ReportReadable(b)'
    BY DEF ReportsReadable
  <2>1. CASE reportRow[b] # Absent
    BY <1>3, <2>1, ReadableStays
  <2>2. CASE reportRow[b] = Absent
    BY <1>2, <2>2
  <2> QED BY <2>1, <2>2
<1>6. ManifestsReadable' /\ AcksReadable'
  BY <1>1, <1>3, ReadableStays DEF ManifestsReadable, AcksReadable
<1>7. ConfirmedStored'
  BY <1>0, <1>1, <1>2, <1>3, ReadableStays DEF ConfirmedStored, InTable
<1>8. ReservedForStaged'
  BY <1>1 DEF EvidenceInv, ReservedForStaged
<1>9. ReleasedAfterReport'
  BY <1>1, <1>2 DEF EvidenceInv, ReleasedAfterReport
<1>10. NodeFreedByOwnRelease'
  <2> SUFFICES ASSUME NEW b \in assigned
               PROVE  /\ reservedFor[AttemptFacts[b].node] = b
                            <=> releaseRow[b] = Absent /\ b \notin takenBack
                      /\ releaseRow[b] # Absent => releaseRow[b] = reportRow'[b].body
    BY <1>1 DEF NodeFreedByOwnRelease
  <2>1. /\ reservedFor[AttemptFacts[b].node] = b
               <=> releaseRow[b] = Absent /\ b \notin takenBack
        /\ releaseRow[b] # Absent => releaseRow[b] = reportRow[b].body
    BY DEF EvidenceInv, NodeFreedByOwnRelease
  <2>2. releaseRow[b] # Absent => reportRow'[b] = reportRow[b]
    BY <1>0, <1>2 DEF EvidenceInv, ReleasedAfterReport, EvidenceTypeOK
  <2> QED BY <2>1, <2>2
<1> QED BY <1>4, <1>5, <1>6, <1>7, <1>8, <1>9, <1>10 DEF EvidenceInv

LEMMA TablesUnchanged ==
    ASSUME EvidenceInv, assigned \subseteq assigned',
           UNCHANGED <<manifestRow, ackRow, reportRow, confirmed>>
    PROVE  ManifestsReadable' /\ AcksReadable' /\ ReportsReadable' /\ ConfirmedStored'
<1>1. RowsStay
  BY DEF RowsStay
<1> QED BY <1>1, ReadableStays DEF ManifestsReadable, AcksReadable, ReportsReadable,
        ConfirmedStored

LEMMA ReleaseKeeps ==
    ASSUME EvidenceInv, NEW r \in Reports, NEW signer, NEW auth,
           ReleaseForVerifiedTerminalReport(r, signer, auth)
    PROVE  EvidenceInv'
<1> DEFINE a == r.claim.attempt
           n == r.claim.node
<1>0. /\ EvidenceTypeOK /\ a \in EvidenceAttempts /\ r # Absent
      /\ UNCHANGED <<assigned, manifestRow, ackRow, reportRow, takenBack, confirmed>>
  BY AbsentApart DEF EvidenceInv, Reports, Claims, ReleaseForVerifiedTerminalReport
<1>1. ManifestsReadable' /\ AcksReadable' /\ ReportsReadable' /\ ConfirmedStored'
  BY <1>0, TablesUnchanged
<1>2. CASE releaseRow[a] # Absent
  <2>1. UNCHANGED <<reservedFor, releaseRow>>
    BY <1>2 DEF ReleaseForVerifiedTerminalReport
  <2> QED BY <1>0, <1>1, <2>1 DEF EvidenceInv, EvidenceTypeOK, ReservedForStaged,
          ReleasedAfterReport, NodeFreedByOwnRelease
<1>3. CASE releaseRow[a] = Absent
  <2>1. /\ reportRow[a] # Absent /\ ReportReadable(a) /\ reportRow[a].body = r
        /\ reservedFor[n] = a
        /\ reservedFor' = [reservedFor EXCEPT ![n] = Absent]
        /\ releaseRow' = [releaseRow EXCEPT ![a] = r]
    BY <1>3 DEF ReleaseForVerifiedTerminalReport, CheckReservationOwner
  <2>2. n = AttemptFacts[a].node /\ a \in assigned /\ n \in EvidenceNodes
    <3>1. /\ reportRow[a].claim = r.claim
          /\ reportRow[a].claim.node = AttemptFacts[a].node /\ a \in assigned
      BY <2>1 DEF ReportReadable, ColumnsAgree, SignedByNode
    <3> QED BY <1>0, <3>1, AbsentApart
  <2>3. /\ reservedFor'[n] = Absent /\ releaseRow'[a] = r
        /\ \A m \in EvidenceNodes \ {n} : reservedFor'[m] = reservedFor[m]
        /\ \A b \in EvidenceAttempts \ {a} : releaseRow'[b] = releaseRow[b]
    BY <1>0, <2>1, <2>2 DEF EvidenceTypeOK
  <2>4. EvidenceTypeOK'
    BY <1>0, <2>1 DEF EvidenceTypeOK
  <2>5. ReservedForStaged' /\ ReleasedAfterReport'
    BY <1>0, <2>1, <2>2, <2>3 DEF EvidenceInv, ReservedForStaged, ReleasedAfterReport
  <2>6. NodeFreedByOwnRelease'
    <3> SUFFICES ASSUME NEW b \in assigned
                 PROVE  /\ reservedFor'[AttemptFacts[b].node] = b
                              <=> releaseRow'[b] = Absent /\ b \notin takenBack
                        /\ releaseRow'[b] # Absent => releaseRow'[b] = reportRow[b].body
      BY <1>0 DEF NodeFreedByOwnRelease
    <3>0. b \in EvidenceAttempts /\ AttemptFacts[b].node \in EvidenceNodes /\ b # Absent
      BY <1>0, AbsentApart DEF EvidenceTypeOK
    <3>1. /\ reservedFor[AttemptFacts[b].node] = b
                 <=> releaseRow[b] = Absent /\ b \notin takenBack
          /\ releaseRow[b] # Absent => releaseRow[b] = reportRow[b].body
      BY DEF EvidenceInv, NodeFreedByOwnRelease
    <3>2. CASE b = a
      BY <1>0, <2>1, <2>2, <2>3, <3>0, <3>2
    <3>3. CASE b # a
      <4>1. releaseRow'[b] = releaseRow[b]
        BY <2>3, <3>0, <3>3
      <4>2. CASE AttemptFacts[b].node = n
        BY <2>1, <2>3, <3>0, <3>1, <3>3, <4>1, <4>2
      <4>3. CASE AttemptFacts[b].node # n
        BY <2>3, <3>0, <3>1, <4>1, <4>3
      <4> QED BY <4>2, <4>3
    <3> QED BY <3>2, <3>3
  <2> QED BY <1>1, <2>4, <2>5, <2>6 DEF EvidenceInv
<1> QED BY <1>2, <1>3

LEMMA StageKeeps ==
    ASSUME EvidenceInv, NEW a \in EvidenceAttempts, StageOnNode(a)
    PROVE  EvidenceInv'
<1> DEFINE n == AttemptFacts[a].node
<1>0. /\ EvidenceTypeOK /\ n \in EvidenceNodes /\ a # Absent
      /\ a \notin assigned /\ reservedFor[n] = Absent
      /\ assigned' = assigned \cup {a} /\ reservedFor' = [reservedFor EXCEPT ![n] = a]
      /\ UNCHANGED <<manifestRow, ackRow, reportRow, releaseRow, takenBack, confirmed>>
  BY AbsentApart DEF EvidenceInv, StageOnNode
<1>1. ManifestsReadable' /\ AcksReadable' /\ ReportsReadable' /\ ConfirmedStored'
  BY <1>0, TablesUnchanged
<1>2. EvidenceTypeOK'
  BY <1>0 DEF EvidenceTypeOK
<1>3. /\ reservedFor'[n] = a
      /\ \A m \in EvidenceNodes \ {n} : reservedFor'[m] = reservedFor[m]
  BY <1>0 DEF EvidenceTypeOK
<1>4. ReservedForStaged' /\ ReleasedAfterReport'
  BY <1>0, <1>3 DEF EvidenceInv, ReservedForStaged, ReleasedAfterReport
<1>5. NodeFreedByOwnRelease'
  <2> SUFFICES ASSUME NEW b \in assigned \cup {a}
               PROVE  /\ reservedFor'[AttemptFacts[b].node] = b
                            <=> releaseRow[b] = Absent /\ b \notin takenBack
                      /\ releaseRow[b] # Absent => releaseRow[b] = reportRow[b].body
    BY <1>0 DEF NodeFreedByOwnRelease
  <2>1. CASE b = a
    <3>1. releaseRow[a] = Absent /\ a \notin takenBack
      BY <1>0 DEF EvidenceInv, ReleasedAfterReport, EvidenceTypeOK
    <3> QED BY <1>3, <2>1, <3>1
  <2>2. CASE b # a
    <3>0. /\ b \in assigned /\ b \in EvidenceAttempts /\ b # Absent
          /\ AttemptFacts[b].node \in EvidenceNodes
      BY <1>0, <2>2, AbsentApart DEF EvidenceTypeOK
    <3>1. /\ reservedFor[AttemptFacts[b].node] = b
                 <=> releaseRow[b] = Absent /\ b \notin takenBack
          /\ releaseRow[b] # Absent => releaseRow[b] = reportRow[b].body
      BY <3>0 DEF EvidenceInv, NodeFreedByOwnRelease
    <3>2. CASE AttemptFacts[b].node = n
      BY <1>0, <1>3, <2>2, <3>0, <3>1, <3>2
    <3>3. CASE AttemptFacts[b].node # n
      BY <1>3, <3>0, <3>1, <3>3
    <3> QED BY <3>2, <3>3
  <2> QED BY <2>1, <2>2
<1> QED BY <1>1, <1>2, <1>4, <1>5 DEF EvidenceInv

LEMMA FreedKeeps ==
    ASSUME EvidenceInv, NEW a \in EvidenceAttempts, FreedByOperator(a)
    PROVE  EvidenceInv'
<1> DEFINE n == AttemptFacts[a].node
<1>0. /\ EvidenceTypeOK /\ n \in EvidenceNodes /\ a # Absent
      /\ a \in assigned /\ reservedFor[n] = a
      /\ takenBack' = takenBack \cup {a} /\ reservedFor' = [reservedFor EXCEPT ![n] = Absent]
      /\ UNCHANGED <<assigned, manifestRow, ackRow, reportRow, releaseRow, confirmed>>
  BY AbsentApart DEF EvidenceInv, FreedByOperator
<1>1. ManifestsReadable' /\ AcksReadable' /\ ReportsReadable' /\ ConfirmedStored'
  BY <1>0, TablesUnchanged
<1>2. EvidenceTypeOK'
  BY <1>0 DEF EvidenceTypeOK
<1>3. /\ reservedFor'[n] = Absent
      /\ \A m \in EvidenceNodes \ {n} : reservedFor'[m] = reservedFor[m]
  BY <1>0 DEF EvidenceTypeOK
<1>4. ReservedForStaged' /\ ReleasedAfterReport'
  BY <1>0, <1>3 DEF EvidenceInv, ReservedForStaged, ReleasedAfterReport
<1>5. NodeFreedByOwnRelease'
  <2> SUFFICES ASSUME NEW b \in assigned
               PROVE  /\ reservedFor'[AttemptFacts[b].node] = b
                            <=> releaseRow[b] = Absent /\ b \notin takenBack \cup {a}
                      /\ releaseRow[b] # Absent => releaseRow[b] = reportRow[b].body
    BY <1>0 DEF NodeFreedByOwnRelease
  <2>0. b \in EvidenceAttempts /\ b # Absent /\ AttemptFacts[b].node \in EvidenceNodes
    BY <1>0, AbsentApart DEF EvidenceTypeOK
  <2>1. /\ reservedFor[AttemptFacts[b].node] = b
               <=> releaseRow[b] = Absent /\ b \notin takenBack
        /\ releaseRow[b] # Absent => releaseRow[b] = reportRow[b].body
    BY DEF EvidenceInv, NodeFreedByOwnRelease
  <2>2. CASE AttemptFacts[b].node = n
    BY <1>0, <1>3, <2>0, <2>1, <2>2
  <2>3. CASE AttemptFacts[b].node # n
    BY <1>3, <2>0, <2>1, <2>3
  <2> QED BY <2>2, <2>3
<1> QED BY <1>1, <1>2, <1>4, <1>5 DEF EvidenceInv

LEMMA EvidenceStep ==
    ASSUME EvidenceInv, [EvidenceNext]_evVars
    PROVE  EvidenceInv'
<1>1. CASE \E a \in EvidenceAttempts : StageOnNode(a) \/ FreedByOperator(a)
  BY <1>1, StageKeeps, FreedKeeps
<1>2. CASE \E signer \in EvidenceNodes :
               \/ \E m \in Manifests : StoreVerifiedManifest(m, signer)
               \/ \E ack \in Acks : StoreVerifiedAck(ack, signer)
               \/ \E r \in Reports : StoreReportRow(r, signer)
               \/ \E r \in Reports, auth \in Authorizations :
                     ReleaseForVerifiedTerminalReport(r, signer, auth)
  BY <1>2, ManifestKeeps, AckKeeps, ReportKeeps, ReleaseKeeps
<1>3. CASE UNCHANGED evVars
  <2>1. UNCHANGED <<assigned, reservedFor, manifestRow, ackRow, reportRow, releaseRow,
                    takenBack, confirmed>>
    BY <1>3 DEF evVars
  <2>2. ManifestsReadable' /\ AcksReadable' /\ ReportsReadable' /\ ConfirmedStored'
    BY <2>1, TablesUnchanged
  <2> QED BY <2>1, <2>2 DEF EvidenceInv, EvidenceTypeOK, ReservedForStaged,
          ReleasedAfterReport, NodeFreedByOwnRelease
<1> QED BY <1>1, <1>2, <1>3 DEF EvidenceNext

LEMMA EvidenceIsKept == EvidenceInv => EvidenceKept /\ NodeFreedByOwnRelease
<1> SUFFICES ASSUME EvidenceInv, NEW e \in confirmed
             PROVE  \/ /\ e.kind = "manifest"
                       /\ ManifestReadable(e.body.checkpoint)
                       /\ manifestRow[e.body.checkpoint].body = e.body
                    \/ /\ e.kind = "ack"
                       /\ AckReadable(e.body.key)
                       /\ e.body \in ListAckBindings(e.body.key[1])
                    \/ /\ e.kind = "report"
                       /\ ReportReadable(e.body.claim.attempt)
                       /\ reportRow[e.body.claim.attempt].body = e.body
  BY DEF EvidenceInv, EvidenceKept
<1>1. InTable(e)
  BY DEF EvidenceInv, ConfirmedStored
<1>2. \A k \in AckKeys : ackRow[k] # Absent => ackRow[k].body \in ListAckBindings(k[1])
  BY DEF ListAckBindings
<1> QED BY <1>1, <1>2 DEF InTable, EvidenceInv, ManifestsReadable, AcksReadable,
        ReportsReadable

-----------------------------------------------------------------------------
(* The reports of neighbours.                                              *)

LEMMA LeastNumber ==
    ASSUME NEW S \in SUBSET Nat, S # {}
    PROVE  \E x \in S : \A y \in S : x <= y
<1> DEFINE R == {ss \in Nat \X Nat : ss[1] < ss[2]}
<1>1. IsWellFoundedOn(R, Nat)
  BY NatLessThanWellFounded DEF OpToRel
<1>2. \A x, y \in Nat : <<y, x>> \notin R => x <= y
  OBVIOUS
<1> HIDE DEF R
<1>3. PICK x \in S : \A y \in S : ~ (<<y, x>> \in R)
  BY <1>1, WFMin
<1> WITNESS x \in S
<1> QED BY <1>2, <1>3

LEMMA OldestRow ==
    ASSUME reports \in [Keys -> Report \cup {NoRow}], NEW S \in SUBSET Rows, S # {}
    PROVE  \E m \in S : \A l \in S \ {m} : Older(m, l)
<1>0. \A k \in S : /\ k \in Keys /\ k[1] \in Nat /\ k[2] \in Nat /\ k = <<k[1], k[2]>>
                   /\ reports[k].observed \in Nat
  <2> SUFFICES ASSUME NEW k \in S
               PROVE  /\ k \in Keys /\ k[1] \in Nat /\ k[2] \in Nat /\ k = <<k[1], k[2]>>
                      /\ reports[k].observed \in Nat
    OBVIOUS
  <2>1. k \in Keys /\ reports[k] # NoRow
    BY DEF Rows
  <2>2. reports[k] \in Report
    BY <2>1
  <2>3. reports[k].observed \in 1 .. MaxObserved
    BY <2>2 DEF Report
  <2>4. k[1] \in Nat /\ k[2] \in Nat /\ k = <<k[1], k[2]>>
    <3>1. k \in Reporters \X Targets
      BY <2>1 DEF Keys
    <3>2. k[1] \in Reporters /\ k[2] \in Targets /\ k = <<k[1], k[2]>>
      BY <3>1
    <3> QED BY <3>2, NeighborAssumption
  <2> QED BY <2>1, <2>3, <2>4, NeighborAssumption
<1> DEFINE N1 == {reports[k].observed : k \in S}
<1>1. PICK x \in N1 : \A y \in N1 : x <= y
  <2>1. N1 \in SUBSET Nat /\ N1 # {}
    BY <1>0
  <2> HIDE DEF N1
  <2> QED BY <2>1, LeastNumber
<1> DEFINE S1 == {k \in S : reports[k].observed = x}
           N2 == {k[1] : k \in S1}
<1>2. PICK r \in N2 : \A y \in N2 : r <= y
  <2>1. N2 \in SUBSET Nat
    BY <1>0
  <2>2. S1 # {}
    BY <1>1
  <2>3. N2 # {}
    BY <2>2
  <2> HIDE DEF N2
  <2> QED BY <2>1, <2>3, LeastNumber
<1> DEFINE S2 == {k \in S1 : k[1] = r}
           N3 == {k[2] : k \in S2}
<1>3. PICK t \in N3 : \A y \in N3 : t <= y
  <2>1. N3 \in SUBSET Nat
    BY <1>0
  <2>2. S2 # {}
    BY <1>2
  <2>3. N3 # {}
    BY <2>2
  <2> HIDE DEF N3
  <2> QED BY <2>1, <2>3, LeastNumber
<1>4. PICK m \in S2 : m[2] = t
  BY <1>3
<1>5. m \in S /\ reports[m].observed = x /\ m[1] = r /\ m[2] = t
  BY <1>4
<1>6. ASSUME NEW l \in S \ {m}
      PROVE  Older(m, l)
  <2>1. x <= reports[l].observed /\ reports[l].observed \in Nat /\ x \in Nat
    BY <1>0, <1>1
  <2>2. CASE reports[l].observed # x
    BY <1>5, <2>1, <2>2 DEF Older
  <2>3. CASE reports[l].observed = x
    <3>1. r <= l[1] /\ l[1] \in Nat /\ r \in Nat
      BY <1>0, <1>2, <2>3
    <3>2. CASE l[1] # r
      BY <1>5, <2>3, <3>1, <3>2 DEF Older
    <3>3. CASE l[1] = r
      <4>1. t <= l[2] /\ l[2] \in Nat /\ t \in Nat
        BY <1>0, <1>3, <2>3, <3>3
      <4>2. l[2] # t
        BY <1>0, <1>5, <3>3
      <4> QED BY <1>5, <2>3, <3>3, <4>1, <4>2 DEF Older
    <3> QED BY <3>2, <3>3
  <2> QED BY <2>2, <2>3
<1> QED BY <1>5, <1>6

\* Within its share a device loses nothing for one more row; at its limit it loses
\* its oldest row.
LEMMA DoomedIsOldest ==
    ASSUME reports \in [Keys -> Report \cup {NoRow}], NEW d,
           IsFiniteSet(RowsOfDevice(d)), Cardinality(RowsOfDevice(d)) <= MaxRowsPerDevice
    PROVE  /\ Cardinality(RowsOfDevice(d)) < MaxRowsPerDevice => Doomed(d) = {}
           /\ Cardinality(RowsOfDevice(d)) = MaxRowsPerDevice =>
                 \E m \in RowsOfDevice(d) :
                     /\ Doomed(d) = {m}
                     /\ \A l \in RowsOfDevice(d) \ {m} : Older(m, l)
<1> DEFINE S == RowsOfDevice(d)
           over == Cardinality(S) - MaxRowsPerDevice + 1
           Goes(s) == \A k \in s, l \in S \ s : Older(k, l)
<1>1. S \in SUBSET Rows /\ IsFiniteSet(S) /\ Cardinality(S) \in Nat
      /\ MaxRowsPerDevice \in Nat \ {0}
  BY FS_CardinalityType, NeighborAssumption DEF RowsOfDevice
<1>2. Doomed(d) = IF over <= 0 THEN {} ELSE CHOOSE s \in kSubset(over, S) : Goes(s)
  BY DEF Doomed
<1>3. CASE Cardinality(S) < MaxRowsPerDevice
  BY <1>1, <1>2, <1>3
<1>4. CASE Cardinality(S) = MaxRowsPerDevice
  <2>1. over = 1
    BY <1>1, <1>4
  <2>2. S # {}
    BY <1>1, <1>4, FS_EmptySet
  <2>3. PICK m \in S : \A l \in S \ {m} : Older(m, l)
    BY <1>1, <2>2, OldestRow
  <2>4. {m} \in kSubset(1, S)
    BY FS_Singleton DEF kSubset
  <2>5. Goes({m})
    BY <2>3
  <2> HIDE DEF Goes, over, S
  <2>6. Doomed(d) \in kSubset(1, S) /\ Goes(Doomed(d))
    BY <1>2, <2>1, <2>4, <2>5
  <2>7. Doomed(d) \in SUBSET S /\ Cardinality(Doomed(d)) = 1
    BY <2>6 DEF kSubset
  <2>8. IsFiniteSet(Doomed(d))
    BY <1>1, <2>7, FS_Subset
  <2>9. PICK x : Doomed(d) = {x}
    BY <2>7, <2>8, FS_Singleton
  <2>10. x \in S /\ \A l \in S \ {x} : Older(x, l)
    BY <2>6, <2>7, <2>9 DEF Goes
  <2> QED BY <1>1, <1>4, <2>9, <2>10 DEF S
<1> QED BY <1>1, <1>3, <1>4

NeighborTypeOK ==
    /\ reports \in [Keys -> Report \cup {NoRow}]
    /\ ours \in Coordinators
    /\ highest \in [ReporterDevices -> [Keys -> 0 .. MaxObserved]]

\* A row is the newest that its device told of its key.
RowsAreNewest ==
    \A k \in Keys :
        reports[k] # NoRow => reports[k].observed = highest[reports[k].device][k]

SharesKept ==
    \A d \in ReporterDevices :
        /\ IsFiniteSet(RowsOfDevice(d))
        /\ Cardinality(RowsOfDevice(d)) <= MaxRowsPerDevice

\* A device that lost a row has all the rows it may have, and none is older than
\* what it lost: that is why the lost report cannot come in again.
LostIsOldest ==
    \A d \in ReporterDevices, k \in Keys :
        highest[d][k] > 0 /\ k \notin RowsOfDevice(d) =>
            /\ Cardinality(RowsOfDevice(d)) = MaxRowsPerDevice
            /\ \A l \in RowsOfDevice(d) : reports[l].observed >= highest[d][k]

NeighborInv == NeighborTypeOK /\ RowsAreNewest /\ SharesKept /\ LostIsOldest

LEMMA NeighborBegins == NeighborInit => NeighborInv
<1> SUFFICES ASSUME NeighborInit
             PROVE  NeighborInv
  OBVIOUS
<1>1. NeighborTypeOK
  BY NeighborAssumption DEF NeighborInit, NeighborTypeOK
<1>2. Rows = {}
  BY DEF NeighborInit, Rows
<1>3. \A d : RowsOfDevice(d) = {}
  BY <1>2 DEF RowsOfDevice
<1>4. SharesKept
  BY <1>3, FS_EmptySet, NeighborAssumption DEF SharesKept
<1>5. RowsAreNewest /\ LostIsOldest
  BY DEF NeighborInit, RowsAreNewest, LostIsOldest
<1> QED BY <1>1, <1>4, <1>5 DEF NeighborInv

\* What a row says has its place in the history.
LEMMA RowFacts ==
    ASSUME NeighborTypeOK, NEW k \in Keys, reports[k] # NoRow
    PROVE  /\ reports[k] \in Report
           /\ reports[k].device \in ReporterDevices
           /\ reports[k].observed \in Nat
           /\ k \in RowsOfDevice(reports[k].device)
  BY NeighborAssumption DEF NeighborTypeOK, Report, RowsOfDevice, Rows

LEMMA OneEntrySet ==
    ASSUME NEW D, NEW K, NEW V, NEW f \in [D -> [K -> V]], NEW d \in D, NEW k \in K,
           NEW v \in V, NEW g, g = [f EXCEPT ![d][k] = v]
    PROVE  /\ g \in [D -> [K -> V]]
           /\ g[d][k] = v
           /\ \A c \in D, l \in K : c # d \/ l # k => g[c][l] = f[c][l]
  OBVIOUS

LEMMA RowReplaced ==
    ASSUME NeighborInv, NEW k \in Keys, NEW report \in Report, NEW signer,
           RecordVerifiedReport(k, report, signer), reports[k] # NoRow
    PROVE  NeighborInv'
<1> DEFINE d == report.device
<1>0. /\ d \in ReporterDevices /\ report.observed \in 1 .. MaxObserved /\ MaxObserved \in Nat
      /\ report # NoRow /\ NeighborTypeOK
  BY NeighborAssumption DEF Report, NeighborInv
<1>1. /\ reports[k].device = d
      /\ report.observed > reports[k].observed
      /\ reports' = [reports EXCEPT ![k] = report]
      /\ highest' = [highest EXCEPT ![d][k] = Max({highest[d][k], report.observed})]
      /\ ours' = ours
  BY DEF RecordVerifiedReport, RowsOfMachine, Rows
<1>2. /\ highest[d][k] = reports[k].observed /\ highest[d][k] \in Nat
  BY <1>0, <1>1, RowFacts DEF NeighborInv, RowsAreNewest
<1>3. Max({highest[d][k], report.observed}) = report.observed
  BY <1>0, <1>1, <1>2, MaxOfTwo
<1>4. /\ highest' \in [ReporterDevices -> [Keys -> 0 .. MaxObserved]]
      /\ highest'[d][k] = report.observed
      /\ \A c \in ReporterDevices, l \in Keys :
            c # d \/ l # k => highest'[c][l] = highest[c][l]
  <2>1. report.observed \in 0 .. MaxObserved
        /\ highest' = [highest EXCEPT ![d][k] = report.observed]
    <3>1. report.observed \in 0 .. MaxObserved
      BY <1>0
    <3> QED BY <1>1, <1>3, <3>1, Zenon
  <2>2. highest \in [ReporterDevices -> [Keys -> 0 .. MaxObserved]] /\ d \in ReporterDevices
    BY <1>0 DEF NeighborTypeOK
  <2> HIDE DEF d
  <2> QED BY <2>1, <2>2, OneEntrySet
<1>5. /\ reports' \in [Keys -> Report \cup {NoRow}]
      /\ reports'[k] = report
      /\ \A l \in Keys \ {k} : reports'[l] = reports[l]
  BY <1>0, <1>1 DEF NeighborTypeOK
<1>6. NeighborTypeOK'
  BY <1>0, <1>1, <1>4, <1>5 DEF NeighborTypeOK
<1>7. RowsAreNewest'
  BY <1>0, <1>4, <1>5, RowFacts DEF RowsAreNewest, NeighborInv
<1>8. \A c : RowsOfDevice(c)' = RowsOfDevice(c)
  <2>1. \A l \in Keys : /\ reports'[l] # NoRow <=> reports[l] # NoRow
                        /\ reports'[l].device = reports[l].device
    BY <1>0, <1>1, <1>5
  <2>2. Rows' = Rows /\ Rows \subseteq Keys
    BY <2>1 DEF Rows
  <2> QED BY <2>1, <2>2 DEF RowsOfDevice
<1>9. SharesKept'
  BY <1>8 DEF SharesKept, NeighborInv
<1>10. LostIsOldest'
  <2> SUFFICES ASSUME NEW c \in ReporterDevices, NEW l \in Keys,
                      highest'[c][l] > 0, l \notin RowsOfDevice(c)
               PROVE  /\ Cardinality(RowsOfDevice(c)) = MaxRowsPerDevice
                      /\ \A m \in RowsOfDevice(c) : reports'[m].observed >= highest'[c][l]
    BY <1>8 DEF LostIsOldest
  <2>1. c # d \/ l # k
    BY <1>1, RowFacts, <1>0
  <2>2. highest'[c][l] = highest[c][l] /\ highest[c][l] \in Nat
    BY <1>0, <1>4, <2>1 DEF NeighborTypeOK
  <2>3. /\ Cardinality(RowsOfDevice(c)) = MaxRowsPerDevice
        /\ \A m \in RowsOfDevice(c) : reports[m].observed >= highest[c][l]
    BY <2>2 DEF LostIsOldest, NeighborInv
  <2>4. ASSUME NEW m \in RowsOfDevice(c)
        PROVE  reports'[m].observed >= highest'[c][l]
    <3>1. m \in Keys /\ reports[m] # NoRow
      BY DEF RowsOfDevice, Rows
    <3>2. reports[m].observed \in Nat /\ reports[m].observed >= highest[c][l]
      BY <1>0, <2>3, <3>1, RowFacts
    <3>3. CASE m = k
      BY <1>0, <1>1, <1>5, <2>2, <3>2, <3>3
    <3>4. CASE m # k
      BY <1>5, <2>2, <3>1, <3>2, <3>4
    <3> QED BY <3>3, <3>4
  <2> QED BY <2>3, <2>4
<1> QED BY <1>6, <1>7, <1>9, <1>10 DEF NeighborInv

LEMMA RowAdded ==
    ASSUME NeighborInv, NEW k \in Keys, NEW report \in Report, NEW signer,
           RecordVerifiedReport(k, report, signer), reports[k] = NoRow
    PROVE  NeighborInv'
<1> DEFINE d == report.device
           S == RowsOfDevice(d)
           D == Doomed(d)
<1>0. /\ d \in ReporterDevices /\ report.observed \in 1 .. MaxObserved /\ MaxObserved \in Nat
      /\ MaxRowsPerDevice \in Nat /\ report # NoRow /\ NeighborTypeOK
  BY NeighborAssumption DEF Report, NeighborInv
<1>1. /\ RoomFor(report)
      /\ reports' = [l \in Keys |-> IF l = k THEN report
                                    ELSE IF l \in D THEN NoRow ELSE reports[l]]
      /\ highest' = [highest EXCEPT ![d][k] = Max({highest[d][k], report.observed})]
      /\ ours' = ours
  BY <1>0 DEF RecordVerifiedReport
<1>2. /\ IsFiniteSet(S) /\ Cardinality(S) <= MaxRowsPerDevice /\ Cardinality(S) \in Nat
      /\ k \notin S
      /\ \A l \in S : l \in Keys /\ reports[l] # NoRow /\ reports[l].device = d
                      /\ reports[l].observed \in Nat
  <2>1. IsFiniteSet(S) /\ Cardinality(S) <= MaxRowsPerDevice
    BY <1>0 DEF NeighborInv, SharesKept
  <2>2. \A l \in S : l \in Keys /\ reports[l] # NoRow /\ reports[l].device = d
    BY DEF RowsOfDevice, Rows
  <2> HIDE DEF S
  <2>3. Cardinality(S) \in Nat
    BY <2>1, FS_CardinalityType
  <2> QED BY <1>0, <2>1, <2>2, <2>3, RowFacts
<1>3. \/ Cardinality(S) < MaxRowsPerDevice /\ D = {}
      \/ /\ Cardinality(S) = MaxRowsPerDevice
         /\ \E m \in S : D = {m} /\ \A l \in S \ {m} : Older(m, l)
  <2>1. reports \in [Keys -> Report \cup {NoRow}]
    BY <1>0 DEF NeighborTypeOK
  <2> QED BY <1>0, <1>2, <2>1, DoomedIsOldest
<1>4. D \subseteq S /\ \A l \in D : report.observed > reports[l].observed
  BY <1>1, <1>3 DEF RoomFor
<1>5. highest[d][k] \in Nat /\ highest[d][k] < report.observed
  <2>1. highest[d][k] \in Nat
    BY <1>0 DEF NeighborTypeOK
  <2>2. CASE highest[d][k] > 0
    <3>1. /\ Cardinality(S) = MaxRowsPerDevice
          /\ \A l \in S : reports[l].observed >= highest[d][k]
      BY <1>0, <1>2, <2>2 DEF NeighborInv, LostIsOldest
    <3>2. PICK m \in S : D = {m}
      BY <1>0, <1>2, <1>3, <3>1
    <3> QED BY <1>0, <1>2, <1>4, <2>1, <3>1, <3>2
  <2> QED BY <1>0, <2>1, <2>2
<1>6. Max({highest[d][k], report.observed}) = report.observed
  BY <1>0, <1>5, MaxOfTwo
<1>7. /\ highest' \in [ReporterDevices -> [Keys -> 0 .. MaxObserved]]
      /\ highest'[d][k] = report.observed
      /\ \A c \in ReporterDevices, l \in Keys :
            c # d \/ l # k => highest'[c][l] = highest[c][l]
  <2>1. report.observed \in 0 .. MaxObserved
        /\ highest' = [highest EXCEPT ![d][k] = report.observed]
    <3>1. report.observed \in 0 .. MaxObserved
      BY <1>0
    <3> QED BY <1>1, <1>6, <3>1, Zenon
  <2>2. highest \in [ReporterDevices -> [Keys -> 0 .. MaxObserved]] /\ d \in ReporterDevices
    BY <1>0 DEF NeighborTypeOK
  <2> HIDE DEF d
  <2> QED BY <2>1, <2>2, OneEntrySet
<1> HIDE DEF D
<1>8. /\ reports' \in [Keys -> Report \cup {NoRow}]
      /\ reports'[k] = report
      /\ \A l \in D : reports'[l] = NoRow
      /\ \A l \in Keys \ (D \cup {k}) : reports'[l] = reports[l]
  BY <1>0, <1>1, <1>2, <1>4 DEF NeighborTypeOK
<1>9. NeighborTypeOK'
  BY <1>0, <1>1, <1>7, <1>8 DEF NeighborTypeOK
<1>10. RowsAreNewest'
  <2> SUFFICES ASSUME NEW l \in Keys, reports'[l] # NoRow
               PROVE  reports'[l].observed = highest'[reports'[l].device][l]
    BY DEF RowsAreNewest
  <2>1. CASE l = k
    BY <1>7, <1>8, <2>1
  <2>2. CASE l # k
    <3>1. reports'[l] = reports[l]
      BY <1>8, <2>2
    <3>2. reports[l].device \in ReporterDevices
          /\ reports[l].observed = highest[reports[l].device][l]
      BY <1>0, <3>1, RowFacts DEF NeighborInv, RowsAreNewest
    <3> QED BY <1>7, <2>2, <3>1, <3>2
  <2> QED BY <2>1, <2>2
<1>11. RowsOfDevice(d)' = (S \ D) \cup {k}
  BY <1>0, <1>2, <1>4, <1>8 DEF RowsOfDevice, Rows
<1>12. \A c : c # d => RowsOfDevice(c)' = RowsOfDevice(c)
  <2> SUFFICES ASSUME NEW c, c # d
               PROVE  \A l \in Keys :
                         reports'[l] # NoRow /\ reports'[l].device = c
                            <=> reports[l] # NoRow /\ reports[l].device = c
    BY DEF RowsOfDevice, Rows
  <2> QED BY <1>2, <1>4, <1>8
<1>13. /\ IsFiniteSet((S \ D) \cup {k})
       /\ Cardinality((S \ D) \cup {k}) <= MaxRowsPerDevice
       /\ D # {} => Cardinality((S \ D) \cup {k}) = MaxRowsPerDevice
  <2>1. CASE Cardinality(S) < MaxRowsPerDevice /\ D = {}
    <3>1. IsFiniteSet(S \cup {k}) /\ Cardinality(S \cup {k}) = Cardinality(S) + 1
      BY <1>2, FS_AddElement
    <3>2. (S \ D) \cup {k} = S \cup {k}
      BY <2>1
    <3> HIDE DEF S
    <3> QED BY <1>0, <1>2, <2>1, <3>1, <3>2
  <2>2. ASSUME Cardinality(S) = MaxRowsPerDevice, NEW m \in S, D = {m}
        PROVE  /\ IsFiniteSet((S \ D) \cup {k})
               /\ Cardinality((S \ D) \cup {k}) = MaxRowsPerDevice
    <3>1. IsFiniteSet(S \ {m}) /\ Cardinality(S \ {m}) = Cardinality(S) - 1
      BY <1>2, FS_RemoveElement
    <3>2. k \notin S \ {m}
      BY <1>2
    <3> DEFINE S1 == S \ {m}
    <3> HIDE DEF S1, S
    <3>3. IsFiniteSet(S1 \cup {k}) /\ Cardinality(S1 \cup {k}) = Cardinality(S1) + 1
      BY <3>1, <3>2, FS_AddElement DEF S1
    <3> QED BY <1>0, <1>2, <2>2, <3>1, <3>3 DEF S1
  <2> QED BY <1>0, <1>3, <2>1, <2>2
<1>14. SharesKept'
  BY <1>11, <1>12, <1>13 DEF SharesKept, NeighborInv
<1>15. LostIsOldest'
  <2> SUFFICES ASSUME NEW c \in ReporterDevices, NEW l \in Keys,
                      highest'[c][l] > 0, l \notin RowsOfDevice(c)'
               PROVE  /\ Cardinality(RowsOfDevice(c)') = MaxRowsPerDevice
                      /\ \A j \in RowsOfDevice(c)' : reports'[j].observed >= highest'[c][l]
    BY DEF LostIsOldest
  <2>1. CASE c # d
    <3>1. RowsOfDevice(c)' = RowsOfDevice(c) /\ highest'[c][l] = highest[c][l]
      BY <1>7, <1>12, <2>1
    <3>2. \A j \in RowsOfDevice(c) : reports'[j] = reports[j]
      BY <1>2, <1>4, <1>8, <2>1 DEF RowsOfDevice, Rows
    <3> QED BY <3>1, <3>2 DEF NeighborInv, LostIsOldest
  <2>2. CASE c = d
    <3>1. l # k /\ (l \notin S \/ l \in D)
      BY <1>11, <2>2
    <3>2. highest'[d][l] = highest[d][l] /\ highest[d][l] \in Nat /\ highest[d][l] > 0
      BY <1>0, <1>7, <2>2, <3>1 DEF NeighborTypeOK
    <3>3. l \notin S => /\ Cardinality(S) = MaxRowsPerDevice
                        /\ \A j \in S : reports[j].observed >= highest[d][l]
      BY <1>0, <3>2 DEF NeighborInv, LostIsOldest
    <3>4. PICK m \in S : D = {m} /\ \A j \in S \ {m} : Older(m, j)
      BY <1>0, <1>2, <1>3, <3>1, <3>3
    <3>5. reports[m].observed >= highest[d][l]
      <4>1. CASE l \notin S
        BY <3>3, <4>1
      <4>2. CASE l = m
        BY <1>0, <1>2, <4>2, <3>4 DEF NeighborInv, RowsAreNewest
      <4> QED BY <3>1, <3>4, <4>1, <4>2
    <3>6. \A j \in S : reports[j].observed >= reports[m].observed
      BY <1>2, <3>4 DEF Older
    <3>7. ASSUME NEW j \in (S \ D) \cup {k}
          PROVE  reports'[j].observed >= highest[d][l]
      <4>1. CASE j = k
        BY <1>0, <1>2, <1>4, <1>8, <3>2, <3>4, <3>5, <4>1
      <4>2. CASE j # k
        BY <1>2, <1>8, <3>2, <3>5, <3>6, <4>2
      <4> QED BY <4>1, <4>2
    <3> QED BY <1>11, <1>13, <2>2, <3>2, <3>4, <3>7
  <2> QED BY <2>1, <2>2
<1> QED BY <1>9, <1>10, <1>14, <1>15 DEF NeighborInv

LEMMA NeighborStep ==
    ASSUME NeighborInv, [NeighborNext]_nbVars
    PROVE  NeighborInv'
<1>1. CASE \E k \in Keys, report \in Report, signer \in ReporterDevices :
              RecordVerifiedReport(k, report, signer)
  BY <1>1, RowReplaced, RowAdded
<1>2. ASSUME UNCHANGED <<reports, highest>>, ours' \in Coordinators
      PROVE  NeighborInv'
  BY <1>2 DEF NeighborInv, NeighborTypeOK, RowsAreNewest, SharesKept, LostIsOldest,
     RowsOfDevice, Rows
<1> QED BY <1>1, <1>2 DEF NeighborNext, Open, nbVars, NeighborInv, NeighborTypeOK

LEMMA ReportsKept == NeighborInv => ReportsNeverGoBack
<1> SUFFICES ASSUME NeighborInv
             PROVE  ReportsNeverGoBack
  OBVIOUS
<1>1. ASSUME NEW t \in Targets, NEW e \in ReportsAbout(t)
      PROVE  e.report.observed = highest[e.report.device][<<e.reporter, t>>]
  <2>1. PICK k \in {l \in Rows : l[2] = t} : e = [reporter |-> k[1], report |-> reports[k]]
    BY DEF ReportsAbout
  <2>2. k \in Keys /\ reports[k] # NoRow /\ k[2] = t /\ k = <<k[1], k[2]>>
    BY <2>1 DEF Rows, Keys
  <2>3. e.reporter = k[1] /\ e.report = reports[k]
    BY <2>1
  <2> QED BY <2>2, <2>3 DEF NeighborInv, RowsAreNewest
<1> QED BY <1>1 DEF ReportsNeverGoBack, NeighborInv, SharesKept

-----------------------------------------------------------------------------
(* The placement.                                                          *)

\* A choice is one of the eligible nodes.
LEMMA ChosenIsEligible ==
    ASSUME NEW pool, NEW job, NEW policy, NEW choice \in Placements(pool, job, policy),
           choice \notin {None, Refused}
    PROVE  \E m \in DOMAIN pool : choice.node = m /\ Eligible(pool[m], job, policy)
<1> DEFINE eligible == EvaluateEligibility(pool, job, policy)
           fit == [n \in eligible |-> ResourceFit(pool[n], job)]
           best == {m \in eligible :
                       \A n \in eligible \ {m} : RanksBefore(m, n, fit, policy.axes)}
           unranked == \E n \in eligible : ~Rankable(pool[n], job)
           first == {[node |-> m, gpus |-> fit[m].gpus] : m \in best}
<1>1. Placements(pool, job, policy) =
          CASE eligible = {} -> {None} [] unranked -> {Refused} [] OTHER -> first
  BY DEF Placements
<1>2. eligible = {} => ~unranked
  OBVIOUS
<1>3. choice \in first
  <2> HIDE DEF eligible, unranked, first
  <2>1. CASE eligible = {}
    <3>1. Placements(pool, job, policy) = {None}
      BY <1>1, <1>2, <2>1, Zenon
    <3> QED BY <3>1
  <2>2. CASE unranked
    <3>1. Placements(pool, job, policy) = {Refused}
      BY <1>1, <1>2, <2>2, Zenon
    <3> QED BY <3>1
  <2>3. CASE eligible # {} /\ ~unranked
    <3>1. Placements(pool, job, policy) = first
      BY <1>1, <2>3, Zenon
    <3> QED BY <3>1
  <2> QED BY <2>1, <2>2, <2>3
<1> HIDE DEF fit
<1>4. PICK m \in best : choice = [node |-> m, gpus |-> fit[m].gpus]
  BY <1>3
<1>5. m \in eligible /\ choice.node = m
  BY <1>4
<1> QED BY <1>5 DEF EvaluateEligibility

PlacementTypeOK ==
    /\ DOMAIN offer = PoolNodes
    /\ \A n \in PoolNodes : /\ DOMAIN offer[n] = {"revision", "gpus", "age"}
                            /\ offer[n].revision \in Nat
    /\ DOMAIN holder = PoolNodes
    /\ withOwner \in [PoolNodes -> BOOLEAN]
    /\ reclaimed \in [PoolNodes -> BOOLEAN]
    /\ DOMAIN tick = {"phase", "queue", "expired", "choice", "elapsed"}

\* A machine that is with its owner is one that the pool took out.
OwnersReclaimed == \A n \in PoolNodes : withOwner[n] => reclaimed[n]

\* Between the choice and the staging the node stays free, for there is one loop,
\* so that its owner cannot take it back from a job, and the declaration either is
\* the one that fitted or has a later revision.
ChoiceStands ==
    tick.phase = "stage" =>
        /\ tick.choice.node \in PoolNodes
        /\ holder[tick.choice.node] = None
        /\ SilentAfter # None => ~withOwner[tick.choice.node]
        /\ tick.choice.revision \in Nat
        /\ tick.choice.revision <= offer[tick.choice.node].revision
        /\ tick.choice.revision = offer[tick.choice.node].revision =>
              EvaluateGpus(offer[tick.choice.node].gpus, Need(Head(tick.queue)))

PlacementInv == PlacementTypeOK /\ OwnersReclaimed /\ ChoiceStands

LEMMA IdleIs ==
    /\ DOMAIN Idle = {"phase", "queue", "expired", "choice", "elapsed"}
    /\ Idle.phase = "idle"
  BY DEF Idle

LEMMA PlacementBegins == PlacementInit => PlacementInv
<1> SUFFICES ASSUME PlacementInit
             PROVE  PlacementInv
  OBVIOUS
<1>1. DOMAIN tick = {"phase", "queue", "expired", "choice", "elapsed"} /\ tick.phase = "idle"
  BY IdleIs DEF PlacementInit
<1>2. PICK g : offer = [n \in PoolNodes |-> [revision |-> 1, gpus |-> g, age |-> 0]]
  BY DEF PlacementInit
<1>3. PlacementTypeOK
  BY <1>1, <1>2 DEF PlacementInit, PlacementTypeOK
<1> QED BY <1>1, <1>3 DEF PlacementInv, PlacementInit, OwnersReclaimed, ChoiceStands

\* A step that changes neither the pool's facts about the chosen node nor the tick
\* beyond its clock leaves the choice as it is.
LEMMA ChoiceUntouched ==
    ASSUME PlacementInv, PlacementTypeOK', OwnersReclaimed',
           tick'.phase = tick.phase, tick'.choice = tick.choice, tick'.queue = tick.queue,
           \A n \in PoolNodes :
              holder[n] = None =>
                  /\ holder'[n] = None
                  /\ withOwner'[n] => withOwner[n]
                  /\ \/ offer'[n].revision = offer[n].revision /\ offer'[n].gpus = offer[n].gpus
                     \/ offer'[n].revision = offer[n].revision + 1
    PROVE  PlacementInv'
<1>1. ASSUME tick.phase = "stage"
      PROVE  /\ holder'[tick.choice.node] = None
             /\ SilentAfter # None => ~withOwner'[tick.choice.node]
             /\ tick.choice.revision \in Nat
             /\ tick.choice.revision <= offer'[tick.choice.node].revision
             /\ tick.choice.revision = offer'[tick.choice.node].revision =>
                   EvaluateGpus(offer'[tick.choice.node].gpus, Need(Head(tick.queue)))
  <2> DEFINE n == tick.choice.node
  <2>1. /\ n \in PoolNodes /\ holder[n] = None
        /\ SilentAfter # None => ~withOwner[n]
        /\ tick.choice.revision \in Nat /\ tick.choice.revision <= offer[n].revision
        /\ tick.choice.revision = offer[n].revision =>
              EvaluateGpus(offer[n].gpus, Need(Head(tick.queue)))
        /\ offer[n].revision \in Nat
    BY <1>1 DEF PlacementInv, PlacementTypeOK, ChoiceStands
  <2> HIDE DEF n
  <2>2. CASE offer'[n].revision = offer[n].revision /\ offer'[n].gpus = offer[n].gpus
    BY <2>1, <2>2 DEF n
  <2>3. CASE offer'[n].revision = offer[n].revision + 1
    BY <2>1, <2>3 DEF n
  <2> QED BY <2>1, <2>2, <2>3
<1>2. ChoiceStands'
  BY <1>1 DEF ChoiceStands, PlacementInv, Need
<1> QED BY <1>2 DEF PlacementInv

LEMMA TickKeeps ==
    ASSUME PlacementInv, TickStep
    PROVE  PlacementInv'
<1>0. PlacementTypeOK /\ OwnersReclaimed
  BY DEF PlacementInv
<1>1. ASSUME UNCHANGED <<offer, reclaimed, withOwner>>, DOMAIN holder' = PoolNodes,
             DOMAIN tick' = {"phase", "queue", "expired", "choice", "elapsed"},
             tick'.phase # "stage"
      PROVE  PlacementInv'
  BY <1>0, <1>1 DEF PlacementInv, PlacementTypeOK, OwnersReclaimed, ChoiceStands
<1>2. CASE TickBegins
  <2>1. PICK q, x : tick' = [Idle EXCEPT !.phase = "scan", !.queue = q, !.expired = x]
    BY <1>2 DEF TickBegins
  <2>2. DOMAIN tick' = {"phase", "queue", "expired", "choice", "elapsed"}
        /\ tick'.phase = "scan"
    BY <2>1, IdleIs
  <2> QED BY <1>0, <1>1, <1>2, <2>2 DEF TickBegins, PlacementTypeOK
<1>3. CASE TickScans
  <2>1. /\ tick.phase = "scan"
        /\ \/ tick' = Idle
           \/ tick' = [tick EXCEPT !.queue = Tail(@)]
           \/ tick' = [tick EXCEPT !.phase = "place"]
        /\ UNCHANGED <<offer, reclaimed, withOwner, holder>>
    BY <1>3 DEF TickScans, Examine, NextInQueue
  <2>2. DOMAIN tick' = {"phase", "queue", "expired", "choice", "elapsed"}
        /\ tick'.phase # "stage"
    BY <1>0, <2>1, IdleIs DEF PlacementTypeOK
  <2> QED BY <1>0, <1>1, <2>1, <2>2 DEF PlacementTypeOK
<1>4. CASE TickChooses
  <2>0. UNCHANGED <<offer, reclaimed, withOwner, holder>>
    BY <1>4 DEF TickChooses
  <2>1. PICK choice \in Placements(PoolSnapshot(tick.elapsed), Need(Head(tick.queue)),
                                   Policy(SilentAfter)) :
          tick' = IF choice \in {None, Refused}
                  THEN Idle
                  ELSE [tick EXCEPT !.phase = "stage",
                           !.choice = [node |-> choice.node, gpus |-> choice.gpus,
                                       revision |-> offer[choice.node].revision]]
    BY <1>4 DEF TickChooses
  <2>2. CASE choice \in {None, Refused}
    BY <1>0, <1>1, <2>0, <2>1, <2>2, IdleIs DEF PlacementTypeOK
  <2>3. CASE choice \notin {None, Refused}
    <3>1. PICK m \in PoolNodes :
             /\ choice.node = m
             /\ Eligible(PoolSnapshot(tick.elapsed)[m], Need(Head(tick.queue)),
                         Policy(SilentAfter))
      BY <2>3, ChosenIsEligible DEF PoolSnapshot
    <3>2. PoolSnapshot(tick.elapsed)[m] = Candidate(m, tick.elapsed)
      BY DEF PoolSnapshot
    <3>3. /\ Candidate(m, tick.elapsed).reservation = holder[m]
          /\ Candidate(m, tick.elapsed).gpus = offer[m].gpus
          /\ reclaimed[m] => Candidate(m, tick.elapsed).silence = None
      BY DEF Candidate
    <3>4. Policy(SilentAfter).silentAfter = SilentAfter
      BY DEF Policy
    <3>5. /\ holder[m] = None
          /\ EvaluateGpus(offer[m].gpus, Need(Head(tick.queue)))
          /\ SilentAfter # None => ~reclaimed[m]
      BY <3>1, <3>2, <3>3, <3>4 DEF Eligible, LiveEnough, Known
    <3>6. SilentAfter # None => ~withOwner[m]
      BY <1>0, <3>5 DEF OwnersReclaimed
    <3>7. PICK c : c = [node |-> m, gpus |-> choice.gpus, revision |-> offer[m].revision]
      OBVIOUS
    <3>8. c.node = m /\ c.revision = offer[m].revision
      BY <3>7
    <3>9. tick' = [tick EXCEPT !.phase = "stage", !.choice = c]
      BY <2>1, <2>3, <3>1, <3>7
    <3>10. /\ DOMAIN tick' = {"phase", "queue", "expired", "choice", "elapsed"}
           /\ tick'.phase = "stage" /\ tick'.choice = c /\ tick'.queue = tick.queue
      BY <1>0, <3>9 DEF PlacementTypeOK
    <3>11. PlacementTypeOK' /\ OwnersReclaimed'
      BY <1>0, <2>0, <3>10 DEF PlacementTypeOK, OwnersReclaimed
    <3>12. offer[m].revision \in Nat
      BY <1>0 DEF PlacementTypeOK
    <3>13. ChoiceStands'
      BY <2>0, <3>5, <3>6, <3>8, <3>10, <3>12 DEF ChoiceStands, Need
    <3> QED BY <3>11, <3>13 DEF PlacementInv
  <2> QED BY <2>2, <2>3
<1>5. CASE TickStages
  <2>1. /\ tick' = Idle
        /\ UNCHANGED <<offer, reclaimed, withOwner>>
        /\ \/ holder' = holder
           \/ \E n, j : holder' = [holder EXCEPT ![n] = j]
    BY <1>5 DEF TickStages
  <2> QED BY <1>0, <1>1, <2>1, IdleIs DEF PlacementTypeOK
<1> QED BY <1>2, <1>3, <1>4, <1>5 DEF TickStep

LEMMA TimeKeeps ==
    ASSUME PlacementInv, TimePasses
    PROVE  PlacementInv'
<1>1. /\ offer' = [n \in PoolNodes |-> [offer[n] EXCEPT !.age = Older1(@)]]
      /\ UNCHANGED <<reclaimed, holder, withOwner>>
      /\ \/ tick' = tick
         \/ tick' = [tick EXCEPT !.elapsed = @ + 1]
  BY DEF TimePasses
<1>2. PlacementTypeOK /\ OwnersReclaimed
  BY DEF PlacementInv
<1>3. /\ DOMAIN offer' = PoolNodes
      /\ \A n \in PoolNodes :
            /\ DOMAIN offer'[n] = {"revision", "gpus", "age"}
            /\ offer'[n].revision = offer[n].revision /\ offer'[n].gpus = offer[n].gpus
  <2>1. DOMAIN offer' = PoolNodes
    BY <1>1
  <2>2. ASSUME NEW n \in PoolNodes
        PROVE  /\ DOMAIN offer'[n] = {"revision", "gpus", "age"}
               /\ offer'[n].revision = offer[n].revision /\ offer'[n].gpus = offer[n].gpus
    <3>1. PICK a : offer'[n] = [offer[n] EXCEPT !.age = a]
      BY <1>1
    <3> QED BY <1>2, <3>1 DEF PlacementTypeOK
  <2> QED BY <2>1, <2>2
<1>4. /\ DOMAIN tick' = {"phase", "queue", "expired", "choice", "elapsed"}
      /\ tick'.phase = tick.phase /\ tick'.choice = tick.choice /\ tick'.queue = tick.queue
  BY <1>1, <1>2 DEF PlacementTypeOK
<1>5. PlacementTypeOK' /\ OwnersReclaimed'
  BY <1>1, <1>2, <1>3, <1>4 DEF PlacementTypeOK, OwnersReclaimed
<1> QED BY <1>1, <1>3, <1>4, <1>5, ChoiceUntouched

LEMMA HelloKeepsChoice ==
    ASSUME PlacementInv, NEW n \in PoolNodes, NEW mode, NEW observation,
           Hello(n, mode, observation)
    PROVE  PlacementInv'
<1>1. PlacementTypeOK /\ OwnersReclaimed
  BY DEF PlacementInv
<1>2. PICK a : offer' = [offer EXCEPT ![n].age = a]
  BY DEF Hello
<1>3. /\ DOMAIN offer' = PoolNodes
      /\ \A m \in PoolNodes :
            /\ DOMAIN offer'[m] = {"revision", "gpus", "age"}
            /\ offer'[m].revision = offer[m].revision /\ offer'[m].gpus = offer[m].gpus
  BY <1>1, <1>2 DEF PlacementTypeOK
<1>4. /\ withOwner' = [withOwner EXCEPT ![n] = @ /\ mode # "FRESH"]
      /\ mode = "FRESH" => reclaimed' = [reclaimed EXCEPT ![n] = FALSE]
      /\ mode # "FRESH" => reclaimed' = reclaimed
      /\ UNCHANGED <<holder, tick>>
  BY DEF Hello, SessionSeen
<1>5. /\ withOwner' \in [PoolNodes -> BOOLEAN] /\ reclaimed' \in [PoolNodes -> BOOLEAN]
      /\ \A m \in PoolNodes : withOwner'[m] => withOwner[m] /\ reclaimed'[m]
  <2>1. CASE mode = "FRESH"
    BY <1>1, <1>4, <2>1 DEF PlacementTypeOK, OwnersReclaimed
  <2>2. CASE mode # "FRESH"
    BY <1>1, <1>4, <2>2 DEF PlacementTypeOK, OwnersReclaimed
  <2> QED BY <2>1, <2>2
<1>6. PlacementTypeOK' /\ OwnersReclaimed'
  BY <1>1, <1>3, <1>4, <1>5 DEF PlacementTypeOK, OwnersReclaimed
<1> QED BY <1>3, <1>4, <1>5, <1>6, ChoiceUntouched

LEMMA RedeclareKeepsChoice ==
    ASSUME PlacementInv, NEW n \in PoolNodes, NEW gpus, Redeclare(n, gpus)
    PROVE  PlacementInv'
<1>1. PlacementTypeOK /\ OwnersReclaimed
  BY DEF PlacementInv
<1>2. PICK fresh : fresh = [revision |-> offer[n].revision + 1, gpus |-> gpus, age |-> 0]
  OBVIOUS
<1>3. /\ offer' = [offer EXCEPT ![n] = fresh]
      /\ UNCHANGED <<reclaimed, holder, tick, withOwner>>
  BY <1>2 DEF Redeclare
<1>4. DOMAIN fresh = {"revision", "gpus", "age"} /\ fresh.revision = offer[n].revision + 1
  BY <1>2
<1>5. PlacementTypeOK' /\ OwnersReclaimed'
  BY <1>1, <1>3, <1>4 DEF PlacementTypeOK, OwnersReclaimed
<1> QED BY <1>1, <1>3, <1>4, <1>5, ChoiceUntouched DEF PlacementTypeOK

LEMMA NodeFreedKeepsChoice ==
    ASSUME PlacementInv, NEW n \in PoolNodes,
           JobEnds(n) \/ OwnerPreempts(n) \/ JobLost(n) \/ OperatorReleases(n)
    PROVE  PlacementInv'
<1>1. PlacementTypeOK /\ OwnersReclaimed
  BY DEF PlacementInv
<1>2. PICK h : holder' = [holder EXCEPT ![n] = h] /\ (holder[n] = None => h = None)
  BY PlacementAssumption DEF JobEnds, OwnerPreempts, JobLost, OperatorReleases
<1>3. UNCHANGED <<offer, tick>>
  BY DEF JobEnds, OwnerPreempts, JobLost, OperatorReleases
<1>4. \/ UNCHANGED <<reclaimed, withOwner>>
      \/ /\ holder[n] # None
         /\ reclaimed' = [reclaimed EXCEPT ![n] = TRUE]
         /\ withOwner' = [withOwner EXCEPT ![n] = TRUE]
  BY PlacementAssumption DEF JobEnds, OwnerPreempts, JobLost, OperatorReleases
<1>5. PlacementTypeOK' /\ OwnersReclaimed'
  BY <1>1, <1>2, <1>3, <1>4 DEF PlacementTypeOK, OwnersReclaimed
<1>6. \A m \in PoolNodes :
          holder[m] = None => holder'[m] = None /\ (withOwner'[m] => withOwner[m])
  BY <1>1, <1>2, <1>4 DEF PlacementTypeOK
<1> QED BY <1>3, <1>5, <1>6, ChoiceUntouched

LEMMA PlacementStep ==
    ASSUME PlacementInv, [PlacementNext]_plVars
    PROVE  PlacementInv'
<1>1. ASSUME UNCHANGED <<offer, reclaimed, holder, tick, withOwner>>
      PROVE  PlacementInv'
  BY <1>1 DEF PlacementInv, PlacementTypeOK, OwnersReclaimed, ChoiceStands
<1>2. CASE TickStep \/ TimePasses
  BY <1>2, TickKeeps, TimeKeeps
<1>3. CASE \E j \in PoolJobs :
              \/ \E life \in 1 .. MaxLife, local \in BOOLEAN : PlanJob(j, life, local)
              \/ LoseKey(j)
  BY <1>1, <1>3 DEF PlanJob, LoseKey
<1>4. CASE \E n \in PoolNodes :
              \/ \E mode \in {"FRESH", "RENEW", "REPORT"},
                    observation \in {"none", "match", "mismatch"} : Hello(n, mode, observation)
              \/ \E gpus \in Offers : Redeclare(n, gpus)
              \/ JobEnds(n) \/ OwnerPreempts(n) \/ JobLost(n) \/ OperatorReleases(n)
  BY <1>4, HelloKeepsChoice, RedeclareKeepsChoice, NodeFreedKeepsChoice
<1>5. CASE UNCHANGED plVars
  BY <1>1, <1>5 DEF plVars
<1> QED BY <1>2, <1>3, <1>4, <1>5 DEF PlacementNext

LEMMA StagingIsFresh ==
    ASSUME PlacementInv, [PlacementNext]_plVars, NEW n \in PoolNodes, Staged(n)
    PROVE  /\ EvaluateGpus(offer[n].gpus, Need(holder'[n]))
           /\ SilentAfter # None => ~withOwner[n]
<1>0. /\ holder'[n] # holder[n] /\ holder'[n] \in PoolJobs /\ DOMAIN holder = PoolNodes
      /\ None \notin PoolJobs /\ Lost \notin PoolJobs
  BY PlacementAssumption DEF Staged, PlacementInv, PlacementTypeOK, Lost
<1>1. TickStages
  <2>1. ~ UNCHANGED holder
    BY <1>0
  <2>2. ASSUME NEW m \in PoolNodes, JobEnds(m) \/ OwnerPreempts(m) \/ JobLost(m)
                                      \/ OperatorReleases(m)
        PROVE  FALSE
    <3>1. holder' = [holder EXCEPT ![m] = None] \/ holder' = [holder EXCEPT ![m] = Lost]
      BY <2>2 DEF JobEnds, OwnerPreempts, JobLost, OperatorReleases
    <3> QED BY <1>0, <3>1
  <2> QED BY <2>1, <2>2 DEF PlacementNext, TickStep, TickBegins, TickScans, TickChooses,
          TimePasses, PlanJob, LoseKey, Hello, Redeclare, plVars
<1>2. /\ tick.phase = "stage"
      /\ StillAsPlanned(Head(tick.queue), tick.choice)
      /\ holder' = [holder EXCEPT ![tick.choice.node] = Head(tick.queue)]
  BY <1>0, <1>1 DEF TickStages
<1>3. n = tick.choice.node /\ holder'[n] = Head(tick.queue)
  BY <1>0, <1>2
<1> QED BY <1>2, <1>3 DEF PlacementInv, ChoiceStands, StillAsPlanned

-----------------------------------------------------------------------------
(* The kernels.                                                            *)

\* The needs that the ranking sees name the same GPUs as those of the question.
LEMMA NeedsAreTheSame ==
    ASSUME NEW gpus, NEW job
    PROVE  /\ WithNeeds(job).count = job.count /\ WithNeeds(job).vram = job.vram
           /\ Matching(gpus, WithNeeds(job)) = Matching(gpus, job)
           /\ FactsKnown(gpus, WithNeeds(job)) <=> FactsKnown(gpus, job)
<1>1. /\ WithNeeds(job).count = job.count /\ WithNeeds(job).vram = job.vram
      /\ WithNeeds(job).models = job.models
  BY DEF WithNeeds
<1>2. \A s : /\ OfModel(s, WithNeeds(job)) = OfModel(s, job)
             /\ WithVram(s, WithNeeds(job)) = WithVram(s, job)
  BY <1>1 DEF OfModel, WithVram
<1> QED BY <1>1, <1>2 DEF Matching, FactsKnown

\* What the three kernels ask of the facts of the GPUs.
FactsSuffice(gpus, job) ==
    /\ Known(job.count) /\ Known(job.vram) /\ Known(gpus)
    /\ FactsKnown(gpus, job)
    /\ Cardinality(Matching(gpus, job)) >= job.count

LEMMA RankableIs ==
    ASSUME NEW gpus, NEW job, None \notin Nat
    PROVE  Rankable(WithResources(gpus), WithNeeds(job)) <=>
               /\ FactsSuffice(gpus, job)
               /\ NoneBlank(gpus) /\ IdsDiffer(gpus)
               /\ SumFits(gpus, WithNeeds(job))
<1>1. /\ WithResources(gpus).gpus = gpus
      /\ WithResources(gpus).cpu = 1 /\ WithNeeds(job).cpu = 1
      /\ WithResources(gpus).ram = 1 /\ WithNeeds(job).ram = 1
      /\ WithResources(gpus).workspace = 1 /\ WithNeeds(job).workspace = 1
  BY DEF WithResources, WithNeeds
<1>2. AtLeast(1, 1)
  BY DEF AtLeast, Known
<1> QED BY <1>1, <1>2, NeedsAreTheSame DEF Rankable, FactsSuffice

\* Each check of the filter looks at what the check before it left.
LEMMA CountsShrink ==
    ASSUME NEW gpus, NEW job, IsFiniteSet(gpus)
    PROVE  LET healthy == Healthy(gpus)
               ofModel == OfModel(Healthy(gpus), job)
               matching == Matching(gpus, job)
           IN  /\ Cardinality(gpus) \in Nat /\ Cardinality(healthy) \in Nat
               /\ Cardinality(ofModel) \in Nat /\ Cardinality(matching) \in Nat
               /\ Cardinality(healthy) <= Cardinality(gpus)
               /\ Cardinality(ofModel) <= Cardinality(healthy)
               /\ Cardinality(matching) <= Cardinality(ofModel)
<1> DEFINE healthy == Healthy(gpus)
           ofModel == OfModel(healthy, job)
           matching == Matching(gpus, job)
<1>1. /\ healthy \in SUBSET gpus /\ ofModel \in SUBSET healthy
      /\ matching \in SUBSET ofModel
  BY DEF Healthy, OfModel, Matching, WithVram
<1> HIDE DEF healthy, ofModel, matching
<1>2. IsFiniteSet(healthy) /\ Cardinality(healthy) <= Cardinality(gpus)
  BY <1>1, FS_Subset
<1>3. IsFiniteSet(ofModel) /\ Cardinality(ofModel) <= Cardinality(healthy)
  BY <1>1, <1>2, FS_Subset
<1>4. IsFiniteSet(matching) /\ Cardinality(matching) <= Cardinality(ofModel)
  BY <1>1, <1>3, FS_Subset
<1> QED BY <1>2, <1>3, <1>4, FS_CardinalityType DEF healthy, ofModel, matching

LEMMA FilterIs ==
    ASSUME NEW q \in GpuQuestions
    PROVE  EvaluateGpus(q[1], q[2]) <=> FactsSuffice(q[1], q[2])
<1> DEFINE gpus == q[1]
           job == q[2]
<1>1. EvaluateGpus(gpus, job) => FactsSuffice(gpus, job)
  BY DEF EvaluateGpus, FactsSuffice, FactsKnown, OfModel
<1>2. ASSUME FactsSuffice(gpus, job)
      PROVE  EvaluateGpus(gpus, job)
  <2>1. IsFiniteSet(gpus) /\ job.count \in Nat
    BY <1>2, QuestionsAssumption DEF Known, FactsSuffice
  <2>2. /\ Cardinality(gpus) >= job.count
        /\ Cardinality(Healthy(gpus)) >= job.count
        /\ Cardinality(OfModel(Healthy(gpus), job)) >= job.count
    <3> HIDE DEF gpus, job
    <3> QED BY <1>2, <2>1, CountsShrink DEF FactsSuffice
  <2> HIDE DEF gpus, job
  <2> QED BY <1>2, <2>2 DEF EvaluateGpus, FactsSuffice, FactsKnown
<1> QED BY <1>1, <1>2

\* The open scope asks for nothing that the GPUs of a question do not have.
LEMMA ScopeIs ==
    ASSUME NEW q \in GpuQuestions
    PROVE  /\ InScope(q[1], q[2], OpenScope) <=>
                  FactsSuffice(q[1], q[2]) /\ IdsCanonical(q[1])
           /\ Known(q[1]) /\ Known(q[2].count) =>
                  ScopeMatching(q[1], q[2], OpenScope) = Matching(q[1], q[2])
<1> DEFINE gpus == q[1]
           job == q[2]
<1>1. /\ OpenScope.verified /\ OpenScope.runtime = None /\ OpenScope.mode = "EXCLUSIVE"
      /\ OpenScope.prefixesUsable /\ OpenScope.driver = None /\ OpenScope.capabilities = {}
  BY DEF OpenScope
<1>2. \A field \in ScopeFields : Known(OpenScope[field])
  <2>1. /\ OpenScope["observed"] = 1 /\ OpenScope["revision"] = 1
        /\ OpenScope["cpu"] = 1 /\ OpenScope["ram"] = 1 /\ OpenScope["workspace"] = 1
        /\ OpenScope["mode"] = "EXCLUSIVE"
    BY DEF OpenScope
  <2>2. None # 1 /\ None # "EXCLUSIVE"
    BY QuestionsAssumption
  <2> QED BY <2>1, <2>2 DEF ScopeFields, Known
<1>3. CASE ~ (Known(gpus) /\ Known(job.count))
  <2>1. ~InScope(gpus, job, OpenScope)
    BY <1>3 DEF InScope
  <2>2. ~FactsSuffice(gpus, job)
    BY <1>3 DEF FactsSuffice
  <2> QED BY <1>3, <2>1, <2>2
<1>4. CASE Known(gpus) /\ Known(job.count)
  <2>1. /\ job.count > 0
        /\ \A g \in gpus : Known(g.modes) /\ "EXCLUSIVE" \in g.modes /\ g.authoritative
    BY <1>4, QuestionsAssumption DEF Known
  <2> HIDE DEF gpus, job
  <2>2. OfModel(Healthy(gpus), job) \subseteq gpus /\ Matching(gpus, job) \subseteq gpus
    BY DEF OfModel, Healthy, Matching, WithVram
  <2>3. \A g \in gpus : /\ NewDriver(g, OpenScope) /\ Capable(g, OpenScope)
                        /\ Allocatable(g, OpenScope)
    BY <1>1, <2>1 DEF NewDriver, Capable, Allocatable
  <2>4. ScopeMatching(gpus, job, OpenScope) = Matching(gpus, job)
    BY <2>2, <2>3 DEF ScopeMatching
  <2>5. ScopeFactsKnown(gpus, job, OpenScope) <=> FactsKnown(gpus, job)
    BY <1>1, <2>1, <2>2, <2>3 DEF ScopeFactsKnown, FactsKnown
  <2>6. InScope(gpus, job, OpenScope) <=> FactsSuffice(gpus, job) /\ IdsCanonical(gpus)
    BY <1>1, <1>2, <1>4, <2>1, <2>4, <2>5 DEF InScope, FactsSuffice
  <2> QED BY <2>4, <2>6 DEF gpus, job
<1> QED BY <1>3, <1>4

LEMMA ScopeIsRanked ==
    ASSUME NEW q \in GpuQuestions, InScope(q[1], q[2], OpenScope)
    PROVE  GpuScopeCandidate(q[1], q[2], OpenScope)
               = ResourceFit(WithResources(q[1]), WithNeeds(q[2])).gpus
<1> DEFINE gpus == q[1]
           job == q[2]
<1>1. ScopeMatching(gpus, job, OpenScope) = Matching(gpus, job)
  BY ScopeIs DEF FactsSuffice
<1>2. GpuScopeCandidate(gpus, job, OpenScope)
          = {g.id : g \in Smallest(Matching(gpus, job), job.count)}
  BY <1>1 DEF GpuScopeCandidate
<1>3. ResourceFit(WithResources(gpus), WithNeeds(job)).gpus
          = Selected(WithResources(gpus).gpus, WithNeeds(job))
  BY DEF ResourceFit
<1>4. WithResources(gpus).gpus = gpus
  BY DEF WithResources
<1>5. Selected(gpus, WithNeeds(job)) = {g.id : g \in Smallest(Matching(gpus, job), job.count)}
  BY NeedsAreTheSame DEF Selected
<1> QED BY <1>2, <1>3, <1>4, <1>5

LEMMA SpellingsTold ==
    ASSUME NEW id, NEW other
    PROVE  /\ CompareIdentity(id, other) = "DIFFERENT" => id.name # other.name
           /\ CompareIdentity(id, other) # "AMBIGUOUS" /\ id.name = other.name => id = other
<1>1. "SAME" # "AMBIGUOUS" /\ "SAME" # "DIFFERENT" /\ "AMBIGUOUS" # "DIFFERENT"
  OBVIOUS
<1>2. id = other => CompareIdentity(id, other) = "SAME"
  BY Zenon DEF CompareIdentity
<1>3. id # other /\ id.name = other.name => CompareIdentity(id, other) = "AMBIGUOUS"
  BY Zenon DEF CompareIdentity
<1> QED BY <1>1, <1>2, <1>3

LEMMA AllowedMeans ==
    ASSUME NEW q, NEW policy, EvaluateReassignment(q, policy) = "allowed"
    PROVE  InputUsable(q, policy) /\ ConditionsMet(q, policy)
<1>1. "invalid" # "allowed" /\ "refused" # "allowed"
  OBVIOUS
<1>2. ~InputUsable(q, policy) => EvaluateReassignment(q, policy) = "invalid"
  BY Zenon DEF EvaluateReassignment
<1>3. InputUsable(q, policy) /\ ~ConditionsMet(q, policy)
          => EvaluateReassignment(q, policy) = "refused"
  BY Zenon DEF EvaluateReassignment
<1> QED BY <1>1, <1>2, <1>3

\* Two nodes of usable reports have two names, so that counting the nodes counts
\* the names.
LEMMA NamesCountNodes ==
    ASSUME NEW rs, IsFiniteSet(rs), ReportersDistinct(rs)
    PROVE  Cardinality({r.node.name : r \in rs}) = Cardinality({r.node : r \in rs})
<1> DEFINE nodes == {r.node : r \in rs}
           names == {r.node.name : r \in rs}
           node == [r \in rs |-> r.node]
           name == [n \in nodes |-> n.name]
<1>1. node \in Surjection(rs, nodes)
  BY DEF Surjection
<1>2. \A m, n \in nodes : m.name = n.name => m = n
  BY SpellingsTold DEF ReportersDistinct
<1>3. name \in [nodes -> names]
  OBVIOUS
<1>4. \A a \in names : \E n \in nodes : name[n] = a
  OBVIOUS
<1>5. \A n \in nodes : name[n] = n.name
  OBVIOUS
<1> HIDE DEF nodes, names, node, name
<1>6. IsFiniteSet(nodes)
  BY <1>1, FS_Surjection
<1>7. name \in Bijection(nodes, names)
  BY <1>2, <1>3, <1>4, <1>5 DEF Bijection, Injection, IsInjective, Surjection
<1>8. ExistsBijection(nodes, names)
  BY <1>7 DEF ExistsBijection
<1>9. Cardinality(names) = Cardinality(nodes)
  BY <1>6, <1>8, FS_Bijection
<1> QED BY <1>9 DEF names, nodes

LEMMA AllowedIsReal ==
    ASSUME NEW q \in ReassignmentQuestions,
           EvaluateReassignment(q, ReassignmentPolicy) = "allowed"
    PROVE  /\ Cardinality({r.node.name : r \in q.reports})
                  >= RequiredReports(q, ReassignmentPolicy)
           /\ \A r \in q.reports :
                 /\ r.node.name \notin {"", q.stranded.name, q.receiving.name}
                 /\ r.member.name \notin {q.strandedMember.name, q.receivingMember.name}
                 /\ r.observed <= q.now
           /\ \A e \in q.range.used \cup {q.originalEpoch} : q.proposedEpoch > e
<1>1. InputUsable(q, ReassignmentPolicy) /\ ConditionsMet(q, ReassignmentPolicy)
  BY AllowedMeans
<1>2. Cardinality({r.node.name : r \in q.reports}) = Cardinality({r.node : r \in q.reports})
  <2>1. IsFiniteSet(q.reports) /\ ReportersDistinct(q.reports)
    BY <1>1, QuestionsAssumption DEF InputUsable
  <2> QED BY <2>1, NamesCountNodes
<1>3. Cardinality({r.node : r \in q.reports}) >= RequiredReports(q, ReassignmentPolicy)
  BY <1>1 DEF ConditionsMet
<1>4. ASSUME NEW r \in q.reports
      PROVE  /\ r.node.name \notin {"", q.stranded.name, q.receiving.name}
             /\ r.member.name \notin {q.strandedMember.name, q.receivingMember.name}
             /\ r.observed <= q.now
  <2>1. ReportUsable(r, q)
    BY <1>1 DEF InputUsable
  <2>2. /\ r.node.name # "" /\ r.observed <= q.now
        /\ CompareIdentity(r.member, q.receivingMember) = "DIFFERENT"
        /\ CompareIdentity(r.member, q.strandedMember) = "DIFFERENT"
        /\ CompareIdentity(r.node, q.stranded) = "DIFFERENT"
        /\ CompareIdentity(r.node, q.receiving) = "DIFFERENT"
    BY <2>1 DEF ReportUsable, Canonical
  <2> QED BY <2>2, SpellingsTold
<1>5. \A e \in q.range.used \cup {q.originalEpoch} : q.proposedEpoch > e
  BY <1>1 DEF ConditionsMet, EpochUsable
<1> QED BY <1>2, <1>3, <1>4, <1>5

-----------------------------------------------------------------------------
(* The pairing of declared and observed GPUs.                              *)

Places == 1 .. Len(Observed)

Frames == [gpu : 1 .. Len(Declared), at : 1 .. Len(Observed) + 1]

\* The declared GPUs before upto, and no others, have an observed one of their own.
OwnersRight(upto) ==
    /\ ownerOf \in [Places -> 0 .. Len(Declared)]
    /\ \A j \in Places : ownerOf[j] # 0 => /\ ownerOf[j] < upto
                                           /\ Fits(Declared[ownerOf[j]], Observed[j])
    /\ \A j, k \in Places : ownerOf[j] = ownerOf[k] /\ ownerOf[j] # 0 => j = k
    /\ \A i \in 1 .. upto - 1 : \E j \in Places : ownerOf[j] = i

\* Each call but the running one waits at an observed GPU that it looked at, for the
\* owner of that GPU.
CallsRight ==
    /\ calls \in Seq(Frames) /\ calls # <<>>
    /\ calls[1].gpu = turn
    /\ \A m \in 1 .. Len(calls) - 1 :
          /\ calls[m].at \in visited
          /\ Fits(Declared[calls[m].gpu], Observed[calls[m].at])
          /\ calls[m + 1].gpu = ownerOf[calls[m].at]
    /\ \A m, n \in 1 .. Len(calls) - 1 : calls[m].at = calls[n].at => m = n

VisitedOwned == visited \subseteq Places /\ \A j \in visited : ownerOf[j] # 0

\* The declared GPUs that the turn has come to.
Reached == {turn} \cup {ownerOf[j] : j \in visited}

\* What fits a declared GPU that the turn has come to, and was not looked at, is
\* still before one of the calls.
NothingSkipped ==
    \A g \in Reached : \A k \in Places \ visited :
        Fits(Declared[g], Observed[k]) =>
            \E m \in 1 .. Len(calls) : calls[m].gpu = g /\ calls[m].at <= k

SearchRight ==
    /\ question \in PairingQuestions
    /\ turn \in 1 .. Len(Declared)
    /\ OwnersRight(turn)
    /\ CallsRight
    /\ VisitedOwned
    /\ NothingSkipped

MatchInv ==
    /\ VerdictRight
    /\ verdict = "searching" => SearchRight

LEMMA QuestionIs ==
    ASSUME NEW q \in PairingQuestions
    PROVE  /\ Len(q[1]) \in Nat /\ DOMAIN q[1] = 1 .. Len(q[1])
           /\ Len(q[2]) \in Nat /\ DOMAIN q[2] = 1 .. Len(q[2])
<1>1. \A k \in {1, 2} : Len(q[k]) \in Nat /\ DOMAIN q[k] = 1 .. Len(q[k])
  BY PairingAssumption
<1> QED BY <1>1

\* One call of the stack in the place of its last.
LEMMA LastReplaced ==
    ASSUME NEW F, NEW s \in Seq(F), s # <<>>, NEW e \in F, NEW t,
           t = [s EXCEPT ![Len(s)] = e]
    PROVE  /\ t \in Seq(F) /\ Len(t) = Len(s) /\ t # <<>> /\ t[Len(s)] = e
           /\ \A m \in 1 .. Len(s) - 1 : t[m] = s[m]
<1>1. Len(s) \in Nat /\ Len(s) # 0 /\ Len(s) \in 1 .. Len(s)
  OBVIOUS
<1>2. t \in Seq(F) /\ Len(t) = Len(s)
  BY <1>1
<1>3. t[Len(s)] = e /\ \A m \in 1 .. Len(s) - 1 : t[m] = s[m]
  BY <1>1
<1> QED BY <1>1, <1>2, <1>3

\* What SearchRight says of the running call.
LEMMA RunningIs ==
    ASSUME SearchRight
    PROVE  /\ Len(Declared) \in Nat /\ Len(Observed) \in Nat
           /\ DOMAIN Declared = 1 .. Len(Declared) /\ DOMAIN Observed = Places
           /\ Len(calls) \in Nat \ {0} /\ DOMAIN calls = 1 .. Len(calls)
           /\ \A m \in 1 .. Len(calls) :
                 calls[m].gpu \in 1 .. Len(Declared) /\ calls[m].at \in 1 .. Len(Observed) + 1
           /\ Running.gpu \in 1 .. Len(Declared)
           /\ Running.at \in 1 .. Len(Observed) + 1
<1>1. question \in PairingQuestions /\ calls \in Seq(Frames) /\ calls # <<>>
  BY DEF SearchRight, CallsRight
<1>2. /\ Len(Declared) \in Nat /\ Len(Observed) \in Nat
      /\ DOMAIN Declared = 1 .. Len(Declared) /\ DOMAIN Observed = Places
  BY <1>1, QuestionIs DEF Declared, Observed, Places
<1>3. Len(calls) \in Nat \ {0} /\ \A m \in 1 .. Len(calls) : calls[m] \in Frames
  BY <1>1
<1>4. DOMAIN calls = 1 .. Len(calls)
  BY <1>1
<1>5. \A m \in 1 .. Len(calls) :
          calls[m].gpu \in 1 .. Len(Declared) /\ calls[m].at \in 1 .. Len(Observed) + 1
  BY <1>3 DEF Frames
<1>6. Len(calls) \in 1 .. Len(calls)
  BY <1>3
<1> QED BY <1>2, <1>3, <1>4, <1>5, <1>6 DEF Running

LEMMA NextKeeps ==
    ASSUME SearchRight, LooksAtNext
    PROVE  SearchRight' /\ SearchAdvances
<1> DEFINE n == Len(calls)
<1>0. /\ Len(Declared) \in Nat /\ Len(Observed) \in Nat /\ n \in Nat \ {0}
      /\ n \in 1 .. n
      /\ Running.at \in 1 .. Len(Observed) /\ PassedOver(Running.gpu, Running.at)
      /\ calls' = [calls EXCEPT ![Len(calls)].at = @ + 1]
      /\ UNCHANGED <<question, turn, visited, ownerOf, verdict>>
  <2>1. Running.at <= Len(Observed) /\ Running.at \in 1 .. Len(Observed) + 1
    BY RunningIs DEF LooksAtNext
  <2>2. /\ Len(Declared) \in Nat /\ Len(Observed) \in Nat /\ n \in Nat \ {0} /\ n \in 1 .. n
    BY RunningIs
  <2> QED BY <2>1, <2>2 DEF LooksAtNext
<1>1. UNCHANGED <<Declared, Observed, Places, Frames, Reached>>
  BY <1>0 DEF Declared, Observed, Places, Frames, Reached
<1>2. CallsRight /\ calls \in Seq(Frames) /\ calls # <<>>
  BY DEF SearchRight, CallsRight
<1>3. /\ calls' \in Seq(Frames) /\ Len(calls') = n
      /\ calls'[n].gpu = calls[n].gpu /\ calls'[n].at = calls[n].at + 1
      /\ \A m \in 1 .. n - 1 : calls'[m] = calls[m]
  <2> DEFINE e == [calls[n] EXCEPT !.at = @ + 1]
  <2>1. e \in Frames /\ e.gpu = calls[n].gpu /\ e.at = calls[n].at + 1
    <3>1. calls[n] \in Frames /\ calls[n].at \in 1 .. Len(Observed)
      BY <1>0, <1>2 DEF Running
    <3> QED BY <1>0, <3>1 DEF Frames
  <2>2. calls' = [calls EXCEPT ![Len(calls)] = e]
    BY <1>0
  <2> HIDE DEF e
  <2> QED BY <1>2, <2>1, <2>2, LastReplaced
<1>4. calls' # <<>>
  BY <1>0, <1>3
<1> HIDE DEF n
<1>5. \A m \in 1 .. n : calls'[m].gpu = calls[m].gpu
  <2>1. \A m \in 1 .. n : m = n \/ m \in 1 .. n - 1
    BY <1>0
  <2> QED BY <1>3, <2>1
<1>6. CallsRight'
  <2>1. calls'[1].gpu = turn'
    BY <1>0, <1>2, <1>5 DEF CallsRight
  <2>2. \A m \in 1 .. n - 1 : m + 1 \in 1 .. n
    BY <1>0
  <2>3. \A m \in 1 .. n - 1 :
          /\ calls'[m].at \in visited'
          /\ Fits(Declared'[calls'[m].gpu], Observed'[calls'[m].at])
          /\ calls'[m + 1].gpu = ownerOf'[calls'[m].at]
    BY <1>0, <1>1, <1>2, <1>3, <1>5, <2>2 DEF CallsRight, n
  <2>4. \A m, k \in 1 .. n - 1 : calls'[m].at = calls'[k].at => m = k
    BY <1>2, <1>3 DEF CallsRight, n
  <2> QED BY <1>1, <1>3, <1>4, <2>1, <2>3, <2>4 DEF CallsRight
<1>7. NothingSkipped'
  <2> SUFFICES ASSUME NEW g \in Reached, NEW k \in Places \ visited,
                      Fits(Declared[g], Observed[k])
               PROVE  \E m \in 1 .. n : calls'[m].gpu = g /\ calls'[m].at <= k
    BY <1>0, <1>1, <1>3 DEF NothingSkipped
  <2>1. PICK m \in 1 .. n : calls[m].gpu = g /\ calls[m].at <= k
    BY DEF SearchRight, NothingSkipped, n
  <2>2. CASE m # n
    BY <1>0, <1>3, <2>1, <2>2
  <2>3. CASE m = n
    <3>1. Running = calls[n]
      BY DEF Running, n
    <3>2. k # calls[n].at
      BY <1>0, <2>1, <2>3, <3>1 DEF PassedOver
    <3>3. k \in Int /\ calls[n].at \in Int
      BY <1>0, <3>1 DEF Places
    <3> QED BY <1>0, <1>3, <2>1, <2>3, <3>2, <3>3
  <2> QED BY <2>2, <2>3
<1>8. SearchRight'
  BY <1>0, <1>1, <1>6, <1>7 DEF SearchRight, OwnersRight, VisitedOwned
<1>9. Running'.at > Running.at
  BY <1>0, <1>3 DEF Running, n
<1> QED BY <1>0, <1>3, <1>8, <1>9 DEF SearchAdvances, n

LEMMA AskKeeps ==
    ASSUME SearchRight, AsksOwner
    PROVE  SearchRight' /\ SearchAdvances
<1> DEFINE n == Len(calls)
           a == Running.at
           frame == [gpu |-> ownerOf[a], at |-> 1]
<1>0. /\ Len(Declared) \in Nat /\ Len(Observed) \in Nat /\ n \in Nat \ {0}
      /\ a \in Places /\ a \notin visited
      /\ Fits(Declared[Running.gpu], Observed[a])
      /\ ownerOf[a] # 0 /\ visited' = visited \cup {a} /\ calls' = Append(calls, frame)
      /\ UNCHANGED <<question, turn, ownerOf, verdict>>
  BY RunningIs DEF AsksOwner, PassedOver, Places
<1>1. UNCHANGED <<Declared, Observed, Places, Frames>>
  BY <1>0 DEF Declared, Observed, Places, Frames
<1>2. CallsRight /\ calls \in Seq(Frames) /\ VisitedOwned /\ Running = calls[n]
  BY DEF SearchRight, CallsRight, Running
<1>3. frame \in Frames /\ frame.gpu = ownerOf[a] /\ frame.at = 1
  <2>1. ownerOf[a] \in 1 .. Len(Declared)
    BY <1>0 DEF SearchRight, OwnersRight
  <2> QED BY <1>0, <2>1 DEF Frames
<1> HIDE DEF n, a, frame
<1>4. /\ calls' \in Seq(Frames) /\ Len(calls') = n + 1 /\ calls' # <<>>
      /\ calls'[n + 1] = frame /\ \A m \in 1 .. n : calls'[m] = calls[m]
  BY <1>0, <1>2, <1>3 DEF n
<1>5. calls[n].at = a
  BY <1>2 DEF a
<1>6. CallsRight'
  <2>1. calls'[1].gpu = turn'
    BY <1>0, <1>2, <1>4 DEF CallsRight
  <2>2. ASSUME NEW m \in 1 .. n
        PROVE  /\ calls'[m].at \in visited'
               /\ Fits(Declared'[calls'[m].gpu], Observed'[calls'[m].at])
               /\ calls'[m + 1].gpu = ownerOf'[calls'[m].at]
    <3>1. CASE m = n
      BY <1>0, <1>1, <1>2, <1>3, <1>4, <1>5, <3>1
    <3>2. CASE m # n
      <4>1. m \in 1 .. n - 1 /\ m + 1 \in 1 .. n
        BY <1>0, <3>2
      <4> QED BY <1>0, <1>1, <1>2, <1>4, <4>1 DEF CallsRight, n
    <3> QED BY <3>1, <3>2
  <2>3. ASSUME NEW m \in 1 .. n, NEW k \in 1 .. n, calls[m].at = calls[k].at
        PROVE  m = k
    <3>1. \A i \in 1 .. n : i # n => i \in 1 .. n - 1 /\ calls[i].at \in visited
      BY <1>0, <1>2 DEF CallsRight, n
    <3>2. CASE m = n \/ k = n
      BY <1>0, <1>5, <2>3, <3>1, <3>2
    <3>3. CASE m # n /\ k # n
      BY <1>2, <2>3, <3>1, <3>3 DEF CallsRight, n
    <3> QED BY <3>2, <3>3
  <2>4. Len(calls') - 1 = n
    BY <1>0, <1>4
  <2> QED BY <1>1, <1>4, <2>1, <2>2, <2>3, <2>4 DEF CallsRight
<1>7. VisitedOwned'
  BY <1>0, <1>1, <1>2 DEF VisitedOwned
<1>8. NothingSkipped'
  <2> SUFFICES ASSUME NEW g \in Reached', NEW k \in Places \ visited',
                      Fits(Declared[g], Observed[k])
               PROVE  \E m \in 1 .. n + 1 : calls'[m].gpu = g /\ calls'[m].at <= k
    BY <1>1, <1>4 DEF NothingSkipped
  <2>1. CASE g = ownerOf[a]
    BY <1>0, <1>3, <1>4, <2>1 DEF Places
  <2>2. CASE g # ownerOf[a]
    <3>1. g \in Reached
      BY <1>0, <2>2 DEF Reached
    <3>2. PICK m \in 1 .. n : calls[m].gpu = g /\ calls[m].at <= k
      BY <1>0, <3>1 DEF SearchRight, NothingSkipped, n
    <3>3. m \in 1 .. n + 1
      BY <1>0
    <3> QED BY <1>4, <3>2, <3>3
  <2> QED BY <2>1, <2>2
<1>9. SearchRight'
  BY <1>0, <1>1, <1>6, <1>7, <1>8 DEF SearchRight, OwnersRight
<1> QED BY <1>0, <1>9 DEF SearchAdvances

LEMMA ReturnKeeps ==
    ASSUME SearchRight, ReturnsFalse, Len(calls) # 1
    PROVE  SearchRight' /\ SearchAdvances
<1> DEFINE n == Len(calls) - 1
           rest == SubSeq(calls, 1, n)
           e == [calls[n] EXCEPT !.at = @ + 1]
<1>0. /\ Len(Declared) \in Nat /\ Len(Observed) \in Nat
      /\ n \in Nat \ {0} /\ Len(calls) = n + 1
      /\ calls[n + 1].at = Len(Observed) + 1
      /\ UNCHANGED <<question, turn, visited, ownerOf, verdict>>
  <2>1. Running.at > Len(Observed) /\ Running.at \in 1 .. Len(Observed) + 1
    BY RunningIs DEF ReturnsFalse
  <2>2. Len(Declared) \in Nat /\ Len(Observed) \in Nat /\ Len(calls) \in Nat \ {0}
    BY RunningIs
  <2>3. Len(calls) = n + 1
    BY <2>2
  <2>4. calls[n + 1].at = Len(Observed) + 1
    BY <2>1, <2>2, <2>3 DEF Running
  <2> QED BY <2>2, <2>3, <2>4 DEF ReturnsFalse
<1>1. UNCHANGED <<Declared, Observed, Places, Frames, Reached>>
  BY <1>0 DEF Declared, Observed, Places, Frames, Reached
<1>2. CallsRight /\ calls \in Seq(Frames) /\ VisitedOwned
  BY DEF SearchRight, CallsRight
<1>3. calls[n] \in Frames /\ calls[n].at \in visited /\ calls[n].at \in Places
  <2>1. n \in 1 .. Len(calls) - 1 /\ n \in 1 .. Len(calls)
    BY <1>0
  <2> QED BY <1>2, <2>1 DEF CallsRight, VisitedOwned
<1>4. e \in Frames /\ e.gpu = calls[n].gpu /\ e.at = calls[n].at + 1
  BY <1>0, <1>3 DEF Frames, Places
<1>5. calls' = [rest EXCEPT ![n] = e]
  <2>1. calls' = [rest EXCEPT ![n].at = @ + 1]
    BY DEF ReturnsFalse
  <2>2. rest[n] = calls[n] /\ n \in DOMAIN rest
    BY <1>0, <1>2
  <2> QED BY <2>1, <2>2
<1> HIDE DEF n, e
<1>6. /\ rest \in Seq(Frames) /\ Len(rest) = n /\ rest # <<>>
      /\ \A m \in 1 .. n : rest[m] = calls[m]
  BY <1>0, <1>2
<1> HIDE DEF rest
<1>7. /\ calls' \in Seq(Frames) /\ Len(calls') = n /\ calls' # <<>> /\ calls'[n] = e
      /\ \A m \in 1 .. n - 1 : calls'[m] = calls[m]
  <2>1. /\ calls' \in Seq(Frames) /\ Len(calls') = n /\ calls' # <<>> /\ calls'[n] = e
        /\ \A m \in 1 .. n - 1 : calls'[m] = rest[m]
    BY <1>4, <1>5, <1>6, LastReplaced
  <2>2. \A m \in 1 .. n - 1 : m \in 1 .. n
    BY <1>0
  <2> QED BY <1>6, <2>1, <2>2
<1>8. \A m \in 1 .. n : calls'[m].gpu = calls[m].gpu
  <2>1. \A m \in 1 .. n : m = n \/ m \in 1 .. n - 1
    BY <1>0
  <2> QED BY <1>4, <1>7, <2>1
<1>9. \A m \in 1 .. n - 1 : m \in 1 .. n /\ m \in 1 .. Len(calls) - 1 /\ m + 1 \in 1 .. n
  BY <1>0
<1>10. CallsRight'
  <2>1. calls'[1].gpu = turn'
    BY <1>0, <1>2, <1>8 DEF CallsRight
  <2>2. \A m \in 1 .. n - 1 :
          /\ calls'[m].at \in visited'
          /\ Fits(Declared'[calls'[m].gpu], Observed'[calls'[m].at])
          /\ calls'[m + 1].gpu = ownerOf'[calls'[m].at]
    BY <1>0, <1>1, <1>2, <1>7, <1>8, <1>9 DEF CallsRight
  <2>3. ASSUME NEW m \in 1 .. n - 1, NEW k \in 1 .. n - 1, calls'[m].at = calls'[k].at
        PROVE  m = k
    <3>1. calls[m].at = calls[k].at
      BY <1>7, <2>3
    <3>2. m \in 1 .. Len(calls) - 1 /\ k \in 1 .. Len(calls) - 1
      BY <1>9
    <3> QED BY <1>2, <3>1, <3>2 DEF CallsRight
  <2> QED BY <1>1, <1>7, <2>1, <2>2, <2>3 DEF CallsRight
<1>11. NothingSkipped'
  <2> SUFFICES ASSUME NEW g \in Reached, NEW k \in Places \ visited,
                      Fits(Declared[g], Observed[k])
               PROVE  \E m \in 1 .. n : calls'[m].gpu = g /\ calls'[m].at <= k
    BY <1>0, <1>1, <1>7 DEF NothingSkipped
  <2>1. PICK m \in 1 .. n + 1 : calls[m].gpu = g /\ calls[m].at <= k
    BY <1>0 DEF SearchRight, NothingSkipped
  <2>2. m \in 1 .. n
    BY <1>0, <2>1 DEF Places
  <2>3. CASE m # n
    <3>1. m \in 1 .. n - 1
      BY <1>0, <2>2, <2>3
    <3> QED BY <1>7, <2>1, <2>2, <3>1
  <2>4. CASE m = n
    <3>1. k # calls[n].at /\ k \in Int /\ calls[n].at \in Int
      BY <1>3 DEF Places
    <3> QED BY <1>4, <1>7, <2>1, <2>2, <2>4, <3>1
  <2> QED BY <2>3, <2>4
<1>12. SearchRight'
  BY <1>0, <1>1, <1>10, <1>11 DEF SearchRight, OwnersRight, VisitedOwned
<1> QED BY <1>0, <1>7, <1>12 DEF SearchAdvances

\* The whole path is turned around: the declared GPU of the turn has got one, and all
\* before it still have one of their own.
LEMMA PathTurned ==
    ASSUME SearchRight, TakesFree
    PROVE  OwnersRight(turn)'
<1> DEFINE n == Len(calls)
           P == 1 .. n
<1>0. /\ Len(Declared) \in Nat /\ Len(Observed) \in Nat /\ n \in Nat \ {0} /\ DOMAIN calls = P
      /\ turn \in 1 .. Len(Declared) /\ turn' = turn + 1
      /\ OwnersRight(turn) /\ CallsRight /\ VisitedOwned
      /\ n \in P /\ 1 \in P
      /\ \A m \in P : calls[m].gpu \in 1 .. Len(Declared)
  <2>1. /\ Len(Declared) \in Nat /\ Len(Observed) \in Nat /\ n \in Nat \ {0} /\ DOMAIN calls = P
        /\ \A m \in P : calls[m].gpu \in 1 .. Len(Declared)
    BY RunningIs
  <2> QED BY <2>1 DEF SearchRight, TakesFree, Turn
<1>1. UNCHANGED <<Declared, Observed, Places>>
  BY DEF TakesFree, Declared, Observed, Places
<1>2. /\ calls[n].at \in Places /\ calls[n].at \notin visited
      /\ Fits(Declared[calls[n].gpu], Observed[calls[n].at])
      /\ ownerOf[calls[n].at] = 0
  <2>1. Running.at \in 1 .. Len(Observed) + 1 /\ Running.at <= Len(Observed)
    BY RunningIs DEF TakesFree
  <2> QED BY <1>0, <2>1 DEF TakesFree, PassedOver, Running, Places
<1>3. ownerOf' = [j \in Places |->
                     IF \E c \in P : calls[c].at = j
                     THEN calls[CHOOSE c \in P : calls[c].at = j].gpu
                     ELSE ownerOf[j]]
  <2>1. DOMAIN ownerOf = Places
    BY <1>0 DEF OwnersRight
  <2> QED BY <1>0, <2>1 DEF TakesFree
<1>4. \A m \in P : m # n => m \in 1 .. n - 1 /\ m + 1 \in P
  <2>1. n \in Nat \ {0}
    BY <1>0
  <2> HIDE DEF n
  <2> QED BY <2>1
<1>5. \A m \in P : calls[m].at \in Places /\ Fits(Declared[calls[m].gpu], Observed[calls[m].at])
  BY <1>0, <1>2, <1>4 DEF CallsRight, VisitedOwned
<1>6. \A m, k \in P : calls[m].at = calls[k].at => m = k
  <2>1. \A m \in P : m # n => calls[m].at \in visited
    BY <1>0, <1>4 DEF CallsRight
  <2>2. \A m, k \in P : m # n /\ k # n /\ calls[m].at = calls[k].at => m = k
    BY <1>0, <1>4 DEF CallsRight
  <2> QED BY <1>2, <2>1, <2>2
<1> HIDE DEF n, P
<1>7. \A m \in P : ownerOf'[calls[m].at] = calls[m].gpu
  <2> SUFFICES ASSUME NEW m \in P
               PROVE  ownerOf'[calls[m].at] = calls[m].gpu
    OBVIOUS
  <2>1. PICK c : c = CHOOSE i \in P : calls[i].at = calls[m].at
    OBVIOUS
  <2>2. c \in P /\ calls[c].at = calls[m].at
    BY <2>1
  <2>3. c = m
    BY <1>6, <2>2
  <2>4. ownerOf'[calls[m].at] = calls[CHOOSE i \in P : calls[i].at = calls[m].at].gpu
    BY <1>3, <1>5
  <2> QED BY <2>1, <2>3, <2>4
<1>8. \A j \in Places : (\A m \in P : calls[m].at # j) => ownerOf'[j] = ownerOf[j]
  BY <1>3
<1>9. turn \in Int /\ \A m \in P : calls[m].gpu \in Int /\ calls[m].gpu # 0
  <2>1. \A m \in P : calls[m].gpu \in 1 .. Len(Declared)
    BY <1>0
  <2>2. turn \in 1 .. Len(Declared) /\ Len(Declared) \in Nat
    BY <1>0
  <2> QED BY <2>1, <2>2
\* A call but the first is about the owner of the GPU before.
<1>10. /\ calls[1].gpu = turn
      /\ \A m \in P : m # 1 => /\ m - 1 \in P /\ calls[m].gpu = ownerOf[calls[m - 1].at]
                               /\ calls[m].gpu < turn /\ calls[m].gpu \notin {0, turn}
                               /\ calls[m - 1].at \in Places
  <2>1. calls[1].gpu = turn
    BY <1>0 DEF CallsRight
  <2>2. ASSUME NEW m \in P, m # 1
        PROVE  /\ m - 1 \in P /\ calls[m].gpu = ownerOf[calls[m - 1].at]
               /\ calls[m].gpu < turn /\ calls[m].gpu \notin {0, turn}
               /\ calls[m - 1].at \in Places
    <3>1. m - 1 \in 1 .. n - 1 /\ (m - 1) + 1 = m /\ m - 1 \in P
      BY <1>0, <2>2 DEF P
    <3>2. calls[m].gpu = ownerOf[calls[m - 1].at]
      <4>1. calls[(m - 1) + 1].gpu = ownerOf[calls[m - 1].at]
        BY <1>0, <3>1 DEF CallsRight, n
      <4> QED BY <3>1, <4>1
    <3>3. calls[m].gpu # 0 /\ calls[m - 1].at \in Places
      BY <1>5, <1>9, <3>1
    <3>4. calls[m].gpu < turn
      BY <1>0, <3>2, <3>3 DEF OwnersRight
    <3>5. calls[m].gpu \in Int /\ turn \in Int
      BY <1>9
    <3> QED BY <3>1, <3>2, <3>3, <3>4, <3>5
  <2> QED BY <2>1, <2>2
<1>11. ASSUME NEW m \in P
       PROVE  calls[m].gpu \in 1 .. Len(Declared) /\ calls[m].gpu < turn + 1
  <2>1. calls[m].gpu = turn \/ calls[m].gpu < turn
    BY <1>10
  <2>2. calls[m].gpu < turn + 1
    BY <1>9, <2>1
  <2> QED BY <1>0, <2>2
<1>12. ownerOf' \in [Places -> 0 .. Len(Declared)]
  <2>1. \A j \in Places : ownerOf'[j] \in 0 .. Len(Declared)
    <3>1. \A j \in Places : ownerOf[j] \in 0 .. Len(Declared)
      BY <1>0 DEF OwnersRight
    <3> QED BY <1>0, <1>7, <1>8, <1>11, <3>1
  <2> QED BY <1>3, <2>1
<1>13. ASSUME NEW j \in Places, ownerOf'[j] # 0
       PROVE  ownerOf'[j] < turn + 1 /\ Fits(Declared[ownerOf'[j]], Observed[j])
  <2>1. CASE \E m \in P : calls[m].at = j
    BY <1>5, <1>7, <1>11, <2>1
  <2>2. CASE \A m \in P : calls[m].at # j
    <3>1. ownerOf'[j] = ownerOf[j] /\ ownerOf[j] \in 0 .. Len(Declared)
      BY <1>0, <1>8, <2>2 DEF OwnersRight
    <3> QED BY <1>0, <1>13, <3>1 DEF OwnersRight
  <2> QED BY <2>1, <2>2
<1>14. ASSUME NEW j \in Places, NEW k \in Places, ownerOf'[j] = ownerOf'[k], ownerOf'[j] # 0
       PROVE  j = k
  <2>0. /\ \A x, y \in Places : ownerOf[x] = ownerOf[y] /\ ownerOf[x] # 0 => x = y
        /\ \A x \in Places : ownerOf[x] # 0 => ownerOf[x] < turn
        /\ turn \in Int
    BY <1>0 DEF OwnersRight
  <2>1. ASSUME NEW m \in P, NEW y \in Places, \A c \in P : calls[c].at # y
        PROVE  calls[m].gpu # ownerOf[y]
    <3>1. CASE m = 1
      BY <1>0, <1>10, <2>0, <3>1
    <3>2. CASE m # 1
      <4>1. /\ m - 1 \in P /\ calls[m].gpu = ownerOf[calls[m - 1].at]
            /\ calls[m - 1].at \in Places /\ calls[m].gpu # 0
        BY <1>10, <3>2
      <4> QED BY <2>0, <2>1, <4>1
    <3> QED BY <3>1, <3>2
  <2>2. ASSUME NEW m \in P, NEW i \in P, calls[m].gpu = calls[i].gpu
        PROVE  m = i
    <3>1. CASE m = 1 \/ i = 1
      BY <1>10, <2>2, <3>1
    <3>2. CASE m # 1 /\ i # 1
      <4>1. /\ m - 1 \in P /\ calls[m].gpu = ownerOf[calls[m - 1].at]
            /\ i - 1 \in P /\ calls[i].gpu = ownerOf[calls[i - 1].at]
            /\ calls[m - 1].at \in Places /\ calls[i - 1].at \in Places
            /\ calls[m].gpu # 0
        BY <1>10, <3>2
      <4>2. calls[m - 1].at = calls[i - 1].at
        BY <2>0, <2>2, <4>1
      <4>3. m - 1 = i - 1
        BY <1>6, <4>1, <4>2
      <4> QED BY <4>3 DEF P
    <3> QED BY <3>1, <3>2
  <2>3. CASE (\E m \in P : calls[m].at = j) /\ (\E m \in P : calls[m].at = k)
    BY <1>7, <1>14, <2>2, <2>3
  <2>4. CASE (\E m \in P : calls[m].at = j) /\ (\A m \in P : calls[m].at # k)
    BY <1>7, <1>8, <1>14, <2>1, <2>4
  <2>5. CASE (\A m \in P : calls[m].at # j) /\ (\E m \in P : calls[m].at = k)
    BY <1>7, <1>8, <1>14, <2>1, <2>5
  <2>6. CASE (\A m \in P : calls[m].at # j) /\ (\A m \in P : calls[m].at # k)
    BY <1>8, <1>14, <2>0, <2>6
  <2> QED BY <2>3, <2>4, <2>5, <2>6
<1>15. ASSUME NEW i \in 1 .. turn
       PROVE  \E j \in Places : ownerOf'[j] = i
  <2>1. CASE i = turn
    BY <1>0, <1>5, <1>7, <1>10, <2>1
  <2>2. CASE i # turn
    <3>1. i \in 1 .. turn - 1 /\ i # 0
      BY <1>0, <2>2
    <3>2. PICK j \in Places : ownerOf[j] = i
      BY <1>0, <3>1 DEF OwnersRight
    <3>3. CASE \A m \in P : calls[m].at # j
      BY <1>8, <3>2, <3>3
    <3>4. ASSUME NEW m \in P, calls[m].at = j
          PROVE  \E k \in Places : ownerOf'[k] = i
      <4>1. m # n
        BY <1>2, <3>1, <3>2, <3>4
      <4>2. m \in 1 .. n - 1 /\ m + 1 \in P
        BY <1>4, <4>1
      <4>3. calls[m + 1].gpu = i
        BY <1>0, <3>2, <3>4, <4>2 DEF CallsRight, n
      <4> QED BY <1>5, <1>7, <4>2, <4>3
    <3> QED BY <3>3, <3>4
  <2> QED BY <2>1, <2>2
<1>16. turn' - 1 = turn
  BY <1>0
<1> QED BY <1>0, <1>1, <1>12, <1>13, <1>14, <1>15, <1>16 DEF OwnersRight

\* All that fits the declared GPUs which the turn has come to is owned by all of them
\* but one.
LEMMA NothingLeft ==
    ASSUME SearchRight, Len(calls) = 1, Running.at > Len(Observed)
    PROVE  ~Pairable(Declared, Observed)
<1>0. /\ Len(Declared) \in Nat /\ Len(Observed) \in Nat
      /\ DOMAIN Declared = 1 .. Len(Declared) /\ DOMAIN Observed = Places
      /\ OwnersRight(turn) /\ VisitedOwned /\ turn \in 1 .. Len(Declared)
  BY RunningIs DEF SearchRight
<1>1. \A g \in Reached : \A k \in Places : Fits(Declared[g], Observed[k]) => k \in visited
  <2> SUFFICES ASSUME NEW g \in Reached, NEW k \in Places \ visited,
                      Fits(Declared[g], Observed[k])
               PROVE  FALSE
    OBVIOUS
  <2>1. PICK m \in 1 .. Len(calls) : calls[m].gpu = g /\ calls[m].at <= k
    BY DEF SearchRight, NothingSkipped
  <2>2. m = Len(calls)
    BY <2>1
  <2>3. Running.at <= k /\ Running.at \in 1 .. Len(Observed) + 1
    BY <2>1, <2>2, RunningIs DEF Running
  <2> QED BY <1>0, <2>3 DEF Places
<1> DEFINE taken == {ownerOf[j] : j \in visited}
           owners == [j \in visited |-> ownerOf[j]]
<1>2. Reached = taken \cup {turn} /\ turn \notin taken /\ Reached \subseteq 1 .. Len(Declared)
  <2>1. \A j \in visited : ownerOf[j] \in 1 .. Len(Declared) /\ ownerOf[j] < turn
    BY <1>0 DEF OwnersRight, VisitedOwned
  <2> QED BY <1>0, <2>1 DEF Reached
<1>3. IsFiniteSet(visited)
  <2>1. visited \in SUBSET (1 .. Len(Observed)) /\ Len(Observed) \in Int
    BY <1>0 DEF VisitedOwned, Places
  <2>2. IsFiniteSet(1 .. Len(Observed))
    BY <2>1, FS_Interval
  <2> QED BY <2>1, <2>2, FS_Subset
<1>4. owners \in Bijection(visited, taken)
  <2>1. owners \in [visited -> taken]
    OBVIOUS
  <2>2. \A j, k \in visited : owners[j] = owners[k] => j = k
    BY <1>0 DEF OwnersRight, VisitedOwned
  <2>3. \A i \in taken : \E j \in visited : owners[j] = i
    OBVIOUS
  <2> HIDE DEF owners, taken
  <2> QED BY <2>1, <2>2, <2>3 DEF Bijection, Injection, IsInjective, Surjection
<1> HIDE DEF taken, owners
<1>5. IsFiniteSet(taken) /\ Cardinality(taken) = Cardinality(visited)
  BY <1>3, <1>4, FS_Bijection DEF ExistsBijection
<1>6. /\ IsFiniteSet(Reached) /\ Cardinality(Reached) = Cardinality(visited) + 1
      /\ Cardinality(visited) \in Nat
  BY <1>2, <1>3, <1>5, FS_AddElement, FS_CardinalityType
<1> SUFFICES ASSUME Pairable(Declared, Observed)
             PROVE  FALSE
  OBVIOUS
<1>7. PICK pairing \in [1 .. Len(Declared) -> Places] :
          /\ \A i, k \in 1 .. Len(Declared) : pairing[i] = pairing[k] => i = k
          /\ \A i \in 1 .. Len(Declared) : Fits(Declared[i], Observed[pairing[i]])
  BY <1>0 DEF Pairable
<1> DEFINE part == [g \in Reached |-> pairing[g]]
<1>8. part \in [Reached -> visited] /\ \A g, h \in Reached : part[g] = part[h] => g = h
  BY <1>1, <1>2, <1>7
<1> HIDE DEF part
<1>9. part \in Injection(Reached, visited)
  BY <1>8 DEF Injection, IsInjective
<1>10. Cardinality(Reached) <= Cardinality(visited)
  BY <1>3, <1>9, FS_Injection DEF ExistsInjection
<1> QED BY <1>6, <1>10

\* All declared GPUs have an observed one of their own.
LEMMA AllPaired ==
    ASSUME NEW q \in PairingQuestions, NEW owner,
           \A j \in DOMAIN q[2] : owner[j] # 0 => Fits(q[1][owner[j]], q[2][j]),
           \A i \in 1 .. Len(q[1]) : \E j \in DOMAIN q[2] : owner[j] = i
    PROVE  Pairable(q[1], q[2])
<1> DEFINE D == DOMAIN q[1]
           O == DOMAIN q[2]
           pairing == [i \in D |-> CHOOSE j \in O : owner[j] = i]
<1>0. Len(q[1]) \in Nat /\ D = 1 .. Len(q[1])
  BY QuestionIs
<1>1. \A i \in D : pairing[i] \in O /\ owner[pairing[i]] = i /\ i # 0
  BY <1>0
<1>2. pairing \in [D -> O]
  BY <1>1
<1> HIDE DEF pairing
<1>3. \A i, k \in D : pairing[i] = pairing[k] => i = k
  BY <1>1
<1>4. \A i \in D : Fits(q[1][i], q[2][pairing[i]])
  BY <1>1
<1> QED BY <1>2, <1>3, <1>4 DEF Pairable

\* The head of the outer loop, when the declared GPUs before it have got theirs.
LEMMA TurnBegins ==
    ASSUME question' \in PairingQuestions, turn' \in 1 .. Len(Declared)' + 1,
           OwnersRight(turn)', visited' = {},
           IF turn' <= Len(Declared)'
           THEN calls' = <<[gpu |-> turn', at |-> 1]>> /\ verdict' = "searching"
           ELSE calls' = <<>> /\ verdict' = "paired"
    PROVE  MatchInv'
<1>0. Len(Declared)' \in Nat /\ Len(Observed)' \in Nat
  BY QuestionIs DEF Declared, Observed
<1>1. CASE turn' <= Len(Declared)'
  <2>1. /\ calls' = <<[gpu |-> turn', at |-> 1]>> /\ verdict' = "searching"
        /\ turn' \in 1 .. Len(Declared)'
    BY <1>0, <1>1
  <2>2. [gpu |-> turn', at |-> 1] \in Frames'
    BY <1>0, <2>1 DEF Frames
  <2>3. calls' \in Seq(Frames') /\ calls' # <<>> /\ Len(calls') = 1
        /\ calls'[1].gpu = turn' /\ calls'[1].at = 1
    BY <2>1, <2>2
  <2>4. CallsRight'
    BY <2>3 DEF CallsRight
  <2>5. VisitedOwned' /\ Reached' = {turn'}
    BY DEF VisitedOwned, Reached
  <2>6. NothingSkipped'
    BY <2>3, <2>5 DEF NothingSkipped, Places
  <2>7. SearchRight'
    BY <2>1, <2>4, <2>5, <2>6 DEF SearchRight
  <2> QED BY <2>1, <2>7 DEF MatchInv, VerdictRight
<1>2. CASE ~(turn' <= Len(Declared)')
  <2>1. turn' = Len(Declared)' + 1 /\ verdict' = "paired"
    BY <1>0, <1>2
  <2>2. /\ \A j \in DOMAIN question'[2] :
              ownerOf'[j] # 0 => Fits(question'[1][ownerOf'[j]], question'[2][j])
        /\ \A i \in 1 .. Len(question'[1]) : \E j \in DOMAIN question'[2] : ownerOf'[j] = i
    <3>1. DOMAIN question'[2] = Places'
      BY QuestionIs DEF Places, Observed
    <3>2. turn' - 1 = Len(question'[1])
      BY <1>0, <2>1 DEF Declared
    <3> QED BY <3>1, <3>2 DEF OwnersRight, Declared, Observed
  <2>3. Pairable(question'[1], question'[2])
    BY <2>2, AllPaired
  <2> QED BY <2>1, <2>3 DEF MatchInv, VerdictRight, Declared, Observed
<1> QED BY <1>1, <1>2

LEMMA MatchBegins == MatchInit => MatchInv
  BY DEF MatchInit, MatchInv, VerdictRight

LEMMA AnswerIs ==
    ASSUME SearchRight, ReturnsFalse, Len(calls) = 1
    PROVE  MatchInv' /\ verdict' = "unpaired"
<1>1. ~Pairable(Declared, Observed)
  BY NothingLeft DEF ReturnsFalse
<1>2. verdict' = "unpaired" /\ UNCHANGED <<Declared, Observed>>
  BY DEF ReturnsFalse, Declared, Observed
<1> QED BY <1>1, <1>2 DEF MatchInv, VerdictRight

LEMMA TakesKeeps ==
    ASSUME SearchRight, TakesFree
    PROVE  MatchInv' /\ turn' > turn
<1>1. /\ turn \in 1 .. Len(Declared) /\ Len(Declared) \in Nat /\ question \in PairingQuestions
  BY RunningIs DEF SearchRight
<1>2. /\ turn' = turn + 1 /\ visited' = {} /\ question' = question /\ Len(Declared)' = Len(Declared)
      /\ IF turn + 1 <= Len(Declared)
         THEN calls' = <<[gpu |-> turn + 1, at |-> 1]>> /\ verdict' = "searching"
         ELSE calls' = <<>> /\ verdict' = "paired"
  BY DEF TakesFree, Turn, Declared
<1>3. turn' \in 1 .. Len(Declared)' + 1 /\ turn' > turn
  BY <1>1, <1>2
<1> QED BY <1>1, <1>2, <1>3, PathTurned, TurnBegins

LEMMA MatchBeginsSearch ==
    ASSUME NEW q \in PairingQuestions, MatchDeclaration(q)
    PROVE  MatchInv'
<1>0. /\ Len(q[1]) \in Nat /\ Len(q[2]) \in Nat /\ DOMAIN q[2] = 1 .. Len(q[2])
  BY QuestionIs
<1>1. /\ question' = q /\ turn' = 1 /\ visited' = {}
      /\ Declared' = q[1] /\ Observed' = q[2] /\ Places' = DOMAIN q[2]
      /\ ownerOf' = [j \in Places' |-> 0]
      /\ IF 1 <= Len(q[1])
         THEN calls' = <<[gpu |-> 1, at |-> 1]>> /\ verdict' = "searching"
         ELSE calls' = <<>> /\ verdict' = "paired"
  BY <1>0 DEF MatchDeclaration, Turn, Declared, Observed, Places
<1>2. OwnersRight(turn)'
  BY <1>0, <1>1 DEF OwnersRight
<1>3. turn' \in 1 .. Len(Declared)' + 1
  BY <1>0, <1>1
<1> QED BY <1>1, <1>2, <1>3, TurnBegins

\* What PairingFound says of one step.
StepAdvances ==
    verdict = "searching" => /\ SearchBounded
                             /\ verdict' = "searching" => SearchAdvances

LEMMA MatchStep ==
    ASSUME MatchInv, [MatchNext]_matchVars
    PROVE  MatchInv' /\ [StepAdvances]_matchVars
<1>1. CASE UNCHANGED matchVars
  BY <1>1 DEF matchVars, MatchInv, VerdictRight, SearchRight, OwnersRight, CallsRight,
     VisitedOwned, NothingSkipped, Reached, Places, Frames, Declared, Observed
<1>2. ASSUME NEW q \in PairingQuestions, MatchDeclaration(q)
      PROVE  MatchInv' /\ StepAdvances
  BY <1>2, MatchBeginsSearch DEF MatchDeclaration, StepAdvances
<1>3. CASE Reset
  BY <1>3 DEF Reset, MatchInv, VerdictRight, StepAdvances
<1>4. ASSUME LooksAtNext \/ AsksOwner \/ TakesFree \/ ReturnsFalse
      PROVE  MatchInv' /\ StepAdvances
  <2>0. verdict = "searching"
    BY <1>4 DEF LooksAtNext, AsksOwner, TakesFree, ReturnsFalse
  <2>1. SearchRight /\ SearchBounded
    <3>1. SearchRight
      BY <2>0 DEF MatchInv
    <3> QED BY <3>1, RunningIs DEF SearchRight, VisitedOwned, Places, SearchBounded
  <2>2. CASE LooksAtNext
    <3>1. SearchRight' /\ SearchAdvances /\ verdict' = "searching"
      BY <2>0, <2>1, <2>2, NextKeeps DEF LooksAtNext
    <3> QED BY <2>1, <3>1 DEF MatchInv, VerdictRight, StepAdvances
  <2>3. CASE AsksOwner
    <3>1. SearchRight' /\ SearchAdvances /\ verdict' = "searching"
      BY <2>0, <2>1, <2>3, AskKeeps DEF AsksOwner
    <3> QED BY <2>1, <3>1 DEF MatchInv, VerdictRight, StepAdvances
  <2>4. CASE TakesFree
    BY <2>1, <2>4, TakesKeeps DEF StepAdvances, SearchAdvances
  <2>5. CASE ReturnsFalse /\ Len(calls) = 1
    BY <2>1, <2>5, AnswerIs DEF StepAdvances
  <2>6. CASE ReturnsFalse /\ Len(calls) # 1
    <3>1. SearchRight' /\ SearchAdvances /\ verdict' = "searching"
      BY <2>0, <2>1, <2>6, ReturnKeeps DEF ReturnsFalse
    <3> QED BY <2>1, <3>1 DEF MatchInv, VerdictRight, StepAdvances
  <2> QED BY <1>4, <2>2, <2>3, <2>4, <2>5, <2>6
<1> QED BY <1>1, <1>2, <1>3, <1>4 DEF MatchNext

-----------------------------------------------------------------------------
(* The pool.                                                               *)

\* A kernel is asked a question of its own.
AskedFrom ==
    /\ focus = "gpus" /\ asked # None => asked \in GpuQuestions
    /\ focus = "reassignment" /\ asked # None => asked \in ReassignmentQuestions

PoolInv ==
    /\ AskedFrom
    /\ HeartbeatInv
    /\ NeighborInv
    /\ EvidenceInv
    /\ SubmissionInv
    /\ InventoryInv
    /\ MatchInv
    /\ PlacementInv

LEMMA PoolBegins == Init => PoolInv
<1> SUFFICES ASSUME Init
             PROVE  PoolInv
  OBVIOUS
<1>1. asked = None /\ HeartbeatInit /\ NeighborInit /\ EvidenceInit /\ SubmissionInit
      /\ InventoryInit /\ MatchInit /\ PlacementInit
  BY DEF Init
<1>2. AskedFrom
  BY <1>1 DEF AskedFrom
<1> QED BY <1>1, <1>2, HeartbeatBegins, NeighborBegins, EvidenceBegins, SubmissionBegins,
        InventoryBegins, MatchBegins, PlacementBegins DEF PoolInv

\* A step of the pool is a step of each part.
LEMMA PoolStepsAreTheirs ==
    ASSUME [Next]_poolVars
    PROVE  /\ [HeartbeatNext]_hbVars
           /\ [NeighborNext]_nbVars
           /\ [EvidenceNext]_evVars
           /\ [SubmissionNext]_subVars
           /\ [InventoryNext]_invVars
           /\ [MatchNext]_matchVars
           /\ [PlacementNext]_plVars
           /\ UNCHANGED <<focus, asked>> \/ Ask \/ Answer
<1>1. CASE UNCHANGED poolVars
  BY <1>1 DEF poolVars
<1>2. CASE Next
  BY <1>2 DEF Next, Ask, Answer, OthersStay
<1> QED BY <1>1, <1>2

LEMMA PoolStep ==
    ASSUME PoolInv, [Next]_poolVars
    PROVE  PoolInv'
<1>1. HeartbeatInv' /\ NeighborInv' /\ EvidenceInv' /\ SubmissionInv' /\ InventoryInv'
      /\ MatchInv' /\ PlacementInv'
  BY PoolStepsAreTheirs, HeartbeatStep, NeighborStep, EvidenceStep, SubmissionStep,
     InventoryStep, MatchStep, PlacementStep DEF PoolInv
<1>2. AskedFrom'
  <2>1. CASE UNCHANGED <<focus, asked>>
    BY <2>1 DEF PoolInv, AskedFrom
  <2>2. CASE Answer
    BY <2>2 DEF Answer, AskedFrom
  <2>3. CASE Ask
    <3>1. asked' \in Questions(focus) /\ focus' = focus
      BY <2>3 DEF Ask
    <3>2. /\ focus = "gpus" => Questions(focus) = GpuQuestions
          /\ focus = "reassignment" => Questions(focus) = ReassignmentQuestions
      BY DEF Questions
    <3> QED BY <3>1, <3>2 DEF AskedFrom
  <2> QED BY <2>1, <2>2, <2>3, PoolStepsAreTheirs
<1> QED BY <1>1, <1>2 DEF PoolInv

LEMMA PoolInvariant == Spec => []PoolInv
<1> QED BY PoolBegins, PoolStep, PTL DEF Spec

\* A node whose newest observation contradicts its declaration stays out of
\* placement, in whatever order its hellos arrive, and its freshness is never of
\* the future (inventory_store.rs:613-645).
THEOREM ContradictedExcluded == Spec => []ContradictedNodeExcluded
<1>1. PoolInv => ContradictedNodeExcluded
  BY InventoryExcludes DEF PoolInv
<1> QED BY <1>1, PoolInvariant, PTL

\* The stores of observations, evidence and submissions tell the same whatever the
\* order and the number of arrivals: a node's heartbeat is the one that the
\* classification selects, a pair's report is the newest its device ever sent although
\* rows are pushed out at the limit, what was answered as stored is read back, and a
\* node leaves an attempt by the release of its own report only
\* (node_liveness_store.rs:499-505, neighbor_report_store.rs:1-60,
\* reservation_release.rs:383-444, job_store.rs:679-721).
THEOREM ObservationsKept == Spec => []ObservationsNeverGoBack
<1>1. PoolInv => ObservationsNeverGoBack
  BY HeartbeatsKept, ReportsKept, EvidenceIsKept
     DEF PoolInv, ObservationsNeverGoBack, SubmissionInv
<1> QED BY <1>1, PoolInvariant, PTL

\* The filter, the ranking and the scope of the grant agree on every finite list of
\* GPUs, whatever is unknown of them, but for the ids and the sums: with ids that
\* the inventory takes, a node that the filter lets through stops the ranking only by
\* a sum that does not fit, and is outside the scope only by white space around an id
\* (filter.rs:193-311, rank.rs:149-281, scope.rs:194-387, inventory_store.rs:985-1010).
THEOREM KernelsAlwaysAgree == Spec => []KernelsAgree
<1>1. PoolInv => KernelsAgree
  <2> SUFFICES ASSUME PoolInv, focus = "gpus", asked # None
               PROVE  KernelsAgree
    BY DEF KernelsAgree
  <2> DEFINE gpus == asked[1]
             job == asked[2]
             node == WithResources(gpus)
             needs == WithNeeds(job)
  <2>1. asked \in GpuQuestions
    BY DEF PoolInv, AskedFrom
  <2>2. EvaluateGpus(gpus, job) <=> FactsSuffice(gpus, job)
    BY <2>1, FilterIs
  <2>3. Rankable(node, needs) <=>
            /\ FactsSuffice(gpus, job)
            /\ NoneBlank(gpus) /\ IdsDiffer(gpus)
            /\ SumFits(gpus, needs)
    BY QuestionsAssumption, RankableIs
  <2>4. InScope(gpus, job, OpenScope) <=> FactsSuffice(gpus, job) /\ IdsCanonical(gpus)
    BY <2>1, ScopeIs
  <2>5. IdsCanonical(gpus) <=> /\ ValidateInventory(gpus)
                               /\ ~ \E g \in gpus : g.id \in PaddedIds
    BY DEF IdsCanonical, ValidateInventory
  <2>6. InScope(gpus, job, OpenScope) =>
            GpuScopeCandidate(gpus, job, OpenScope) = ResourceFit(node, needs).gpus
    BY <2>1, ScopeIsRanked
  <2>7. FactsSuffice(gpus, job) => FactsKnown(gpus, job)
    BY DEF FactsSuffice
  <2> QED BY <2>2, <2>3, <2>4, <2>5, <2>6, <2>7 DEF KernelsAgree, ValidateInventory
<1> QED BY <1>1, PoolInvariant, PTL

\* A reassignment is allowed only on the word of as many machines as the policy
\* asks for, however their names are spelled and however many reports there are,
\* and with an epoch above every used one (reassignment.rs:537-603).
THEOREM QuorumAlwaysReal == Spec => []QuorumIsReal
<1>1. PoolInv => QuorumIsReal
  BY AllowedIsReal DEF PoolInv, AskedFrom, QuorumIsReal
<1> QED BY <1>1, PoolInvariant, PTL

\* The tick stages on a declaration that has the GPUs the job needs, although the
\* choice was made from an older one, and never on a machine whose owner
\* preempted its job, until the node asks for work (orchestrate.rs,
\* scheduler_tick.rs, node_liveness_store.rs:243-246).
THEOREM StagedFresh == Spec => StagedOnFreshFacts
<1>1. PoolInv /\ [Next]_poolVars =>
          [\A n \in PoolNodes :
               Staged(n) =>
                   /\ EvaluateGpus(offer[n].gpus, Need(holder'[n]))
                   /\ SilentAfter # None => ~withOwner[n]]_plVars
  BY PoolStepsAreTheirs, StagingIsFresh DEF PoolInv
<1> QED BY <1>1, PoolInvariant, PTL DEF Spec, StagedOnFreshFacts

\* The search along augmenting paths says that declared and observed GPUs can be
\* paired exactly if they can, for every number of GPUs and whatever fits what, and
\* each of its steps uses up something of which there is a finite amount
\* (gpu_attestation.rs:109-179).
THEOREM PairingAlwaysFound == Spec => PairingFound
<1>1. PoolInv /\ [Next]_poolVars =>
          [/\ VerdictRight'
           /\ verdict = "searching" => /\ SearchBounded
                                       /\ verdict' = "searching" => SearchAdvances]_matchVars
  <2> SUFFICES ASSUME PoolInv, [Next]_poolVars
               PROVE  VerdictRight' /\ [StepAdvances]_matchVars
    BY DEF StepAdvances
  <2>1. MatchInv /\ [MatchNext]_matchVars
    BY PoolStepsAreTheirs DEF PoolInv
  <2> QED BY <2>1, MatchStep DEF MatchInv
<1> QED BY <1>1, PoolInvariant, PTL DEF Spec, PairingFound

=============================================================================

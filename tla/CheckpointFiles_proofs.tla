----------------------- MODULE CheckpointFiles_proofs -----------------------
(***************************************************************************)
(* The invariants of CheckpointFiles for any attempts, steps, files,       *)
(* versions and result files, and any number of faults and deaths.         *)
(***************************************************************************)
EXTENDS CheckpointFiles, WellFoundedInduction, TLAPS

-----------------------------------------------------------------------------
(* Least and greatest numbers.                                             *)

LEMMA LeastMember ==
    ASSUME NEW S \in SUBSET Nat, S # {}
    PROVE  \E x \in S : \A y \in S : x <= y
<1>1. PICK x \in S : \A y \in S : ~ (<<y, x>> \in OpToRel(<, Nat))
  BY NatLessThanWellFounded, WFMin
<1>2. \A y \in S : ~ (y < x)
  BY <1>1 DEF OpToRel
<1> QED BY <1>2

LEMMA MinIs ==
    ASSUME NEW S \in SUBSET Nat, S # {}
    PROVE  Min(S) \in S /\ \A y \in S : Min(S) <= y
  BY LeastMember DEF Min

LEMMA GreatestMember ==
    ASSUME NEW n \in Nat, NEW S \in SUBSET Nat, S # {}, \A x \in S : x <= n
    PROVE  \E x \in S : \A y \in S : y <= x
<1> DEFINE T == {n - x : x \in S}
<1>1. T \subseteq Nat
  OBVIOUS
<1>2. PICK x \in S : TRUE
  OBVIOUS
<1>3. n - x \in T
  OBVIOUS
<1>4. PICK t \in T : \A y \in T : t <= y
  BY <1>1, <1>3, LeastMember
<1>5. PICK m \in S : t = n - m
  BY <1>4
<1>6. ASSUME NEW y \in S
      PROVE  y <= m
  <2>1. n - y \in T
    OBVIOUS
  <2>2. t <= n - y
    BY <1>4, <2>1
  <2> QED BY <1>5, <2>2
<1> QED BY <1>6

LEMMA MaxIs ==
    ASSUME NEW n \in Nat, NEW S \in SUBSET Nat, S # {}, \A x \in S : x <= n
    PROVE  Max(S) \in S /\ \A y \in S : y <= Max(S)
<1>1. \E x \in S : \A y \in S : x >= y
  BY GreatestMember
<1>2. Max(S) \in S /\ \A y \in S : Max(S) >= y
  BY <1>1 DEF Max
<1> QED BY <1>2

\* A finite set of numbers is bounded: its first k members are, for every k.
LEMMA StepsBounded == \E m \in Nat : \A s \in Step : s <= m
<1>1. PICK list \in Seq(Step) : \A s \in Step : \E n \in 1 .. Len(list) : list[n] = s
  BY BoundsAssumption DEF IsFiniteSet
<1> DEFINE N == Len(list)
           Bounded(k) == \E m \in Nat : \A n \in 1 .. k : list[n] <= m
           Open == {k \in 0 .. N : ~ Bounded(k)}
<1>2. N \in Nat /\ \A n \in 1 .. N : list[n] \in Step
  <2>1. list \in Seq(Step)
    OBVIOUS
  <2> HIDE DEF Open, Bounded
  <2> QED BY <2>1
<1>3. \A n \in 1 .. N : list[n] \in Nat
  BY <1>2, BoundsAssumption
<1>4. Open \in SUBSET Nat /\ \A k \in 0 .. N : k \in Open <=> ~ Bounded(k)
  <2> HIDE DEF Bounded, N
  <2> QED BY <1>2
<1>5. Bounded(0)
  BY 0 \in Nat
<1>6. ASSUME NEW k \in 1 .. N, Bounded(k - 1)
      PROVE  Bounded(k)
  <2>1. PICK m \in Nat : \A n \in 1 .. (k - 1) : list[n] <= m
    BY <1>6
  <2>2. list[k] \in Nat
    BY <1>3
  <2> HIDE DEF N, Open
  <2>3. PICK b \in Nat : m <= b /\ list[k] <= b
    <3>1. \A x, y \in Nat : \E z \in Nat : x <= z /\ y <= z
      <4>1. \A x, y \in Nat : x + y \in Nat /\ x <= x + y /\ y <= x + y
        OBVIOUS
      <4> QED BY <4>1
    <3> HIDE DEF Bounded
    <3> QED BY <2>2, <3>1
  <2>4. ASSUME NEW n \in 1 .. k
        PROVE  list[n] <= b
    <3>1. CASE n = k
      BY <2>3, <3>1
    <3>2. CASE n # k
      <4>1. N \in Nat /\ k \in Nat /\ k <= N /\ n \in 1 .. N
        BY <1>2
      <4>2. n \in 1 .. (k - 1) /\ list[n] \in Nat
        BY <1>3, <3>2, <4>1
      <4>3. list[n] <= m
        BY <2>1, <4>2
      <4> QED BY <2>3, <4>2, <4>3
    <3> QED BY <3>1, <3>2
  <2> QED BY <2>4
<1> HIDE DEF Open, Bounded, N
<1>7. Open = {}
  <2> SUFFICES ASSUME Open # {}
               PROVE  FALSE
    OBVIOUS
  <2>1. PICK k \in Open : \A y \in Open : k <= y
    BY <1>4, LeastMember
  <2>2. k \in 0 .. N
    BY DEF Open
  <2>3. k # 0
    BY <1>2, <1>4, <1>5, <2>2
  <2>4. k \in 1 .. N /\ k - 1 \in 0 .. N /\ k - 1 < k
    BY <1>2, <2>2, <2>3
  <2>5. k - 1 \notin Open
    BY <1>2, <2>1, <2>4
  <2> QED BY <1>4, <1>6, <2>2, <2>4, <2>5
<1>8. Bounded(N)
  BY <1>2, <1>4, <1>7
<1>9. PICK m \in Nat : \A n \in 1 .. N : list[n] <= m
  BY <1>8 DEF Bounded
<1> QED BY <1>1, <1>9 DEF N

-----------------------------------------------------------------------------
(* Operators.                                                              *)

LEMMA Order ==
    LET n == Len(Artifacts) IN
    /\ n \in Nat /\ Len(WriteOrder) = n + 4
    /\ \A i \in 1 .. n : WriteOrder[i] = Artifacts[i] /\ WriteOrder[i] \in ArtifactSet
    /\ WriteOrder[n + 1] = "manifest" /\ WriteOrder[n + 2] = "verify"
    /\ WriteOrder[n + 3] = "LATEST" /\ WriteOrder[n + 4] = "Committed"
    /\ Position("verify") = n + 2
<1> DEFINE n == Len(Artifacts)
<1>1. Artifacts \in Seq(STRING) /\ n \in Nat
  BY ArtifactsAssumption
<1>2. Len(WriteOrder) = n + 4
  BY <1>1 DEF WriteOrder
<1>3. \A i \in 1 .. n : WriteOrder[i] = Artifacts[i] /\ WriteOrder[i] \in ArtifactSet
  BY <1>1 DEF WriteOrder, ArtifactSet
<1>4. /\ WriteOrder[n + 1] = "manifest" /\ WriteOrder[n + 2] = "verify"
      /\ WriteOrder[n + 3] = "LATEST" /\ WriteOrder[n + 4] = "Committed"
  BY <1>1 DEF WriteOrder
<1> HIDE DEF n
<1>5. \A i \in 1 .. Len(WriteOrder) : WriteOrder[i] = "verify" <=> i = n + 2
  <2> SUFFICES ASSUME NEW i \in 1 .. Len(WriteOrder)
               PROVE  WriteOrder[i] = "verify" <=> i = n + 2
    OBVIOUS
  <2>1. CASE i \in 1 .. n
    BY <1>1, <1>3, <2>1, ArtifactsAssumption
  <2>2. CASE i \in {n + 1, n + 2, n + 3, n + 4}
    BY <1>1, <1>4, <2>2
  <2> QED BY <1>1, <1>2, <2>1, <2>2
<1>6. n + 2 \in 1 .. Len(WriteOrder)
  BY <1>1, <1>2
<1>7. Position("verify") = n + 2
  BY <1>5, <1>6 DEF Position
<1> QED BY <1>1, <1>2, <1>3, <1>4, <1>7 DEF n

LEMMA VersionIs ==
    ASSUME NEW c \in Ckpt, NEW f \in File, source[c] \in Content
    PROVE  /\ Version(c, f) \in 0 .. MaxVersion
           /\ Version(c, f) > 0 => <<f, Version(c, f)>> \in source[c]
           /\ Version(c, f) = 0 => \A e \in source[c] : e[1] # f
           /\ \A e \in source[c] : e[1] = f => e[2] <= Version(c, f)
<1> DEFINE these == {x \in source[c] : x[1] = f}
           S == {0} \cup {e[2] : e \in these}
<1>1. MaxVersion \in Nat /\ \A e \in source[c] : e \in File \X (1 .. MaxVersion)
  BY BoundsAssumption DEF Content
<1>2. S \in SUBSET Nat /\ S # {} /\ \A x \in S : x <= MaxVersion
  BY <1>1
<1>3. Version(c, f) = Max(S)
  BY DEF Version
<1>4. Max(S) \in S /\ \A y \in S : y <= Max(S)
  <2> HIDE DEF S
  <2> QED BY <1>1, <1>2, MaxIs
<1>5. \A e \in source[c] : e[1] = f => e[2] \in S
  OBVIOUS
<1>6. Max(S) # 0 => \E e \in source[c] : e[1] = f /\ e[2] = Max(S)
  BY <1>4
<1> HIDE DEF S
<1>7. Max(S) \in 0 .. MaxVersion
  <2>1. Max(S) \in Nat /\ Max(S) <= MaxVersion
    BY <1>2, <1>4
  <2> QED BY <1>1, <2>1
<1>8. Max(S) > 0 => <<f, Max(S)>> \in source[c]
  BY <1>1, <1>6, <1>7
<1>9. \A e \in source[c] : e[1] = f => e[2] <= Max(S) /\ e[2] \in 1 .. MaxVersion
  BY <1>1, <1>4, <1>5
<1>10. Max(S) = 0 => \A e \in source[c] : e[1] # f
  BY <1>1, <1>9
<1> HIDE DEF these
<1> QED BY <1>3, <1>7, <1>8, <1>9, <1>10

\* The next folder of a pass is one of those it listed.
LEMMA NextReadyIs ==
    ASSUME pub.todo \subseteq Ckpt, pub.todo # {}
    PROVE  NextReady \in pub.todo
<1> DEFINE S == {c[2] : c \in pub.todo}
<1>1. S \in SUBSET Nat /\ S # {}
  BY BoundsAssumption DEF Ckpt
<1>2. PICK s \in S : \A t \in S : s <= t
  BY <1>1, LeastMember
<1>3. PICK c \in pub.todo : c[2] = s
  BY <1>2
<1>4. \A d \in pub.todo : c[2] <= d[2]
  BY <1>2, <1>3
<1> QED BY <1>3, <1>4 DEF NextReady

\* The coordinator names a checkpoint that is signed and verifies.
LEMMA ResumePointIs ==
    ASSUME ResumePoints # {}
    PROVE  ResumePoint \in ResumePoints
<1> DEFINE S == {c[2] : c \in ResumePoints}
<1>1. PICK m \in Nat : \A s \in Step : s <= m
  BY StepsBounded
<1>2. S \subseteq Step
  BY DEF ResumePoints, list_signed_manifests, Ckpt
<1>3. S \in SUBSET Nat /\ S # {} /\ \A s \in S : s <= m
  BY <1>1, <1>2, BoundsAssumption
<1>4. PICK s \in S : \A t \in S : t <= s
  BY <1>3, GreatestMember
<1>5. PICK c \in ResumePoints : c[2] = s
  BY <1>4
<1>6. \A d \in ResumePoints : d[2] <= c[2]
  BY <1>4, <1>5
<1> QED BY <1>5, <1>6 DEF ResumePoint

-----------------------------------------------------------------------------
(* Types, and what the steps of each thread touch.                         *)

(***************************************************************************)
(* The publisher works on a folder it has listed, and stages files that    *)
(* the folder holds; the main thread works for a run.                      *)
(***************************************************************************)
PubTidy ==
    /\ pub.at = "scan" => pub.todo # {}
    /\ pub.at \in {"stage", "sign"} => pub.cur \in pub.todo
    /\ pub.todo \subseteq visible
    /\ pub.at = "stage" => pub.names \subseteq {e[1] : e \in source[pub.cur]}

AgentTidy ==
    /\ agent.at \in {"resume", "running", "writing"} => agent.run \in Run
    /\ agent.at = "writing" => agent.i \in 1 .. Len(WriteOrder)

Tidy == TypeOK /\ PubTidy /\ AgentTidy

LEMMA DoneIs ==
    ASSUME NEW p \in Publishers
    PROVE  /\ Done(p) \in Publishers /\ Done(p).at \in {"idle", "scan"}
           /\ Done(p).todo = p.todo \ {p.cur}
           /\ Done(p).at = "scan" => Done(p).todo # {}
<1> DEFINE left == p.todo \ {p.cur}
           where == Scanning(left)
<1>1. /\ left \in SUBSET Ckpt /\ where \in {"idle", "scan"}
      /\ where = "scan" => left # {}
  BY DEF Publishers, Scanning
<1>2. Done(p) = [p EXCEPT !.todo = left, !.at = where, !.cur = None,
                          !.names = {}, !.staged = {}]
  BY DEF Done
<1>3. {} \in Content
  BY DEF Content
<1> HIDE DEF left, where
<1> QED BY <1>1, <1>2, <1>3 DEF Publishers, left

LEMMA OffIs ==
    ASSUME NEW on \in {"off", "live", "final"}
    PROVE  LET p == [PubOff EXCEPT !.on = on] IN
           /\ p \in Publishers /\ p.at = "idle" /\ p.todo = {}
           /\ PubOff \in Publishers /\ PubOff.at = "idle" /\ PubOff.todo = {}
<1>1. 0 \in 0 .. FinalTries /\ {} \in Content
  BY BoundsAssumption DEF Content
<1>2. [c \in Ckpt |-> None] \in [Ckpt -> Content \cup {None}]
  OBVIOUS
<1> QED BY <1>1, <1>2 DEF PubOff, Publishers

\* A pass goes on, rests or is off: no folder is being published.
Resting(p) == /\ p.at \in {"idle", "scan"} /\ p.todo \subseteq visible
              /\ p.at = "scan" => p.todo # {}

PubTyped == pub' \in Publishers

(***************************************************************************)
(* What a step of the publisher does to its own state and to the store.    *)
(***************************************************************************)
Begins ==
    /\ pub'.at = "stage" /\ pub'.cur \in pub'.todo /\ pub'.todo = pub.todo
    /\ pub'.staged = {} /\ pub'.names = {e[1] : e \in source[pub'.cur]}
    /\ ManifestOf(pub'.cur) = {} /\ store' = store

Recovers ==
    /\ pub'.at = "sign" /\ pub'.cur \in pub'.todo /\ pub'.todo = pub.todo
    /\ \E m \in ManifestOf(pub'.cur) :
        pub'.staged = m.files /\ m.files = source[pub'.cur]
    /\ store' = store

Stages ==
    /\ pub.at = "stage" /\ pub'.at = "stage"
    /\ UNCHANGED <<pub.todo, pub.cur>>
    /\ \E f \in pub.names :
        /\ pub'.names = pub.names \ {f}
        /\ pub'.staged = pub.staged \cup {<<f, Version(pub.cur, f)>>}
        /\ store' = Written(pub.cur, Data(f, Version(pub.cur, f)))

Commits ==
    /\ pub.at = "stage" /\ pub.names = {} /\ pub'.at = "sign"
    /\ UNCHANGED <<pub.todo, pub.cur, pub.staged>>
    /\ verify_on_disk(pub.cur, pub.staged)
    /\ store' = Written(pub.cur, Manifest(pub.staged))

Rests == Resting(pub') /\ LeftInStore

Publishing ==
    \/ publish_ready_steps \/ Unstable \/ begin \/ publish_or_recover
    \/ \E f \in File : stage(f) \/ StageMismatch(f)
    \/ commit \/ StagedFileChanged \/ write_signed_manifest \/ finish
    \/ PublishFails \/ PublisherPanics

LEMMA PublishingIs ==
    ASSUME Tidy, Publishing
    PROVE  /\ PubTyped /\ OnlyPub
           /\ Begins \/ Recovers \/ Stages \/ Commits \/ Rests
<1>0. /\ pub \in Publishers /\ visible \subseteq Ckpt /\ pub.todo \subseteq visible
      /\ FinalTries \in Nat
  BY BoundsAssumption DEF Tidy, TypeOK, PubTidy
<1> USE DEF Tidy
<1>1. CASE publish_ready_steps
  <2> DEFINE left == {c \in visible : c[1] = agent.run} \ pub.published
             where == Scanning(left)
             pass == IF pub.on = "final" THEN pub.pass + 1 ELSE pub.pass
  <2>1. /\ pub' = [pub EXCEPT !.todo = left, !.at = where, !.pass = pass]
        /\ OnlyPub /\ UNCHANGED store
    BY <1>1 DEF publish_ready_steps
  <2>2. /\ left \in SUBSET Ckpt /\ left \subseteq visible
        /\ where \in {"idle", "scan"} /\ (where = "scan" => left # {})
    BY <1>0 DEF Scanning
  <2>3. pass \in 0 .. FinalTries
    BY <1>0, <1>1 DEF publish_ready_steps, Pass, Publishers
  <2> HIDE DEF left, where, pass
  <2>4. pub' \in Publishers /\ Resting(pub')
    BY <1>0, <2>1, <2>2, <2>3 DEF Publishers, Resting
  <2> QED BY <2>1, <2>4 DEF PubTyped, Rests, LeftInStore
<1>2. CASE Unstable
  <2> DEFINE c == NextReady
             p == [pub EXCEPT !.seen[c] = source[c], !.cur = c]
  <2>1. c \in pub.todo /\ c \in Ckpt
    BY <1>0, <1>2, NextReadyIs DEF Unstable, PubTidy
  <2>2. source[c] \in Content
    BY <2>1 DEF TypeOK
  <2> HIDE DEF c
  <2>3. p \in Publishers /\ p.todo = pub.todo
    BY <1>0, <2>1, <2>2 DEF Publishers
  <2>4. pub' = Done(p) /\ OnlyPub /\ UNCHANGED store
    BY <1>2 DEF Unstable, c
  <2> HIDE DEF p
  <2> QED BY <1>0, <2>3, <2>4, DoneIs DEF PubTyped, Rests, Resting, LeftInStore
<1>3. CASE begin
  <2> DEFINE c == NextReady
             listed == {e[1] : e \in source[c]}
  <2>1. c \in pub.todo /\ c \in Ckpt
    BY <1>0, <1>3, NextReadyIs DEF begin, PubTidy
  <2>2. listed \in SUBSET File /\ {} \in Content
    BY <2>1 DEF TypeOK, Content
  <2>3. /\ pub' = [pub EXCEPT !.cur = c, !.at = "stage", !.staged = {},
                              !.names = listed]
        /\ OnlyPub /\ UNCHANGED store /\ ManifestOf(c) = {}
    BY <1>3 DEF begin, manifest_present
  <2>4. listed = {e[1] : e \in source[c]}
    OBVIOUS
  <2> HIDE DEF c, listed
  <2>5. /\ pub' \in Publishers /\ pub'.at = "stage" /\ pub'.cur = c
        /\ pub'.todo = pub.todo /\ pub'.staged = {} /\ pub'.names = listed
    BY <1>0, <2>1, <2>2, <2>3 DEF Publishers
  <2> QED BY <2>1, <2>3, <2>4, <2>5 DEF PubTyped, Begins
<1>4. CASE publish_or_recover
  <2> DEFINE c == NextReady
  <2>1. c \in pub.todo /\ c \in Ckpt
    BY <1>0, <1>4, NextReadyIs DEF publish_or_recover, PubTidy
  <2>2. PICK m \in ManifestOf(c) :
            pub' = IF verify_on_disk(c, m.files) /\ m.files = source[c]
                   THEN [pub EXCEPT !.cur = c, !.at = "sign", !.staged = m.files]
                   ELSE Done([pub EXCEPT !.cur = c])
    BY <1>4 DEF publish_or_recover
  <2>3. OnlyPub /\ UNCHANGED store
    BY <1>4 DEF publish_or_recover
  <2> HIDE DEF c
  <2>4. source[c] \in Content
    BY <2>1 DEF TypeOK
  <2>5. CASE verify_on_disk(c, m.files) /\ m.files = source[c]
    <3>1. pub' = [pub EXCEPT !.cur = c, !.at = "sign", !.staged = m.files]
      BY <2>2, <2>5
    <3>2. /\ pub' \in Publishers /\ pub'.at = "sign" /\ pub'.cur = c
          /\ pub'.todo = pub.todo /\ pub'.staged = m.files
      BY <1>0, <2>1, <2>4, <2>5, <3>1 DEF Publishers
    <3> QED BY <2>1, <2>2, <2>3, <2>5, <3>2 DEF PubTyped, Recovers
  <2>6. CASE ~ (verify_on_disk(c, m.files) /\ m.files = source[c])
    <3>1. pub' = Done([pub EXCEPT !.cur = c])
      BY <2>2, <2>6
    <3>2. [pub EXCEPT !.cur = c] \in Publishers /\ [pub EXCEPT !.cur = c].todo = pub.todo
      BY <1>0, <2>1 DEF Publishers
    <3> QED BY <1>0, <2>3, <3>1, <3>2, DoneIs
            DEF PubTyped, Rests, Resting, LeftInStore
  <2> QED BY <2>5, <2>6
<1>5. CASE \E f \in File : stage(f)
  <2>1. PICK f \in File : stage(f)
    BY <1>5
  <2> DEFINE v == Version(pub.cur, f)
  <2>2. /\ pub.at = "stage" /\ pub.names # {} /\ f = Min(pub.names)
        /\ store' = Written(pub.cur, Data(f, v)) /\ OnlyPub
        /\ pub' = [pub EXCEPT !.names = @ \ {f}, !.staged = @ \cup {<<f, v>>}]
    BY <2>1 DEF stage
  <2>3. f \in pub.names /\ pub.cur \in Ckpt
    <3>1. pub.names \in SUBSET Nat /\ pub.cur \in Ckpt
      BY <1>0, <2>2, BoundsAssumption DEF PubTidy, Publishers
    <3> QED BY <2>2, <3>1, MinIs
  <2>4. v \in 1 .. MaxVersion
    <3>1. source[pub.cur] \in Content /\ \E e \in source[pub.cur] : e[1] = f
      BY <2>2, <2>3 DEF TypeOK, PubTidy
    <3>2. v \in 0 .. MaxVersion /\ v # 0
      BY <2>3, <3>1, VersionIs
    <3> QED BY <3>2, BoundsAssumption
  <2> DEFINE more == pub.staged \cup {<<f, v>>}
  <2>5. more \in Content /\ pub.names \ {f} \in SUBSET File
    BY <1>0, <2>4 DEF Publishers, Content
  <2>6. pub' = [pub EXCEPT !.names = pub.names \ {f}, !.staged = more]
    BY <1>0, <2>2 DEF Publishers
  <2> HIDE DEF more, v
  <2>7. /\ pub' \in Publishers /\ pub'.at = pub.at /\ pub'.todo = pub.todo
        /\ pub'.cur = pub.cur /\ pub'.names = pub.names \ {f} /\ pub'.staged = more
    BY <1>0, <2>5, <2>6 DEF Publishers
  <2> QED BY <2>2, <2>3, <2>7 DEF PubTyped, Stages, v, more
<1>6. CASE (\E f \in File : StageMismatch(f)) \/ StagedFileChanged
  <2>1. pub' = Done(pub) /\ OnlyPub /\ UNCHANGED store
    BY <1>6 DEF StageMismatch, StagedFileChanged
  <2> QED BY <1>0, <2>1, DoneIs DEF PubTyped, Rests, Resting, LeftInStore
<1>7. CASE commit
  <2>1. /\ pub.at = "stage" /\ pub.names = {} /\ verify_on_disk(pub.cur, pub.staged)
        /\ store' = Written(pub.cur, Manifest(pub.staged)) /\ OnlyPub
        /\ pub' = [pub EXCEPT !.at = "sign"]
    BY <1>7 DEF commit
  <2>2. /\ pub' \in Publishers /\ pub'.at = "sign" /\ pub'.todo = pub.todo
        /\ pub'.cur = pub.cur /\ pub'.staged = pub.staged
    BY <1>0, <2>1 DEF Publishers
  <2> QED BY <2>1, <2>2 DEF PubTyped, Commits
<1>8. CASE write_signed_manifest
  <2> DEFINE q == Done(pub)
             done == q.published \cup {pub.cur}
  <2>1. /\ pub.at = "sign" /\ store' = Written(pub.cur, Signed(pub.staged)) /\ OnlyPub
        /\ pub' = [q EXCEPT !.published = done, !.seen[pub.cur] = None]
    BY <1>8 DEF write_signed_manifest
  <2>2. /\ q \in Publishers /\ q.at \in {"idle", "scan"}
        /\ q.todo = pub.todo \ {pub.cur} /\ (q.at = "scan" => q.todo # {})
    BY <1>0, DoneIs
  <2>3. pub.cur \in Ckpt
    BY <1>0, <2>1 DEF PubTidy
  <2>4. done \in SUBSET Ckpt
    BY <2>2, <2>3 DEF Publishers
  <2> HIDE DEF q, done
  <2>5. /\ pub' \in Publishers /\ pub'.at = q.at /\ pub'.todo = q.todo
    BY <2>1, <2>2, <2>3, <2>4 DEF Publishers
  <2>6. Resting(pub')
    BY <1>0, <2>2, <2>5 DEF Resting
  <2>7. LeftInStore
    BY <2>1 DEF LeftInStore, Writes, MayWrite, Signed
  <2> QED BY <2>1, <2>5, <2>6, <2>7 DEF PubTyped, Rests
<1>9. CASE finish
  <2>1. /\ pub.at = "idle" /\ pub' = [pub EXCEPT !.on = "final"] /\ OnlyPub
        /\ UNCHANGED store
    BY <1>9 DEF finish
  <2>2. pub' \in Publishers /\ pub'.at = "idle" /\ pub'.todo = pub.todo
    BY <1>0, <2>1 DEF Publishers
  <2> QED BY <1>0, <2>1, <2>2 DEF PubTyped, Rests, Resting, LeftInStore
<1>10. CASE PublishFails
  <2>1. LeftInStore /\ pub' = Done(pub) /\ OnlyPub
    BY <1>10 DEF PublishFails
  <2> QED BY <1>0, <2>1, DoneIs DEF PubTyped, Rests, Resting
<1>11. CASE PublisherPanics
  <2>1. pub' = [PubOff EXCEPT !.on = "final"] /\ OnlyPub /\ UNCHANGED store
    BY <1>11 DEF PublisherPanics
  <2> QED BY <2>1, OffIs DEF PubTyped, Rests, Resting, LeftInStore
<1> QED BY <1>1, <1>2, <1>3, <1>4, <1>5, <1>6, <1>7, <1>8, <1>9, <1>10, <1>11
        DEF Publishing

(***************************************************************************)
(* The files a step of the publication, whole or cut short, can leave.     *)
(***************************************************************************)
StoreStages ==
    /\ pub.at = "stage"
    /\ \E f \in pub.names : store' = Written(pub.cur, Data(f, Version(pub.cur, f)))
StoreCommits ==
    /\ pub.at = "stage" /\ pub.names = {} /\ verify_on_disk(pub.cur, pub.staged)
    /\ store' = Written(pub.cur, Manifest(pub.staged))
StoreSigns == pub.at = "sign" /\ store' = Written(pub.cur, Signed(pub.staged))

LEMMA CurIs ==
    ASSUME Tidy, pub.at \in {"stage", "sign"}
    PROVE  /\ pub.cur \in Ckpt /\ pub.cur \in visible /\ pub.staged \in Content
           /\ source[pub.cur] \in Content
<1>1. pub \in Publishers /\ pub.cur \in visible /\ visible \subseteq Ckpt
  BY DEF Tidy, TypeOK, PubTidy
<1>2. pub.cur \in Ckpt /\ pub.staged \in Content
  BY <1>1 DEF Publishers
<1> QED BY <1>1, <1>2 DEF Tidy, TypeOK

\* A file that is listed and not yet staged has a version in the folder.
LEMMA StageVersion ==
    ASSUME Tidy, pub.at = "stage", NEW f \in pub.names
    PROVE  /\ f \in File /\ Version(pub.cur, f) \in 1 .. MaxVersion
           /\ <<f, Version(pub.cur, f)>> \in source[pub.cur]
<1>1. pub.cur \in Ckpt /\ source[pub.cur] \in Content
  BY CurIs
<1>2. f \in File
  BY DEF Tidy, TypeOK, Publishers
<1>3. \E e \in source[pub.cur] : e[1] = f
  BY DEF Tidy, PubTidy
<1>4. Version(pub.cur, f) \in 0 .. MaxVersion /\ Version(pub.cur, f) # 0
  BY <1>1, <1>2, <1>3, VersionIs
<1>5. Version(pub.cur, f) \in 1 .. MaxVersion /\ Version(pub.cur, f) > 0
  BY <1>4, BoundsAssumption
<1> QED BY <1>1, <1>2, <1>5, VersionIs

LEMMA StoreStep ==
    ASSUME Tidy, Publishing \/ LeftInStore
    PROVE  store' = store \/ StoreStages \/ StoreCommits \/ StoreSigns
<1>1. CASE LeftInStore
  <2>1. CASE \E n \in Writes : MayWrite(n) /\ store' = Written(pub.cur, n)
    <3>1. PICK n \in Writes : MayWrite(n) /\ store' = Written(pub.cur, n)
      BY <2>1
    <3>2. CASE pub.at = "stage" /\ pub.names # {}
      <4>1. Min(pub.names) \in pub.names
        <5>1. pub.names \in SUBSET Nat
          <6>1. pub \in Publishers
            BY DEF Tidy, TypeOK
          <6> QED BY <6>1, BoundsAssumption DEF Publishers
        <5> QED BY <3>2, <5>1, MinIs
      <4>2. n = Data(Min(pub.names), Version(pub.cur, Min(pub.names)))
        BY <3>1, <3>2 DEF Writes
      <4> QED BY <3>1, <3>2, <4>1, <4>2 DEF StoreStages
    <3>3. CASE pub.at = "stage" /\ pub.names = {}
      <4>1. n = Manifest(pub.staged)
        BY <3>1, <3>3 DEF Writes
      <4>2. verify_on_disk(pub.cur, pub.staged)
        BY <3>1, <4>1 DEF MayWrite, Manifest
      <4> QED BY <3>1, <3>3, <4>1, <4>2 DEF StoreCommits
    <3>4. CASE pub.at = "sign"
      BY <3>1, <3>4 DEF Writes, StoreSigns
    <3> QED BY <3>1, <3>2, <3>3, <3>4 DEF Writes
  <2> QED BY <1>1, <2>1 DEF LeftInStore
<1>2. CASE Publishing
  <2>1. Begins \/ Recovers \/ Stages \/ Commits \/ Rests
    BY <1>2, PublishingIs
  <2>2. CASE Begins \/ Recovers
    BY <2>2 DEF Begins, Recovers
  <2>3. CASE Stages
    BY <2>3 DEF Stages, StoreStages
  <2>4. CASE Commits
    BY <2>4 DEF Commits, StoreCommits
  <2>5. CASE Rests
    BY <1>1, <2>5 DEF Rests
  <2> QED BY <2>1, <2>2, <2>3, <2>4, <2>5
<1> QED BY <1>1, <1>2

StoreTyped == store' \in [Ckpt -> SUBSET StoreName]

LEMMA StoreTypedStep ==
    ASSUME Tidy, Publishing \/ LeftInStore
    PROVE  StoreTyped
<1>1. store \in [Ckpt -> SUBSET StoreName]
  BY DEF Tidy, TypeOK
<1>2. ASSUME NEW n \in StoreName, pub.cur \in Ckpt, store' = Written(pub.cur, n)
      PROVE  StoreTyped
  BY <1>1, <1>2 DEF StoreTyped, Written
<1>3. CASE StoreStages
  <2>1. PICK f \in pub.names :
            store' = Written(pub.cur, Data(f, Version(pub.cur, f)))
    BY <1>3 DEF StoreStages
  <2>2. pub.cur \in Ckpt /\ f \in File /\ Version(pub.cur, f) \in 1 .. MaxVersion
    BY <1>3, CurIs, StageVersion DEF StoreStages
  <2>3. Data(f, Version(pub.cur, f)) \in StoreName
    BY <2>2 DEF StoreName
  <2> QED BY <1>2, <2>1, <2>2, <2>3
<1>4. CASE StoreCommits \/ StoreSigns
  <2>1. pub.cur \in Ckpt /\ pub.staged \in Content
    BY <1>4, CurIs DEF StoreCommits, StoreSigns
  <2>2. Manifest(pub.staged) \in StoreName /\ Signed(pub.staged) \in StoreName
    BY <2>1 DEF StoreName
  <2> QED BY <1>2, <1>4, <2>1, <2>2 DEF StoreCommits, StoreSigns
<1> QED BY <1>1, <1>3, <1>4, StoreStep DEF StoreTyped

-----------------------------------------------------------------------------
(* The main thread.                                                        *)

LEMMA DirIs ==
    ASSUME NEW d \in Dir, NEW n \in LocalName
    PROVE  /\ WriteDone(d, n) \in Dir /\ LeftBehind(d, n) \subseteq Dir
           /\ gc_partial(d) \in Dir /\ [d EXCEPT !.made = TRUE] \in Dir
           /\ NoDir \in Dir
<1> DEFINE done == d.done \cup {n}
           tmp == d.tmp \cup {n}
<1>1. done \in SUBSET LocalName /\ tmp \in SUBSET LocalName
  BY DEF Dir
<1>2. WriteDone(d, n) \in Dir
  <2>1. WriteDone(d, n) = [d EXCEPT !.made = TRUE, !.done = done, !.tmp = d.tmp \ {n}]
    BY DEF WriteDone
  <2> HIDE DEF done
  <2> QED BY <1>1, <2>1 DEF Dir
<1>3. LeftBehind(d, n) = {d, [d EXCEPT !.tmp = tmp], [d EXCEPT !.done = done]}
  BY DEF LeftBehind
<1>4. [d EXCEPT !.tmp = tmp] \in Dir /\ [d EXCEPT !.done = done] \in Dir
  <2> HIDE DEF done, tmp
  <2> QED BY <1>1 DEF Dir
<1>5. NoDir \in Dir /\ [d EXCEPT !.made = TRUE] \in Dir
  BY DEF Dir, NoDir
<1>6. gc_partial(d) \in Dir
  BY <1>5 DEF Dir, gc_partial
<1> HIDE DEF done, tmp
<1> QED BY <1>2, <1>3, <1>4, <1>5, <1>6

\* What the main thread writes in its i-th step is a file until it verifies.
LEMMA ItemIs ==
    ASSUME NEW i \in 1 .. Len(WriteOrder), i < Position("verify")
    PROVE  WriteOrder[i] \in LocalName
<1> DEFINE n == Len(Artifacts)
<1>1. n \in Nat /\ i \in Nat /\ i < n + 2 /\ 1 <= i
  BY Order
<1>2. CASE i \in 1 .. n
  BY <1>2, Order DEF LocalName
<1>3. CASE i = n + 1
  BY <1>3, Order DEF LocalName
<1> QED BY <1>1, <1>2, <1>3

OutcomeTyped == outcome' \in [Run -> Outcomes]
AgentTyped == agent' \in Agents

Ends(what) ==
    /\ agent'.at = "publish" /\ agent'.run = agent.run
    /\ outcome' = [outcome EXCEPT ![agent.run] = what]
GoesOn ==
    /\ agent'.at = "writing" /\ agent'.run = agent.run
    /\ agent'.i = agent.i + 1 /\ agent'.i \in 1 .. Len(WriteOrder)
    /\ outcome' = outcome

LEMMA ResultIs ==
    ASSUME Tidy, agent.at = "writing", NEW what \in Outcomes, Result(agent.run, what)
    PROVE  AgentTyped /\ OutcomeTyped /\ Ends(what)
<1>1. agent \in Agents /\ agent.run \in Run /\ outcome \in [Run -> Outcomes]
  BY DEF Tidy, TypeOK, AgentTidy
<1> QED BY <1>1 DEF Result, AgentTyped, OutcomeTyped, Ends, Agents

LEMMA AdvanceIs ==
    ASSUME Tidy, agent.at = "writing", Advance
    PROVE  /\ AgentTyped /\ OutcomeTyped
           /\ GoesOn \/ (agent.i = Len(WriteOrder) /\ Ends("ok"))
<1>1. /\ agent \in Agents /\ agent.run \in Run /\ agent.i \in 1 .. Len(WriteOrder)
      /\ outcome \in [Run -> Outcomes] /\ "ok" \in Outcomes
  BY DEF Tidy, TypeOK, AgentTidy, Outcomes
<1>2. CASE agent.i = Len(WriteOrder)
  BY <1>1, <1>2, ResultIs DEF Advance
<1>3. CASE agent.i # Len(WriteOrder)
  <2>1. agent' = [agent EXCEPT !.i = agent.i + 1] /\ outcome' = outcome
    BY <1>3 DEF Advance
  <2>2. /\ agent.i + 1 \in 1 .. Len(WriteOrder)
        /\ agent.i + 1 \in 0 .. Len(WriteOrder)
    BY <1>1, <1>3, Order
  <2> QED BY <1>1, <2>1, <2>2 DEF AgentTyped, OutcomeTyped, GoesOn, Agents
<1> QED BY <1>2, <1>3

LocalTyped == local' \in [Run -> Dir]

ResultSteps ==
    \/ write_checkpoint_inner \/ CheckOrMark \/ replace_with_retry
    \/ FinalizationFails \/ StoreFails \/ fail_after_materialization \/ MarkerFails

\* Every step towards the result goes on or ends the run.
LEMMA ResultStepsAre ==
    ASSUME Tidy, ResultSteps
    PROVE  /\ agent.at = "writing" /\ OnlyLocal /\ (Fault \/ NoFault)
           /\ AgentTyped /\ OutcomeTyped /\ LocalTyped
           /\ latest' \in {latest, agent.run}
           /\ GoesOn \/ (agent'.at = "publish" /\ agent'.run = agent.run)
<1>0. /\ agent.at = "writing" /\ OnlyLocal /\ (Fault \/ NoFault)
      /\ latest' \in {latest, agent.run}
  BY DEF ResultSteps, write_checkpoint_inner, CheckOrMark, replace_with_retry,
         FinalizationFails, StoreFails, fail_after_materialization, MarkerFails
<1>1. /\ agent.run \in Run /\ agent.i \in 1 .. Len(WriteOrder)
      /\ local \in [Run -> Dir] /\ local[agent.run] \in Dir
  BY <1>0 DEF Tidy, TypeOK, AgentTidy
<1>2. ASSUME NEW d \in Dir, local' = [local EXCEPT ![agent.run] = d]
      PROVE  LocalTyped
  BY <1>1, <1>2 DEF LocalTyped
<1>3. ASSUME UNCHANGED local
      PROVE  LocalTyped
  BY <1>1, <1>3 DEF LocalTyped
<1>4. ASSUME Advance
      PROVE  /\ AgentTyped /\ OutcomeTyped
             /\ GoesOn \/ (agent'.at = "publish" /\ agent'.run = agent.run)
  BY <1>0, <1>4, AdvanceIs DEF Ends
<1>5. ASSUME NEW what \in Outcomes, Result(agent.run, what)
      PROVE  /\ AgentTyped /\ OutcomeTyped
             /\ agent'.at = "publish" /\ agent'.run = agent.run
  BY <1>0, <1>5, ResultIs DEF Ends
<1>6. CASE write_checkpoint_inner
  <2>1. Advance /\ local' = [local EXCEPT ![agent.run] = WriteDone(@, Item)]
    BY <1>6 DEF write_checkpoint_inner
  <2>2. WriteDone(local[agent.run], Item) \in Dir
    BY <1>1, <1>6, DirIs DEF write_checkpoint_inner
  <2>3. LocalTyped
    BY <1>1, <1>2, <2>1, <2>2
  <2> QED BY <1>0, <1>4, <2>1, <2>3
<1>7. CASE CheckOrMark \/ replace_with_retry
  <2>1. Advance /\ UNCHANGED local
    BY <1>7 DEF CheckOrMark, replace_with_retry
  <2> QED BY <1>0, <1>3, <1>4, <2>1
<1>8. CASE FinalizationFails
  <2>1. Result(agent.run, "store_failed") /\ UNCHANGED local
    BY <1>8 DEF FinalizationFails
  <2> QED BY <1>0, <1>3, <1>5, <2>1 DEF Outcomes
<1>9. CASE StoreFails
  <2>1. Result(agent.run, "store_failed") /\ agent.i < Position("verify")
    BY <1>9 DEF StoreFails
  <2>2. PICK d \in LeftBehind(local[agent.run], Item) :
            local' = [local EXCEPT ![agent.run] = d]
    BY <1>9 DEF StoreFails
  <2>3. Item \in LocalName
    BY <1>1, <2>1, ItemIs DEF Item
  <2>4. d \in Dir
    BY <1>1, <2>2, <2>3, DirIs
  <2>5. LocalTyped
    BY <1>2, <2>2, <2>4
  <2> QED BY <1>0, <1>5, <2>1, <2>5 DEF Outcomes
<1>10. CASE fail_after_materialization
  <2> DEFINE what == IF phase_publish(agent.i) THEN "publish_failed" ELSE "store_failed"
  <2>1. /\ Result(agent.run, what) /\ what \in Outcomes
        /\ local' = [local EXCEPT ![agent.run] = WriteDone(@, "failed")]
    BY <1>10 DEF fail_after_materialization, Outcomes
  <2>2. WriteDone(local[agent.run], "failed") \in Dir
    BY <1>1, DirIs DEF LocalName
  <2> HIDE DEF what
  <2>3. LocalTyped
    BY <1>1, <1>2, <2>1, <2>2
  <2> QED BY <1>0, <1>5, <2>1, <2>3
<1>11. CASE MarkerFails
  <2>1. Result(agent.run, "unmarked")
    BY <1>11 DEF MarkerFails
  <2>2. PICK d \in LeftBehind(local[agent.run], "failed") :
            local' = [local EXCEPT ![agent.run] = d]
    BY <1>11 DEF MarkerFails
  <2>3. d \in Dir
    BY <1>1, <2>2, DirIs DEF LocalName
  <2>4. LocalTyped
    BY <1>2, <2>2, <2>3
  <2> QED BY <1>0, <1>5, <2>1, <2>4 DEF Outcomes
<1> QED BY <1>6, <1>7, <1>8, <1>9, <1>10, <1>11 DEF ResultSteps

\* The steps of Next, by the thread that takes them and what they touch.
Starting ==
    \/ claim_checkpoint_root \/ collect_startup_partials \/ AgentStops
    \/ WorkloadExits \/ StartAfresh \/ PublisherEnds
Recording ==
    \E r \in Run :
        \/ startup_gc(r) \/ record_start_checkpoint(r) \/ StartFails(r)
Dying == Death \/ \E r \in Run : StartupGcStops(r)
Working == \E s \in Step : WorkloadRenames(s) \/ \E f \in File : WorkloadWrites(s, f)
Rotting == \E c \in Ckpt, f \in File, v \in 1 .. MaxVersion : Rot(c, f, v)

LEMMA NextIs ==
    ASSUME Next
    PROVE  \/ Starting \/ Recording \/ Dying \/ prepare_resume \/ ResumeRefused
           \/ Working \/ Rotting \/ Publishing \/ ResultSteps
  BY DEF Next, Starting, Recording, Dying, Working, Rotting, Publishing, ResultSteps,
         PublisherStep, ResultStep

CountTyped == faults' \in 0 .. MaxFaults /\ deaths' \in 0 .. MaxDeaths

LEMMA CountIs ==
    ASSUME TypeOK, Fault \/ NoFault \/ Dies
    PROVE  CountTyped
<1>1. faults \in 0 .. MaxFaults /\ deaths \in 0 .. MaxDeaths
  BY DEF TypeOK
<1> QED BY <1>1, BoundsAssumption DEF Fault, NoFault, Dies, CountTyped

LEMMA AgentDownIs == AgentDown \in Agents /\ AgentDown.at = "down"
<1>1. 0 \in 0 .. Len(WriteOrder)
  BY Order
<1> QED BY <1>1 DEF AgentDown, Agents

LEMMA StartingTidy ==
    ASSUME Tidy, Starting
    PROVE  Tidy'
<1>0. agent \in Agents /\ pub \in Publishers /\ AgentTidy /\ PubTidy
  BY DEF Tidy, TypeOK
<1>1. /\ UNCHANGED <<renames, source, visible, store, rot, local, latest, outcome,
                     restored>>
      /\ NoFault /\ (owned' = owned \/ owned' = TRUE)
  BY DEF Starting, claim_checkpoint_root, collect_startup_partials, AgentStops,
         WorkloadExits, StartAfresh, PublisherEnds, diskVars, recordVars
<1>2. agent' \in Agents /\ AgentTidy'
  <2>1. CASE claim_checkpoint_root
    BY <1>0, <2>1 DEF claim_checkpoint_root, Agents, AgentTidy
  <2>2. CASE collect_startup_partials
    BY <1>0, <2>2 DEF collect_startup_partials, Agents, AgentTidy
  <2>3. CASE AgentStops
    BY <2>3, AgentDownIs DEF AgentStops, AgentTidy
  <2>4. CASE WorkloadExits
    <3>1. agent' = [agent EXCEPT !.at = "writing", !.i = 1] /\ agent.run \in Run
      BY <1>0, <2>4 DEF WorkloadExits, AgentTidy
    <3>2. 1 \in 1 .. Len(WriteOrder) /\ 1 \in 0 .. Len(WriteOrder)
      BY Order
    <3> QED BY <1>0, <3>1, <3>2 DEF Agents, AgentTidy
  <2>5. CASE StartAfresh
    <3>1. agent' = [agent EXCEPT !.at = "running"] /\ agent.run \in Run
      BY <1>0, <2>5 DEF StartAfresh, Started, AgentTidy
    <3> QED BY <1>0, <3>1 DEF Agents, AgentTidy
  <2>6. CASE PublisherEnds
    <3>1. agent' = [agent EXCEPT !.at = "serving", !.run = None, !.i = 0]
      BY <2>6 DEF PublisherEnds
    <3>2. 0 \in 0 .. Len(WriteOrder)
      BY Order
    <3> QED BY <1>0, <3>1, <3>2 DEF Agents, AgentTidy
  <2> QED BY <2>1, <2>2, <2>3, <2>4, <2>5, <2>6 DEF Starting
<1>3. pub' \in Publishers /\ PubTidy'
  <2>1. CASE UNCHANGED pub
    BY <1>0, <1>1, <2>1 DEF PubTidy
  <2>2. CASE StartAfresh \/ PublisherEnds
    <3>1. pub' \in Publishers /\ pub'.at = "idle" /\ pub'.todo = {}
      BY <2>2, OffIs DEF StartAfresh, Started, PublisherEnds
    <3> QED BY <3>1 DEF PubTidy
  <2> QED BY <2>1, <2>2 DEF Starting, claim_checkpoint_root, collect_startup_partials,
             AgentStops, WorkloadExits
<1>4. CountTyped
  BY <1>1, CountIs DEF Tidy
<1>5. TypeOK'
  <2>1. owned' \in BOOLEAN
    <3>1. owned \in BOOLEAN
      BY DEF Tidy, TypeOK
    <3>2. CASE owned' = owned
      BY <3>1, <3>2
    <3>3. CASE owned' = TRUE
      BY <3>3
    <3> QED BY <1>1, <3>2, <3>3
  <2> QED BY <1>1, <1>2, <1>3, <1>4, <2>1 DEF Tidy, TypeOK, CountTyped
<1> QED BY <1>2, <1>3, <1>5 DEF Tidy

LEMMA UnusedIs ==
    ASSUME Unused # {}
    PROVE  Min(Unused) \in Run /\ outcome[Min(Unused)] = "none"
<1>1. Unused \in SUBSET Nat
  BY BoundsAssumption DEF Unused
<1>2. Min(Unused) \in Unused
  BY <1>1, MinIs
<1> QED BY <1>2 DEF Unused

LEMMA RecordingTidy ==
    ASSUME Tidy, Recording
    PROVE  Tidy'
<1>0. /\ agent \in Agents /\ pub \in Publishers /\ AgentTidy /\ PubTidy
      /\ local \in [Run -> Dir] /\ outcome \in [Run -> Outcomes]
  BY DEF Tidy, TypeOK
<1>1. PICK r \in Run : startup_gc(r) \/ record_start_checkpoint(r) \/ StartFails(r)
  BY DEF Recording
<1>2. /\ UNCHANGED <<renames, source, visible, store, rot, latest, owned, pub, restored>>
      /\ Fault \/ NoFault
  BY <1>1 DEF startup_gc, record_start_checkpoint, StartFails, recordVars
<1>3. LocalTyped
  <2>1. local[r] \in Dir /\ "Writing" \in LocalName
    BY <1>0 DEF LocalName
  <2>2. ASSUME NEW d \in Dir, local' = [local EXCEPT ![r] = d]
        PROVE  LocalTyped
    BY <1>0, <2>2 DEF LocalTyped
  <2>3. CASE startup_gc(r)
    <3>1. local' = [local EXCEPT ![r] = gc_partial(local[r])]
      BY <1>0, <2>3 DEF startup_gc
    <3>2. gc_partial(local[r]) \in Dir
      BY <2>1, DirIs
    <3> QED BY <2>2, <3>1, <3>2
  <2>4. CASE record_start_checkpoint(r)
    <3>1. local' = [local EXCEPT ![r] = WriteDone(local[r], "Writing")]
      BY <1>0, <2>4 DEF record_start_checkpoint
    <3>2. WriteDone(local[r], "Writing") \in Dir
      BY <2>1, DirIs
    <3> QED BY <2>2, <3>1, <3>2
  <2>5. CASE StartFails(r)
    <3> DEFINE made == [local[r] EXCEPT !.made = TRUE]
    <3>1. PICK d \in LeftBehind(made, "Writing") : local' = [local EXCEPT ![r] = d]
      BY <2>5 DEF StartFails
    <3>2. made \in Dir
      BY <2>1, DirIs
    <3> HIDE DEF made
    <3>3. d \in Dir
      BY <2>1, <3>1, <3>2, DirIs
    <3> QED BY <2>2, <3>1, <3>3
  <2> QED BY <1>1, <2>3, <2>4, <2>5
<1>4. OutcomeTyped /\ agent' \in Agents /\ AgentTidy'
  <2>1. CASE startup_gc(r)
    BY <1>0, <2>1 DEF startup_gc, recordVars, OutcomeTyped, Agents, AgentTidy
  <2>2. CASE record_start_checkpoint(r)
    <3>1. "started" \in Outcomes
      BY DEF Outcomes
    <3> QED BY <1>0, <2>2, <3>1 DEF record_start_checkpoint, OutcomeTyped, Agents, AgentTidy
  <2>3. CASE StartFails(r)
    <3>1. "refused" \in Outcomes
      BY DEF Outcomes
    <3> QED BY <1>0, <2>3, <3>1 DEF StartFails, OutcomeTyped, AgentTidy
  <2> QED BY <1>1, <2>1, <2>2, <2>3
<1>5. CountTyped
  BY <1>2, CountIs DEF Tidy
<1>6. TypeOK'
  BY <1>2, <1>3, <1>4, <1>5 DEF Tidy, TypeOK, CountTyped, LocalTyped, OutcomeTyped
<1>7. PubTidy'
  BY <1>0, <1>2 DEF PubTidy
<1> QED BY <1>4, <1>6, <1>7 DEF Tidy

LEMMA DyingTidy ==
    ASSUME Tidy, Dying
    PROVE  Tidy'
<1>0. /\ local \in [Run -> Dir] /\ latest \in Run \cup {None}
      /\ store \in [Ckpt -> SUBSET StoreName]
  BY DEF Tidy, TypeOK
<1>1. /\ Dies
      /\ UNCHANGED <<renames, source, visible, rot, owned, outcome, restored>>
  BY DEF Dying, Death, StartupGcStops, recordVars
<1>2. /\ agent' \in Agents /\ agent'.at = "down" /\ pub' \in Publishers
      /\ pub'.at = "idle" /\ pub'.todo = {}
  BY <1>1, AgentDownIs, OffIs DEF Dies
<1>3. StoreTyped /\ LocalTyped /\ latest' \in Run \cup {None}
  <2>1. CASE Death
    <3>1. agent.at = "writing" => agent.run \in Run
      BY DEF Tidy, AgentTidy
    <3>2. CASE LeftInStore /\ UNCHANGED <<local, latest>>
      <4>1. StoreTyped
        BY <3>2, StoreTypedStep
      <4> QED BY <1>0, <3>2, <4>1 DEF LocalTyped
    <3>3. CASE /\ agent.at = "writing" /\ Item \in LocalName
               /\ \E d \in LeftBehind(local[agent.run], Item) :
                    local' = [local EXCEPT ![agent.run] = d]
               /\ UNCHANGED <<store, latest>>
      <4>1. PICK d \in LeftBehind(local[agent.run], Item) :
                local' = [local EXCEPT ![agent.run] = d]
        BY <3>3
      <4>2. local[agent.run] \in Dir
        BY <1>0, <3>1, <3>3
      <4>3. d \in Dir
        BY <3>3, <4>1, <4>2, DirIs
      <4>4. local' \in [Run -> Dir]
        BY <1>0, <4>1, <4>3
      <4> QED BY <1>0, <3>3, <4>4 DEF LocalTyped, StoreTyped
    <3>4. CASE /\ agent.at = "writing" /\ Item = "LATEST"
               /\ latest' = agent.run /\ UNCHANGED <<store, local>>
      BY <1>0, <3>1, <3>4 DEF LocalTyped, StoreTyped
    <3> QED BY <2>1, <3>2, <3>3, <3>4 DEF Death
  <2>2. CASE \E r \in Run : StartupGcStops(r)
    <3>1. PICK r \in Run : StartupGcStops(r)
      BY <2>2
    <3>2. PICK kept \in SUBSET local[r].done, tmp \in SUBSET local[r].tmp :
              local' = [local EXCEPT ![r].done = kept, ![r].tmp = tmp]
      BY <3>1 DEF StartupGcStops
    <3>3. local[r] \in Dir
      BY <1>0
    <3>4. [local[r] EXCEPT !.done = kept, !.tmp = tmp] \in Dir
      BY <3>3 DEF Dir
    <3>5. local' = [local EXCEPT ![r] = [local[r] EXCEPT !.done = kept, !.tmp = tmp]]
      BY <1>0, <3>2, <3>3 DEF Dir
    <3>6. local' \in [Run -> Dir]
      BY <1>0, <3>4, <3>5
    <3> QED BY <1>0, <3>1, <3>6 DEF StartupGcStops, LocalTyped, StoreTyped
  <2> QED BY <2>1, <2>2 DEF Dying
<1>4. CountTyped
  BY <1>1, CountIs DEF Tidy
<1>5. TypeOK'
  BY <1>1, <1>2, <1>3, <1>4 DEF Tidy, TypeOK, CountTyped, StoreTyped, LocalTyped
<1>6. PubTidy' /\ AgentTidy'
  BY <1>2 DEF PubTidy, AgentTidy
<1> QED BY <1>5, <1>6 DEF Tidy

\* A name under the shared root is a data file or lists files of a folder.
LEMMA NameIs ==
    ASSUME NEW n \in StoreName
    PROVE  \/ /\ n.kind = "data"
              /\ \E f \in File, v \in 1 .. MaxVersion : n = Data(f, v)
           \/ n.kind = "manifest" /\ n.files \in Content /\ n = Manifest(n.files)
           \/ n.kind = "signed" /\ n.files \in Content /\ n = Signed(n.files)
  BY DEF StoreName, Data, Manifest, Signed

LEMMA SignedIs ==
    ASSUME Tidy, NEW c \in list_signed_manifests
    PROVE  /\ c \in Ckpt /\ Signed(SignedFiles(c)) \in store[c]
           /\ SignedFiles(c) \in Content
<1>1. c \in Ckpt /\ \E n \in store[c] : n.kind = "signed"
  BY DEF list_signed_manifests
<1> DEFINE s == CHOOSE n \in store[c] : n.kind = "signed"
<1>2. s \in store[c] /\ s.kind = "signed"
  BY <1>1
<1>3. s \in StoreName
  BY <1>1, <1>2 DEF Tidy, TypeOK
<1>4. s.files = SignedFiles(c)
  BY DEF SignedFiles
<1> HIDE DEF s
<1> QED BY <1>1, <1>2, <1>3, <1>4, NameIs

LEMMA ResumeTidy ==
    ASSUME Tidy, prepare_resume \/ ResumeRefused
    PROVE  Tidy'
<1>0. /\ agent \in Agents /\ agent.run \in Run /\ pub \in Publishers
      /\ outcome \in [Run -> Outcomes] /\ PubTidy
  BY DEF Tidy, TypeOK, AgentTidy, prepare_resume, ResumeRefused
<1>1. /\ UNCHANGED <<renames, source, visible, store, rot, local, latest, owned>>
      /\ Fault \/ NoFault
  BY DEF prepare_resume, ResumeRefused, diskVars
<1>2. CountTyped
  BY <1>1, CountIs DEF Tidy
<1>3. CASE prepare_resume
  <2> DEFINE point == ResumePoint
             found == {Restores(point, e) : e \in SignedFiles(point)}
             Runs == Run \X Step \X File \X (0 .. MaxVersion)
  <2>1. point \in Ckpt /\ SignedFiles(point) \in Content
    <3>1. point \in list_signed_manifests
      BY <1>3, ResumePointIs DEF prepare_resume, ResumePoints
    <3> HIDE DEF point
    <3> QED BY <3>1, SignedIs
  <2> HIDE DEF point
  <2>2. \A e \in SignedFiles(point) : Restores(point, e) \in Runs
    <3>1. \A e \in SignedFiles(point) : e[1] \in File /\ e[2] \in 1 .. MaxVersion
      BY <2>1 DEF Content
    <3>2. point[1] \in Run /\ point[2] \in Step
      BY <2>1 DEF Ckpt
    <3>3. MaxVersion \in Nat
      BY BoundsAssumption
    <3> QED BY <3>1, <3>2, <3>3 DEF Restores
  <2>3. found \in SUBSET Runs
    BY <2>2
  <2>4. /\ restored' = [restored EXCEPT ![agent.run] = found] /\ outcome' = outcome
        /\ agent' = [agent EXCEPT !.at = "running"]
        /\ pub' = [PubOff EXCEPT !.on = "live"]
    BY <1>3 DEF prepare_resume, Started, point
  <2>5. restored \in [Run -> SUBSET Runs]
    BY DEF Tidy, TypeOK
  <2> HIDE DEF found, Runs
  <2>6. restored' \in [Run -> SUBSET Runs]
    BY <2>3, <2>4, <2>5
  <2>7. agent' \in Agents /\ AgentTidy'
    BY <1>0, <2>4 DEF Agents, AgentTidy
  <2>8. pub' \in Publishers /\ PubTidy'
    <3>1. pub' \in Publishers /\ pub'.at = "idle" /\ pub'.todo = {}
      BY <2>4, OffIs
    <3> QED BY <3>1 DEF PubTidy
  <2>9. TypeOK'
    BY <1>1, <1>2, <2>4, <2>6, <2>7, <2>8 DEF Tidy, TypeOK, CountTyped, Runs
  <2> QED BY <2>7, <2>8, <2>9 DEF Tidy
<1>4. CASE ResumeRefused
  <2>1. /\ outcome' = [outcome EXCEPT ![agent.run] = "refused"]
        /\ agent' = [agent EXCEPT !.at = "serving", !.run = None]
        /\ UNCHANGED <<restored, pub>>
    BY <1>4 DEF ResumeRefused
  <2>2. outcome' \in [Run -> Outcomes]
    <3>1. "refused" \in Outcomes
      BY DEF Outcomes
    <3> QED BY <1>0, <2>1, <3>1
  <2>3. agent' \in Agents /\ AgentTidy'
    BY <1>0, <2>1 DEF Agents, AgentTidy
  <2>4. TypeOK'
    BY <1>1, <1>2, <2>1, <2>2, <2>3 DEF Tidy, TypeOK, CountTyped
  <2>5. PubTidy'
    BY <1>0, <1>1, <2>1 DEF PubTidy
  <2> QED BY <2>3, <2>4, <2>5 DEF Tidy
<1> QED BY <1>3, <1>4

\* What the workload does to a folder: one file is replaced by its next
\* version, or the whole folder gets its name.
Adds(c, f) ==
    /\ c \notin visible \/ ~renames
    /\ source' = [source EXCEPT ![c] =
                    {e \in @ : e[1] # f} \cup {<<f, Version(c, f) + 1>>}]
    /\ visible' = IF renames THEN visible ELSE visible \cup {c}
    /\ Version(c, f) \in 0 .. MaxVersion /\ Version(c, f) + 1 \in 1 .. MaxVersion
    /\ renames => Version(c, f) = 0
Names(c) ==
    /\ renames /\ \A f \in File : Version(c, f) = 1
    /\ visible' = visible \cup {c} /\ UNCHANGED source

LEMMA WorkingIs ==
    ASSUME Tidy, Working
    PROVE  /\ UNCHANGED <<store, rot, local, latest, owned, agent, pub, renames, outcome,
                          restored, faults, deaths>>
           /\ \E c \in Ckpt : Names(c) \/ \E f \in File : Adds(c, f)
<1>1. PICK s \in Step : WorkloadRenames(s) \/ \E f \in File : WorkloadWrites(s, f)
  BY DEF Working
<1> DEFINE c == <<agent.run, s>>
<1>2. agent.at = "running"
  BY <1>1 DEF WorkloadRenames, WorkloadWrites
<1>3. c \in Ckpt
  BY <1>2 DEF Tidy, AgentTidy, Ckpt
<1>4. UNCHANGED <<store, rot, local, latest, owned, agent, pub, renames, outcome,
                  restored, faults, deaths>>
  BY <1>1 DEF WorkloadRenames, WorkloadWrites, recordVars, NoFault
<1>5. CASE WorkloadRenames(s)
  <2>1. Names(c)
    BY <1>5 DEF WorkloadRenames, Names
  <2> QED BY <1>3, <1>4, <2>1
<1>6. CASE \E f \in File : WorkloadWrites(s, f)
  <2>1. PICK f \in File : WorkloadWrites(s, f)
    BY <1>6
  <2>2. /\ c \notin visible \/ ~renames
        /\ source' = [source EXCEPT ![c] =
                        {e \in @ : e[1] # f} \cup {<<f, Version(c, f) + 1>>}]
        /\ visible' = IF renames THEN visible ELSE visible \cup {c}
        /\ Version(c, f) < IF renames THEN 1 ELSE MaxVersion
    BY <2>1 DEF WorkloadWrites
  <2>3. Version(c, f) \in 0 .. MaxVersion
    <3>1. source[c] \in Content
      BY <1>3 DEF Tidy, TypeOK
    <3> HIDE DEF c
    <3> QED BY <1>3, <3>1, VersionIs
  <2> HIDE DEF c
  <2>4. /\ Version(c, f) + 1 \in 1 .. MaxVersion
        /\ renames => Version(c, f) = 0
    <3>1. MaxVersion \in Nat /\ MaxVersion >= 1
      BY BoundsAssumption
    <3> QED BY <2>2, <2>3, <3>1
  <2>5. Adds(c, f)
    BY <2>2, <2>3, <2>4 DEF Adds
  <2> QED BY <1>3, <1>4, <2>5
<1> QED BY <1>1, <1>5, <1>6

LEMMA WorkingTidy ==
    ASSUME Tidy, Working
    PROVE  Tidy'
<1>0. /\ source \in [Ckpt -> Content] /\ visible \subseteq Ckpt /\ PubTidy
      /\ pub.at = "stage" => pub.cur \in Ckpt
  BY CurIs DEF Tidy, TypeOK
<1>1. UNCHANGED <<store, rot, local, latest, owned, agent, pub, renames, outcome,
                  restored, faults, deaths>>
  BY WorkingIs
<1>2. PICK c \in Ckpt : Names(c) \/ \E f \in File : Adds(c, f)
  BY WorkingIs
<1>3. visible' \subseteq Ckpt /\ visible \subseteq visible'
  BY <1>0, <1>2 DEF Names, Adds
<1>4. /\ source' \in [Ckpt -> Content]
      /\ pub.at = "stage" =>
            {e[1] : e \in source[pub.cur]} \subseteq {e[1] : e \in source'[pub.cur]}
  <2>1. CASE Names(c)
    BY <1>0, <2>1 DEF Names
  <2>2. CASE \E f \in File : Adds(c, f)
    <3>1. PICK f \in File : Adds(c, f)
      BY <2>2
    <3> DEFINE v == Version(c, f) + 1
               new == {e \in source[c] : e[1] # f} \cup {<<f, v>>}
    <3>2. source' = [source EXCEPT ![c] = new] /\ v \in 1 .. MaxVersion
      BY <1>0, <3>1 DEF Adds
    <3> HIDE DEF v
    <3>3. new \in Content
      BY <1>0, <3>2 DEF Content
    <3>4. \A e \in source[c] : \E x \in new : x[1] = e[1]
      <4> SUFFICES ASSUME NEW e \in source[c]
                   PROVE  \E x \in new : x[1] = e[1]
        OBVIOUS
      <4>1. CASE e[1] = f
        <5>1. <<f, v>> \in new /\ <<f, v>>[1] = f
          OBVIOUS
        <5> QED BY <4>1, <5>1
      <4>2. CASE e[1] # f
        <5>1. e \in new
          BY <4>2
        <5> QED BY <5>1
      <4> QED BY <4>1, <4>2
    <3> HIDE DEF new
    <3>5. source' \in [Ckpt -> Content]
      BY <1>0, <3>2, <3>3
    <3>6. /\ source'[c] = new
          /\ \A d \in Ckpt : d # c => source'[d] = source[d]
      BY <1>0, <3>2
    <3> QED BY <1>0, <3>4, <3>5, <3>6
  <2> QED BY <1>2, <2>1, <2>2
<1>5. TypeOK'
  BY <1>1, <1>3, <1>4 DEF Tidy, TypeOK
<1>6. PubTidy'
  <2>1. /\ pub'.at = "scan" => pub'.todo # {}
        /\ pub'.at \in {"stage", "sign"} => pub'.cur \in pub'.todo
    BY <1>0, <1>1 DEF PubTidy
  <2>2. pub'.todo \subseteq visible'
    BY <1>0, <1>1, <1>3 DEF PubTidy
  <2>3. pub'.at = "stage" => pub'.names \subseteq {e[1] : e \in source'[pub'.cur]}
    <3>1. pub' = pub
      BY <1>1
    <3>2. pub.at = "stage" => pub.names \subseteq {e[1] : e \in source[pub.cur]}
      BY <1>0 DEF PubTidy
    <3>3. pub.at = "stage" => pub.names \subseteq {e[1] : e \in source'[pub.cur]}
      BY <1>4, <3>2
    <3> QED BY <3>1, <3>3
  <2> QED BY <2>1, <2>2, <2>3 DEF PubTidy
<1>7. AgentTidy'
  BY <1>1 DEF Tidy, AgentTidy
<1> QED BY <1>5, <1>6, <1>7 DEF Tidy

LEMMA OtherTidy ==
    ASSUME Tidy, Rotting \/ Publishing \/ ResultSteps
    PROVE  Tidy'
<1>0. pub \in Publishers /\ AgentTidy /\ PubTidy
  BY DEF Tidy, TypeOK
<1>1. CASE Rotting
  <2>1. PICK c \in Ckpt, f \in File, v \in 1 .. MaxVersion : Rot(c, f, v)
    BY <1>1 DEF Rotting
  <2>2. /\ rot' = rot \cup {<<c, f, v>>} /\ Fault
        /\ UNCHANGED <<renames, source, visible, store, local, latest, owned, agent, pub,
                       outcome, restored>>
    BY <2>1 DEF Rot, recordVars
  <2>3. rot' \subseteq {<<d, g, w>> : d \in Ckpt, g \in File, w \in 1 .. MaxVersion}
    BY <2>2 DEF Tidy, TypeOK
  <2>4. CountTyped
    BY <2>2, CountIs DEF Tidy
  <2>5. TypeOK'
    BY <2>2, <2>3, <2>4 DEF Tidy, TypeOK, CountTyped
  <2>6. PubTidy' /\ AgentTidy'
    BY <1>0, <2>2 DEF PubTidy, AgentTidy
  <2> QED BY <2>5, <2>6 DEF Tidy
<1>2. CASE Publishing
  <2>1. /\ PubTyped /\ OnlyPub /\ StoreTyped
        /\ Begins \/ Recovers \/ Stages \/ Commits \/ Rests
    BY <1>2, PublishingIs, StoreTypedStep
  <2>2. Fault \/ NoFault
    BY <1>2 DEF Publishing, publish_ready_steps, Unstable, begin, publish_or_recover,
            stage, StageMismatch, commit, StagedFileChanged, write_signed_manifest,
            finish, PublishFails, PublisherPanics
  <2>3. CountTyped
    BY <2>2, CountIs DEF Tidy
  <2>4. TypeOK'
    BY <2>1, <2>3 DEF Tidy, TypeOK, CountTyped, PubTyped, StoreTyped, OnlyPub, recordVars
  <2>5. PubTidy'
    <3>0. visible' = visible /\ source' = source
      BY <2>1 DEF OnlyPub
    <3>1. CASE Begins
      BY <1>0, <3>0, <3>1 DEF Begins, PubTidy
    <3>2. CASE Recovers
      BY <1>0, <3>0, <3>2 DEF Recovers, PubTidy
    <3>3. CASE Stages
      BY <1>0, <3>0, <3>3 DEF Stages, PubTidy
    <3>4. CASE Commits
      BY <1>0, <3>0, <3>4 DEF Commits, PubTidy
    <3>5. CASE Rests
      BY <3>0, <3>5 DEF Rests, Resting, PubTidy
    <3> QED BY <2>1, <3>1, <3>2, <3>3, <3>4, <3>5
  <2>6. AgentTidy'
    BY <1>0, <2>1 DEF OnlyPub, AgentTidy
  <2> QED BY <2>4, <2>5, <2>6 DEF Tidy
<1>3. CASE ResultSteps
  <2>1. /\ OnlyLocal /\ (Fault \/ NoFault) /\ agent.at = "writing"
        /\ AgentTyped /\ OutcomeTyped /\ LocalTyped /\ latest' \in {latest, agent.run}
        /\ GoesOn \/ (agent'.at = "publish" /\ agent'.run = agent.run)
    BY <1>3, ResultStepsAre
  <2>2. CountTyped
    BY <2>1, CountIs DEF Tidy
  <2>3. agent.run \in Run
    BY <1>0, <2>1 DEF AgentTidy
  <2>4. latest' \in Run \cup {None}
    BY <2>1, <2>3 DEF Tidy, TypeOK
  <2>5. TypeOK'
    BY <2>1, <2>2, <2>4 DEF Tidy, TypeOK, CountTyped, OnlyLocal, AgentTyped, OutcomeTyped,
                            LocalTyped
  <2>6. PubTidy'
    BY <1>0, <2>1 DEF PubTidy, OnlyLocal
  <2>7. AgentTidy'
    BY <2>1, <2>3 DEF AgentTidy, GoesOn
  <2> QED BY <2>5, <2>6, <2>7 DEF Tidy
<1> QED BY <1>1, <1>2, <1>3

LEMMA TidyStep ==
    ASSUME Tidy, [Next]_vars
    PROVE  Tidy'
<1>1. CASE Next
  BY <1>1, NextIs, StartingTidy, RecordingTidy, DyingTidy, ResumeTidy, WorkingTidy,
     OtherTidy
<1>2. CASE UNCHANGED vars
  <2>1. TypeOK'
    BY <1>2 DEF vars, Tidy, TypeOK
  <2>2. PubTidy' /\ AgentTidy'
    BY <1>2 DEF vars, Tidy, PubTidy, AgentTidy
  <2> QED BY <2>1, <2>2 DEF Tidy
<1> QED BY <1>1, <1>2

LEMMA TidyInit ==
    ASSUME Init
    PROVE  Tidy
<1>1. agent \in Agents /\ agent.at = "down" /\ pub \in Publishers /\ pub.at = "idle"
      /\ pub.todo = {}
  BY AgentDownIs, OffIs DEF Init
<1>2. {} \in Content /\ NoDir \in Dir /\ "none" \in Outcomes
  BY DEF Content, Dir, NoDir, Outcomes
<1>3. TypeOK
  <2>1. renames \in BOOLEAN /\ owned \in BOOLEAN
    BY DEF Init
  <2>2. /\ source \in [Ckpt -> Content] /\ visible \subseteq Ckpt /\ rot = {}
        /\ store \in [Ckpt -> SUBSET StoreName] /\ local \in [Run -> Dir]
        /\ latest \in Run \cup {None} /\ outcome \in [Run -> Outcomes]
    BY <1>2 DEF Init
  <2>3. restored \in [Run -> SUBSET (Run \X Step \X File \X (0 .. MaxVersion))]
    BY DEF Init
  <2>4. faults \in 0 .. MaxFaults /\ deaths \in 0 .. MaxDeaths
    BY BoundsAssumption DEF Init
  <2> QED BY <1>1, <2>1, <2>2, <2>3, <2>4 DEF TypeOK
<1>4. PubTidy /\ AgentTidy
  BY <1>1 DEF PubTidy, AgentTidy
<1> QED BY <1>3, <1>4 DEF Tidy

-----------------------------------------------------------------------------
(***************************************************************************)
(* The shared root.  That every list of files stands beside its manifest   *)
(* and the files is kept only because the publisher starts to stage where  *)
(* there is no manifest yet and signs only what is committed.              *)
(***************************************************************************)
Lists(n) == n.kind \in {"signed", "manifest"}
Beside(n, names) ==
    /\ n.files # {} /\ Manifest(n.files) \in names
    /\ \A e \in n.files : Data(e[1], e[2]) \in names

FilesThere == \A c \in Ckpt : \A n \in store[c] : Lists(n) => Beside(n, store[c])
OneList ==
    \A c \in Ckpt : \A n, m \in store[c] : Lists(n) /\ Lists(m) => n.files = m.files
CommittedFirst ==
    /\ pub.at = "stage" => ManifestOf(pub.cur) = {}
    /\ pub.at = "sign" => Manifest(pub.staged) \in store[pub.cur]

StoreWhole == FilesThere /\ OneList /\ CommittedFirst

\* Before the manifest there is nothing that lists files.
LEMMA NothingListed ==
    ASSUME Tidy, StoreWhole, pub.at = "stage"
    PROVE  \A n \in store[pub.cur] : ~Lists(n)
<1> SUFFICES ASSUME NEW n \in store[pub.cur], Lists(n)
             PROVE  FALSE
  OBVIOUS
<1>1. pub.cur \in Ckpt
  BY CurIs
<1>2. Manifest(n.files) \in store[pub.cur]
  BY <1>1 DEF StoreWhole, FilesThere, Beside
<1>3. Manifest(n.files).kind = "manifest"
  BY DEF Manifest
<1> QED BY <1>2, <1>3 DEF StoreWhole, CommittedFirst, ManifestOf

LEMMA StoreStepWhole ==
    ASSUME Tidy, StoreWhole, Publishing \/ LeftInStore
    PROVE  FilesThere' /\ OneList'
<1>0. store \in [Ckpt -> SUBSET StoreName]
  BY DEF Tidy, TypeOK
<1>1. CASE store' = store
  BY <1>1 DEF StoreWhole, FilesThere, OneList
<1>2. ASSUME pub.cur \in Ckpt, NEW n, store' = Written(pub.cur, n),
             Lists(n) => Beside(n, store[pub.cur] \cup {n}),
             \A m \in store[pub.cur] : Lists(n) /\ Lists(m) => m.files = n.files
      PROVE  FilesThere' /\ OneList'
  <2> DEFINE c == pub.cur
  <2>1. /\ store'[c] = store[c] \cup {n}
        /\ \A d \in Ckpt : d # c => store'[d] = store[d]
    BY <1>0, <1>2 DEF Written
  <2> HIDE DEF c
  <2>2. FilesThere'
    <3> SUFFICES ASSUME NEW d \in Ckpt, NEW x \in store'[d], Lists(x)
                 PROVE  Beside(x, store'[d])
      BY DEF FilesThere
    <3>1. CASE d # c
      BY <2>1, <3>1 DEF StoreWhole, FilesThere
    <3>2. CASE d = c /\ x \in store[c]
      <4>1. Beside(x, store[c])
        BY <3>2 DEF StoreWhole, FilesThere
      <4> QED BY <2>1, <3>2, <4>1 DEF Beside
    <3>3. CASE d = c /\ x = n
      BY <1>2, <2>1, <3>3 DEF c
    <3> QED BY <2>1, <3>1, <3>2, <3>3
  <2>3. OneList'
    <3> SUFFICES ASSUME NEW d \in Ckpt, NEW x \in store'[d], NEW y \in store'[d],
                        Lists(x), Lists(y)
                 PROVE  x.files = y.files
      BY DEF OneList
    <3>1. CASE d # c
      BY <2>1, <3>1 DEF StoreWhole, OneList
    <3>2. CASE d = c
      <4>1. \A m \in store[c] : Lists(n) /\ Lists(m) => m.files = n.files
        BY <1>2 DEF c
      <4>2. \A a, b \in store[c] : Lists(a) /\ Lists(b) => a.files = b.files
        BY <3>2 DEF StoreWhole, OneList
      <4>3. x \in store[c] \cup {n} /\ y \in store[c] \cup {n}
        BY <2>1, <3>2
      <4> QED BY <4>1, <4>2, <4>3
    <3> QED BY <3>1, <3>2
  <2> QED BY <2>2, <2>3
<1>3. CASE StoreStages
  <2>1. PICK f \in pub.names :
            store' = Written(pub.cur, Data(f, Version(pub.cur, f)))
    BY <1>3 DEF StoreStages
  <2>2. ~Lists(Data(f, Version(pub.cur, f)))
    BY DEF Lists, Data
  <2>3. pub.cur \in Ckpt
    BY <1>3, CurIs DEF StoreStages
  <2> QED BY <1>2, <2>1, <2>2, <2>3
<1>4. CASE StoreCommits
  <2> DEFINE n == Manifest(pub.staged)
  <2>1. /\ pub.at = "stage" /\ verify_on_disk(pub.cur, pub.staged)
        /\ store' = Written(pub.cur, n)
    BY <1>4 DEF StoreCommits
  <2>2. n.files = pub.staged
    BY DEF Manifest
  <2>3. Beside(n, store[pub.cur] \cup {n})
    BY <2>1, <2>2 DEF Beside, verify_on_disk
  <2>4. \A m \in store[pub.cur] : ~Lists(m)
    BY <2>1, NothingListed
  <2>5. pub.cur \in Ckpt
    BY <2>1, CurIs
  <2> HIDE DEF n
  <2> QED BY <1>2, <2>1, <2>3, <2>4, <2>5
<1>5. CASE StoreSigns
  <2> DEFINE n == Signed(pub.staged)
             k == Manifest(pub.staged)
  <2>1. pub.at = "sign" /\ store' = Written(pub.cur, n)
    BY <1>5 DEF StoreSigns
  <2>2. n.files = pub.staged /\ k.files = pub.staged /\ Lists(k)
    BY DEF Manifest, Signed, Lists
  <2>3. pub.cur \in Ckpt /\ k \in store[pub.cur]
    BY <2>1, CurIs DEF StoreWhole, CommittedFirst
  <2>4. Beside(k, store[pub.cur])
    BY <2>2, <2>3 DEF StoreWhole, FilesThere
  <2>5. \A m \in store[pub.cur] : Lists(m) => m.files = k.files
    BY <2>2, <2>3 DEF StoreWhole, OneList
  <2>6. Beside(n, store[pub.cur] \cup {n})
    <3> HIDE DEF n, k
    <3> QED BY <2>2, <2>4 DEF Beside
  <2> HIDE DEF n, k
  <2> QED BY <1>2, <2>1, <2>2, <2>3, <2>5, <2>6
<1> QED BY <1>1, <1>3, <1>4, <1>5, StoreStep

\* Other steps leave the shared root and the work of the publisher alone.
LEMMA OtherStore ==
    ASSUME [Next]_vars, ~Publishing, ~Dying
    PROVE  store' = store /\ (pub' = pub \/ pub'.at = "idle")
<1>1. CASE UNCHANGED vars
  BY <1>1 DEF vars
<1>2. CASE StartAfresh \/ PublisherEnds \/ prepare_resume
  <2>1. UNCHANGED store
    BY <1>2 DEF StartAfresh, PublisherEnds, prepare_resume, diskVars
  <2>2. pub' = PubOff \/ pub' = [PubOff EXCEPT !.on = "live"]
    BY <1>2 DEF StartAfresh, PublisherEnds, prepare_resume, Started
  <2> QED BY <2>1, <2>2, OffIs
<1>3. CASE Starting \/ Recording \/ ResumeRefused
  BY <1>2, <1>3 DEF Starting, Recording, claim_checkpoint_root, collect_startup_partials,
        AgentStops, WorkloadExits, startup_gc, record_start_checkpoint, StartFails,
        ResumeRefused, diskVars
<1>4. CASE Working \/ Rotting
  BY <1>4 DEF Working, Rotting, WorkloadRenames, WorkloadWrites, Rot
<1>5. CASE ResultSteps
  BY <1>5 DEF ResultSteps, write_checkpoint_inner, CheckOrMark, replace_with_retry,
        FinalizationFails, StoreFails, fail_after_materialization, MarkerFails, OnlyLocal
<1> QED BY <1>1, <1>2, <1>3, <1>4, <1>5, NextIs

LEMMA DyingIs ==
    ASSUME Dying
    PROVE  /\ store' = store \/ LeftInStore
           /\ pub'.at = "idle" /\ agent'.at = "down"
           /\ UNCHANGED <<renames, source, visible, rot, outcome, restored>>
<1>1. Dies /\ UNCHANGED <<renames, source, visible, rot, outcome, restored>>
  BY DEF Dying, Death, StartupGcStops, recordVars
<1>2. store' = store \/ LeftInStore
  BY DEF Dying, Death, StartupGcStops
<1> QED BY <1>1, <1>2, OffIs, AgentDownIs DEF Dies

LEMMA StoreWholeStep ==
    ASSUME Tidy, StoreWhole, [Next]_vars
    PROVE  StoreWhole'
<1>1. CASE Publishing
  <2>1. FilesThere' /\ OneList'
    BY <1>1, StoreStepWhole
  <2>2. CommittedFirst'
    <3>1. Begins \/ Recovers \/ Stages \/ Commits \/ Rests
      BY <1>1, PublishingIs
    <3>2. CASE Begins
      BY <3>2 DEF Begins, CommittedFirst, ManifestOf
    <3>3. CASE Recovers
      <4>1. PICK m \in ManifestOf(pub'.cur) : pub'.staged = m.files
        BY <3>3 DEF Recovers
      <4>2. /\ pub'.at = "sign" /\ store' = store
            /\ m \in store[pub'.cur] /\ m.kind = "manifest"
        BY <3>3, <4>1 DEF Recovers, ManifestOf
      <4>3. pub'.cur \in Ckpt
        BY <3>3 DEF Recovers, Tidy, TypeOK, PubTidy
      <4>4. m \in StoreName
        BY <4>2, <4>3 DEF Tidy, TypeOK
      <4>5. m = Manifest(m.files)
        BY <4>2, <4>4, NameIs
      <4> QED BY <4>1, <4>2, <4>5 DEF CommittedFirst
    <3>4. CASE Stages
      <4>1. PICK f : store' = Written(pub.cur, Data(f, Version(pub.cur, f)))
        BY <3>4 DEF Stages
      <4>2. /\ pub.at = "stage" /\ pub'.at = "stage" /\ pub'.cur = pub.cur
            /\ ManifestOf(pub.cur) = {} /\ pub.cur \in Ckpt
        BY <3>4, CurIs DEF Stages, StoreWhole, CommittedFirst
      <4>3. store'[pub.cur] = store[pub.cur] \cup {Data(f, Version(pub.cur, f))}
        BY <4>1, <4>2 DEF Written, Tidy, TypeOK
      <4>4. Data(f, Version(pub.cur, f)).kind = "data"
        BY DEF Data
      <4>5. \A n \in store'[pub.cur] : n.kind # "manifest"
        BY <4>2, <4>3, <4>4 DEF ManifestOf
      <4> QED BY <4>2, <4>5 DEF CommittedFirst, ManifestOf
    <3>5. CASE Commits
      <4>1. /\ pub'.at = "sign" /\ pub'.cur = pub.cur /\ pub'.staged = pub.staged
            /\ store' = Written(pub.cur, Manifest(pub.staged)) /\ pub.cur \in Ckpt
        BY <3>5, CurIs DEF Commits
      <4>2. Manifest(pub.staged) \in store'[pub.cur]
        BY <4>1 DEF Written, Tidy, TypeOK
      <4> QED BY <4>1, <4>2 DEF CommittedFirst
    <3>6. CASE Rests
      BY <3>6 DEF Rests, Resting, CommittedFirst
    <3> QED BY <3>1, <3>2, <3>3, <3>4, <3>5, <3>6
  <2> QED BY <2>1, <2>2 DEF StoreWhole
<1>2. CASE Dying
  <2>1. pub'.at = "idle" /\ (store' = store \/ LeftInStore)
    BY <1>2, DyingIs
  <2>2. FilesThere' /\ OneList'
    <3>1. CASE store' = store
      BY <3>1 DEF StoreWhole, FilesThere, OneList
    <3> QED BY <2>1, <3>1, StoreStepWhole
  <2> QED BY <2>1, <2>2 DEF StoreWhole, CommittedFirst
<1>3. CASE ~Publishing /\ ~Dying
  <2>1. store' = store /\ (pub' = pub \/ pub'.at = "idle")
    BY <1>3, OtherStore
  <2> QED BY <2>1 DEF StoreWhole, FilesThere, OneList, CommittedFirst, ManifestOf
<1> QED BY <1>1, <1>2, <1>3

\* Whatever fails or dies in a publication, what is signed is committed, is
\* whole, and is the only list of its checkpoint (commit.rs, shared.rs).
THEOREM SignedWhole == Spec => []SignedIsWhole
<1>1. Init => Tidy /\ StoreWhole
  <2> SUFFICES ASSUME Init
               PROVE  StoreWhole
    BY TidyInit
  <2>1. pub.at = "idle" /\ \A c \in Ckpt : store[c] = {}
    BY OffIs DEF Init
  <2> QED BY <2>1 DEF StoreWhole, FilesThere, OneList, CommittedFirst
<1>2. Tidy /\ StoreWhole /\ [Next]_vars => (Tidy /\ StoreWhole)'
  BY TidyStep, StoreWholeStep
<1>3. Tidy /\ StoreWhole => SignedIsWhole
  <2> SUFFICES ASSUME Tidy, StoreWhole, NEW c \in list_signed_manifests,
                      NEW n \in store[c], n.kind \in {"signed", "manifest"}
               PROVE  n.files = SignedFiles(c) /\ Beside(n, store[c])
    BY DEF SignedIsWhole, Beside
  <2> DEFINE s == Signed(SignedFiles(c))
  <2>1. c \in Ckpt /\ s \in store[c]
    BY SignedIs
  <2>2. Lists(s) /\ s.files = SignedFiles(c)
    BY DEF Lists, Signed
  <2> HIDE DEF s
  <2> QED BY <2>1, <2>2 DEF StoreWhole, FilesThere, OneList, Lists
<1> QED BY <1>1, <1>2, <1>3, PTL DEF Spec

-----------------------------------------------------------------------------
(***************************************************************************)
(* The folders of a workload that renames them.  A folder with a name      *)
(* holds every file in its only version and is not written again, so what  *)
(* the publisher reads file by file is the folder of one moment.           *)
(***************************************************************************)
Full == File \X {1}

FirstVersions == \A c \in Ckpt : source[c] \subseteq Full
NamedFull == \A c \in visible : source[c] = Full
ListedFull == \A c \in Ckpt : \A n \in store[c] : Lists(n) => c \in visible /\ n.files = Full
StagedPart ==
    /\ pub.at = "stage" => pub.staged = (File \ pub.names) \X {1}
    /\ pub.at = "sign" => pub.staged = Full

FoldersWhole ==
    renames => FirstVersions /\ NamedFull /\ ListedFull /\ StagedPart

LEMMA WorkingWhole ==
    ASSUME Tidy, FoldersWhole, renames, Working
    PROVE  /\ FirstVersions' /\ NamedFull' /\ visible \subseteq visible'
           /\ \A c \in visible : source'[c] = source[c]
<1>0. source \in [Ckpt -> Content] /\ visible \subseteq Ckpt
  BY DEF Tidy, TypeOK
<1>1. PICK c \in Ckpt : Names(c) \/ \E f \in File : Adds(c, f)
  BY WorkingIs
<1>2. CASE Names(c)
  <2>1. source' = source /\ visible' = visible \cup {c}
    BY <1>2 DEF Names
  <2>2. source[c] = Full
    <3>1. \A f \in File : <<f, 1>> \in source[c]
      <4> SUFFICES ASSUME NEW f \in File
                   PROVE  <<f, 1>> \in source[c]
        OBVIOUS
      <4>1. Version(c, f) = 1
        BY <1>2 DEF Names
      <4> QED BY <1>0, <4>1, VersionIs
    <3>2. Full \subseteq source[c]
      BY <3>1 DEF Full
    <3> QED BY <3>2 DEF FoldersWhole, FirstVersions
  <2> QED BY <2>1, <2>2 DEF FoldersWhole, FirstVersions, NamedFull
<1>3. CASE \E f \in File : Adds(c, f)
  <2>1. PICK f \in File : Adds(c, f)
    BY <1>3
  <2>2. /\ c \notin visible /\ visible' = visible /\ Version(c, f) = 0
        /\ source' = [source EXCEPT ![c] =
                        {e \in source[c] : e[1] # f} \cup {<<f, Version(c, f) + 1>>}]
    BY <1>0, <2>1 DEF Adds
  <2> DEFINE new == {e \in source[c] : e[1] # f} \cup {<<f, 1>>}
  <2>3. source' = [source EXCEPT ![c] = new]
    BY <2>2
  <2>4. new \subseteq Full
    BY DEF FoldersWhole, FirstVersions, Full
  <2> HIDE DEF new
  <2>5. source'[c] = new /\ \A d \in Ckpt : d # c => source'[d] = source[d]
    BY <1>0, <2>3
  <2>6. FirstVersions'
    BY <2>4, <2>5 DEF FoldersWhole, FirstVersions, Full
  <2>7. \A d \in visible : source'[d] = source[d]
    BY <1>0, <2>2, <2>5
  <2>8. NamedFull'
    BY <2>2, <2>7 DEF FoldersWhole, NamedFull, Full
  <2> QED BY <2>2, <2>6, <2>7, <2>8
<1> QED BY <1>1, <1>2, <1>3

\* A listed file of a named folder is staged in its only version.
LEMMA OnlyVersion ==
    ASSUME Tidy, FoldersWhole, renames, pub.at = "stage", NEW f \in pub.names
    PROVE  f \in File /\ Version(pub.cur, f) = 1
<1>1. f \in File /\ <<f, Version(pub.cur, f)>> \in source[pub.cur]
  BY StageVersion
<1>2. source[pub.cur] = Full
  BY CurIs DEF FoldersWhole, NamedFull
<1> QED BY <1>1, <1>2 DEF Full

LEMMA StoreStepFull ==
    ASSUME Tidy, FoldersWhole, renames, Publishing \/ LeftInStore, UNCHANGED visible
    PROVE  ListedFull'
<1>0. store \in [Ckpt -> SUBSET StoreName] /\ ListedFull /\ StagedPart
  BY DEF Tidy, TypeOK, FoldersWhole
<1>1. CASE store' = store
  BY <1>0, <1>1 DEF ListedFull, Full
<1>2. ASSUME pub.cur \in Ckpt, NEW n, store' = Written(pub.cur, n),
             Lists(n) => pub.cur \in visible /\ n.files = Full
      PROVE  ListedFull'
  <2>1. /\ store'[pub.cur] = store[pub.cur] \cup {n}
        /\ \A d \in Ckpt : d # pub.cur => store'[d] = store[d]
    BY <1>0, <1>2 DEF Written
  <2> SUFFICES ASSUME NEW d \in Ckpt, NEW x \in store'[d], Lists(x)
               PROVE  d \in visible /\ x.files = Full
    BY DEF ListedFull, Full
  <2>2. CASE x \in store[d]
    BY <1>0, <2>2 DEF ListedFull
  <2>3. CASE d = pub.cur /\ x = n
    BY <1>2, <2>3
  <2> QED BY <2>1, <2>2, <2>3
<1>3. CASE StoreStages
  <2>1. PICK f \in pub.names :
            store' = Written(pub.cur, Data(f, Version(pub.cur, f)))
    BY <1>3 DEF StoreStages
  <2>2. ~Lists(Data(f, Version(pub.cur, f)))
    BY DEF Lists, Data
  <2>3. pub.cur \in Ckpt
    BY <1>3, CurIs DEF StoreStages
  <2> QED BY <1>2, <2>1, <2>2, <2>3
<1>4. CASE StoreCommits \/ StoreSigns
  <2>1. pub.cur \in Ckpt /\ pub.cur \in visible
    BY <1>4, CurIs DEF StoreCommits, StoreSigns
  <2>2. pub.staged = Full
    <3>1. CASE StoreCommits
      <4>1. pub.staged = (File \ {}) \X {1}
        BY <1>0, <3>1 DEF StoreCommits, StagedPart
      <4> QED BY <4>1 DEF Full
    <3>2. CASE StoreSigns
      BY <1>0, <3>2 DEF StoreSigns, StagedPart
    <3> QED BY <1>4, <3>1, <3>2
  <2>3. Manifest(pub.staged).files = Full /\ Signed(pub.staged).files = Full
    BY <2>2 DEF Manifest, Signed
  <2> QED BY <1>2, <1>4, <2>1, <2>3 DEF StoreCommits, StoreSigns
<1> QED BY <1>1, <1>3, <1>4, StoreStep

LEMMA StagedStep ==
    ASSUME Tidy, FoldersWhole, renames, Publishing
    PROVE  StagedPart'
<1>0. /\ Begins \/ Recovers \/ Stages \/ Commits \/ Rests
      /\ pub.todo \subseteq visible
  BY PublishingIs DEF Tidy, PubTidy
<1>1. CASE Begins
  <2>1. pub'.at = "stage" /\ pub'.staged = {} /\ pub'.names = {e[1] : e \in source[pub'.cur]}
    BY <1>1 DEF Begins
  <2>2. source[pub'.cur] = Full
    BY <1>0, <1>1 DEF Begins, FoldersWhole, NamedFull
  <2>3. \A f \in File : f \in pub'.names
    <3> SUFFICES ASSUME NEW f \in File
                 PROVE  f \in pub'.names
      OBVIOUS
    <3>1. <<f, 1>> \in source[pub'.cur] /\ <<f, 1>>[1] = f
      BY <2>2 DEF Full
    <3> QED BY <2>1, <3>1
  <2>4. (File \ pub'.names) \X {1} = {}
    BY <2>3
  <2> QED BY <2>1, <2>4 DEF StagedPart
<1>2. CASE Recovers
  <2>1. pub'.at = "sign" /\ pub'.staged = source[pub'.cur]
    BY <1>2 DEF Recovers
  <2>2. source[pub'.cur] = Full
    BY <1>0, <1>2 DEF Recovers, FoldersWhole, NamedFull
  <2> QED BY <2>1, <2>2 DEF StagedPart, Full
<1>3. CASE Stages
  <2>1. PICK f \in pub.names :
            /\ pub'.names = pub.names \ {f}
            /\ pub'.staged = pub.staged \cup {<<f, Version(pub.cur, f)>>}
    BY <1>3 DEF Stages
  <2>2. pub.at = "stage" /\ pub'.at = "stage"
    BY <1>3 DEF Stages
  <2>3. f \in File /\ Version(pub.cur, f) = 1
    BY <2>2, OnlyVersion
  <2>4. pub.staged = (File \ pub.names) \X {1}
    BY <2>2 DEF FoldersWhole, StagedPart
  <2>5. pub'.staged = (File \ pub.names) \X {1} \cup {<<f, 1>>}
    BY <2>1, <2>3, <2>4
  <2>6. (File \ pub.names) \X {1} \cup {<<f, 1>>} = (File \ (pub.names \ {f})) \X {1}
    BY <2>3
  <2>7. pub'.staged = (File \ pub'.names) \X {1}
    BY <2>1, <2>5, <2>6
  <2> QED BY <2>2, <2>7 DEF StagedPart
<1>4. CASE Commits
  <2>1. pub'.at = "sign" /\ pub'.staged = (File \ {}) \X {1}
    BY <1>4 DEF Commits, FoldersWhole, StagedPart
  <2>2. File \ {} = File
    OBVIOUS
  <2> QED BY <2>1, <2>2 DEF StagedPart, Full
<1>5. CASE Rests
  BY <1>5 DEF Rests, Resting, StagedPart
<1> QED BY <1>0, <1>1, <1>2, <1>3, <1>4, <1>5

\* What is restored is the folder the manifest was made of.
LEMMA RestoresFolder ==
    ASSUME Tidy, FoldersWhole, renames, ResumePoints # {}
    PROVE  LET c == ResumePoint IN
           /\ c \in visible /\ source[c] = Full
           /\ {Restores(c, e) : e \in SignedFiles(c)}
                = {<<c[1], c[2], e[1], e[2]>> : e \in source[c]}
<1> DEFINE c == ResumePoint
<1>1. c \in list_signed_manifests /\ verify_on_disk(c, SignedFiles(c))
  BY ResumePointIs DEF ResumePoints
<1> HIDE DEF c
<1>2. c \in Ckpt /\ Signed(SignedFiles(c)) \in store[c]
  BY <1>1, SignedIs
<1>3. c \in visible /\ SignedFiles(c) = Full
  <2>1. /\ Lists(Signed(SignedFiles(c)))
        /\ Signed(SignedFiles(c)).files = SignedFiles(c)
    BY DEF Lists, Signed
  <2> QED BY <1>2, <2>1 DEF FoldersWhole, ListedFull
<1>4. source[c] = Full
  BY <1>3 DEF FoldersWhole, NamedFull
<1>5. \A e \in SignedFiles(c) : Restores(c, e) = <<c[1], c[2], e[1], e[2]>>
  BY <1>1 DEF verify_on_disk, Restores
<1>6. {Restores(c, e) : e \in SignedFiles(c)}
        = {<<c[1], c[2], e[1], e[2]>> : e \in SignedFiles(c)}
  BY <1>5
<1>7. SignedFiles(c) = source[c]
  BY <1>3, <1>4
<1> QED BY <1>3, <1>4, <1>6, <1>7 DEF c

\* Only the workload touches the folders, only a resumption what it found.
LEMMA FoldersKept ==
    ASSUME Tidy, [Next]_vars
    PROVE  /\ UNCHANGED renames
           /\ Working \/ UNCHANGED <<source, visible>>
           /\ prepare_resume \/ UNCHANGED restored
<1>1. CASE UNCHANGED vars
  BY <1>1 DEF vars
<1>2. CASE Starting \/ Recording
  BY <1>2 DEF Starting, Recording, claim_checkpoint_root, collect_startup_partials,
        AgentStops, WorkloadExits, StartAfresh, PublisherEnds, startup_gc,
        record_start_checkpoint, StartFails, diskVars, recordVars
<1>3. CASE Dying
  BY <1>3, DyingIs
<1>4. CASE prepare_resume \/ ResumeRefused
  BY <1>4 DEF prepare_resume, ResumeRefused, diskVars
<1>5. CASE Working
  BY <1>5, WorkingIs
<1>6. CASE Rotting
  BY <1>6 DEF Rotting, Rot, recordVars
<1>7. CASE Publishing
  BY <1>7, PublishingIs DEF OnlyPub, recordVars
<1>8. CASE ResultSteps
  BY <1>8, ResultStepsAre DEF OnlyLocal
<1> QED BY <1>1, <1>2, <1>3, <1>4, <1>5, <1>6, <1>7, <1>8, NextIs

LEMMA FoldersWholeStep ==
    ASSUME Tidy, FoldersWhole, [Next]_vars
    PROVE  FoldersWhole'
<1> SUFFICES ASSUME renames
             PROVE  FirstVersions' /\ NamedFull' /\ ListedFull' /\ StagedPart'
  BY FoldersKept DEF FoldersWhole
<1>0. FirstVersions /\ NamedFull /\ ListedFull /\ StagedPart
  BY DEF FoldersWhole
<1>1. CASE Working
  <2>1. FirstVersions' /\ NamedFull' /\ visible \subseteq visible'
    BY <1>1, WorkingWhole
  <2>2. store' = store /\ pub' = pub
    BY <1>1, WorkingIs
  <2>3. ListedFull' /\ StagedPart'
    BY <1>0, <2>1, <2>2 DEF ListedFull, StagedPart, Full
  <2> QED BY <2>1, <2>3
<1>2. CASE ~Working
  <2>0. source' = source /\ visible' = visible
    BY <1>2, FoldersKept
  <2>1. FirstVersions' /\ NamedFull'
    BY <1>0, <2>0 DEF FirstVersions, NamedFull, Full
  <2>2. ListedFull' /\ StagedPart'
    <3>1. CASE Publishing
      BY <2>0, <3>1, StoreStepFull, StagedStep
    <3>2. CASE Dying
      <4>1. pub'.at = "idle" /\ (store' = store \/ LeftInStore)
        BY <3>2, DyingIs
      <4>2. ListedFull'
        <5>1. CASE store' = store
          BY <1>0, <2>0, <5>1 DEF ListedFull, Full
        <5> QED BY <2>0, <4>1, <5>1, StoreStepFull
      <4> QED BY <4>1, <4>2 DEF StagedPart
    <3>3. CASE ~Publishing /\ ~Dying
      <4>1. store' = store /\ (pub' = pub \/ pub'.at = "idle")
        BY <3>3, OtherStore
      <4> QED BY <1>0, <2>0, <4>1 DEF ListedFull, StagedPart, Full
    <3> QED BY <3>1, <3>2, <3>3
  <2> QED BY <2>1, <2>2
<1> QED BY <1>1, <1>2

\* What run r found is folder c as its workload named it.
Found(r, c) ==
    /\ restored[r] = {<<c[1], c[2], e[1], e[2]>> : e \in source[c]}
    /\ {e[1] : e \in source[c]} = File

LEMMA ResumesStep ==
    ASSUME Tidy, FoldersWhole, ResumesFromOneFolder, [Next]_vars
    PROVE  ResumesFromOneFolder'
<1>0. UNCHANGED renames
  BY FoldersKept
<1> SUFFICES ASSUME renames, NEW r \in Run, restored'[r] # {}
             PROVE  \E c \in visible' : Found(r, c)'
  BY <1>0 DEF ResumesFromOneFolder, Found
<1>1. ASSUME restored[r] # {}
      PROVE  \E c \in visible : Found(r, c)
  BY <1>1 DEF ResumesFromOneFolder, Found
<1>2. CASE Working
  <2>1. restored' = restored
    BY <1>2, WorkingIs
  <2>2. PICK c \in visible : Found(r, c)
    BY <1>1, <2>1
  <2>3. c \in visible' /\ source'[c] = source[c]
    BY <1>2, WorkingWhole
  <2>4. Found(r, c)'
    BY <2>1, <2>2, <2>3 DEF Found
  <2> QED BY <2>3, <2>4
<1>3. CASE ~Working
  <2>0. source' = source /\ visible' = visible
    BY <1>3, FoldersKept
  <2>1. CASE restored'[r] = restored[r]
    <3>1. PICK c \in visible : Found(r, c)
      BY <1>1, <2>1
    <3>2. Found(r, c)'
      BY <2>0, <2>1, <3>1 DEF Found
    <3> QED BY <2>0, <3>2
  <2>2. CASE prepare_resume /\ r = agent.run
    <3>0. PICK c : c = ResumePoint
      OBVIOUS
    <3>1. ResumePoints # {} /\ restored'[r] = {Restores(c, e) : e \in SignedFiles(c)}
      BY <2>2, <3>0 DEF prepare_resume, Tidy, TypeOK
    <3>2. /\ c \in visible /\ source[c] = Full
          /\ {Restores(c, e) : e \in SignedFiles(c)}
                = {<<c[1], c[2], e[1], e[2]>> : e \in source[c]}
      BY <3>0, <3>1, RestoresFolder
    <3>3. {e[1] : e \in source[c]} = File
      <4>1. \A f \in File : <<f, 1>> \in source[c] /\ <<f, 1>>[1] = f
        BY <3>2 DEF Full
      <4>2. \A e \in source[c] : e[1] \in File
        <5>1. \A e \in Full : e[1] \in File
          BY DEF Full
        <5> QED BY <3>2, <5>1
      <4>3. File \subseteq {e[1] : e \in source[c]}
        BY <4>1
      <4>4. {e[1] : e \in source[c]} \subseteq File
        BY <4>2
      <4> QED BY <4>3, <4>4
    <3>4. Found(r, c)'
      BY <2>0, <3>1, <3>2, <3>3 DEF Found
    <3> QED BY <2>0, <3>2, <3>4
  <2>3. restored'[r] = restored[r] \/ (prepare_resume /\ r = agent.run)
    <3>1. CASE prepare_resume /\ r # agent.run
      BY <3>1 DEF prepare_resume, Tidy, TypeOK
    <3>2. CASE ~prepare_resume
      BY <3>2, FoldersKept
    <3> QED BY <3>1, <3>2
  <2> QED BY <2>1, <2>2, <2>3
<1> QED BY <1>2, <1>3

\* A workload that renames its folders is resumed from exactly one folder as
\* it left it, whatever was published, cut short or changed in between.
THEOREM ResumedFromOneFolder == Spec => []ResumesFromOneFolder
<1> DEFINE Inv == Tidy /\ FoldersWhole /\ ResumesFromOneFolder
<1>1. Init => Inv
  <2> SUFFICES ASSUME Init
               PROVE  FoldersWhole /\ ResumesFromOneFolder
    BY TidyInit
  <2>1. /\ pub.at = "idle" /\ visible = {} /\ \A c \in Ckpt : source[c] = {}
        /\ \A c \in Ckpt : store[c] = {}
        /\ \A r \in Run : restored[r] = {}
    BY OffIs DEF Init
  <2> QED BY <2>1 DEF FoldersWhole, FirstVersions, NamedFull, ListedFull, StagedPart,
             ResumesFromOneFolder
<1>2. Inv /\ [Next]_vars => Inv'
  BY TidyStep, FoldersWholeStep, ResumesStep
<1>3. Inv => ResumesFromOneFolder
  OBVIOUS
<1> QED BY <1>1, <1>2, <1>3, PTL DEF Spec

-----------------------------------------------------------------------------
(***************************************************************************)
(* The directories of the checkpoint root.  What the agent has written so  *)
(* far of a result is there when it writes the next part, so a manifest    *)
(* and the pointer LATEST come to a whole directory.                       *)
(***************************************************************************)
Valid(d) == d.made /\ "manifest" \in d.done /\ ArtifactSet \subseteq d.done
Kept(o, d) ==
    /\ o = "none" => d = NoDir
    /\ o = "ok" => Valid(d) /\ "failed" \notin d.done
    /\ o = "publish_failed" => ~(Valid(d) /\ "failed" \notin d.done)
    /\ "manifest" \in d.done => Valid(d)
SoFar(i, done) ==
    \A j \in 1 .. (i - 1) : WriteOrder[j] \in LocalName => WriteOrder[j] \in done

RunsKept == \A r \in Run : Kept(outcome[r], local[r])
LatestValid == \A r \in Run : latest = r => Valid(local[r])
CurrentHolds ==
    agent.at \in {"resume", "running", "writing"} =>
        /\ outcome[agent.run] = "started" /\ local[agent.run].made
        /\ "failed" \notin local[agent.run].done
WrittenSoFar == agent.at = "writing" => SoFar(agent.i, local[agent.run].done)
Collected ==
    agent.at = "collect" =>
        \A r \in Run : r \notin agent.gc /\ local[r].made => "manifest" \in local[r].done

DirsHold == RunsKept /\ LatestValid /\ CurrentHolds /\ WrittenSoFar /\ Collected

\* The collection keeps a directory with a manifest and nothing of the others,
\* even when it is cut short.
LEMMA GcKeeps ==
    ASSUME NEW d \in Dir, NEW o, Kept(o, d)
    PROVE  /\ Kept(o, gc_partial(d)) /\ (Valid(d) => Valid(gc_partial(d)))
           /\ gc_partial(d).made => "manifest" \in gc_partial(d).done
<1>1. CASE "manifest" \in d.done
  <2>1. /\ gc_partial(d).made = d.made /\ gc_partial(d).done = d.done
        /\ d # NoDir
    BY <1>1 DEF gc_partial, Dir, NoDir
  <2> QED BY <1>1, <2>1 DEF Kept, Valid
<1>2. CASE "manifest" \notin d.done
  <2>1. gc_partial(d) = NoDir /\ NoDir.made = FALSE /\ NoDir.done = {}
    BY <1>2 DEF gc_partial, NoDir
  <2> QED BY <1>2, <2>1 DEF Kept, Valid
<1> QED BY <1>1, <1>2

LEMMA HalfGcKeeps ==
    ASSUME NEW d \in Dir, NEW o, Kept(o, d),
           NEW kept \in SUBSET d.done, NEW tmp \in SUBSET d.tmp,
           gc_partial(d).done \subseteq kept
    PROVE  LET h == [d EXCEPT !.done = kept, !.tmp = tmp] IN
           Kept(o, h) /\ (Valid(d) => Valid(h))
<1> DEFINE h == [d EXCEPT !.done = kept, !.tmp = tmp]
<1>1. h.made = d.made /\ h.done = kept /\ h.tmp = tmp
  BY DEF Dir
<1>2. CASE "manifest" \in d.done
  <2>1. kept = d.done /\ d # NoDir
    BY <1>2 DEF gc_partial, Dir, NoDir
  <2> HIDE DEF h
  <2> QED BY <1>1, <1>2, <2>1 DEF Kept, Valid
<1>3. CASE "manifest" \notin d.done
  <2>1. ASSUME d = NoDir
        PROVE  h = NoDir
    <3>1. kept = {} /\ tmp = {}
      BY <2>1 DEF NoDir
    <3>2. d.made = FALSE
      BY <2>1 DEF NoDir
    <3>3. h \in Dir
      BY DEF Dir
    <3> HIDE DEF h
    <3>4. h = [made |-> h.made, done |-> h.done, tmp |-> h.tmp]
      BY <3>3 DEF Dir
    <3> QED BY <1>1, <3>1, <3>2, <3>4 DEF NoDir
  <2>2. "manifest" \notin h.done /\ "manifest" \notin d.done
    BY <1>1, <1>3
  <2> HIDE DEF h
  <2>3. ~Valid(h) /\ ~Valid(d)
    BY <2>2 DEF Valid
  <2>4. Kept(o, h) /\ (Valid(d) => Valid(h))
    BY <2>1, <2>2, <2>3 DEF Kept
  <2> QED BY <2>4 DEF h
<1> QED BY <1>2, <1>3

\* A write adds at most the file, and to the directory alone.
LEMMA WriteGrows ==
    ASSUME NEW d \in Dir, NEW n \in LocalName, NEW w \in LeftBehind(d, n) \cup {WriteDone(d, n)}
    PROVE  /\ w \in Dir /\ d.done \subseteq w.done /\ w.done \subseteq d.done \cup {n}
           /\ (d.made => w.made) /\ (Valid(d) => Valid(w))
<1>1. w \in Dir
  BY DirIs
<1>2. /\ d.done \subseteq w.done /\ w.done \subseteq d.done \cup {n}
      /\ d.made => w.made
  <2> DEFINE tmp == d.tmp \cup {n}
             done == d.done \cup {n}
             less == d.tmp \ {n}
  <2>1. \/ w = d \/ w = [d EXCEPT !.tmp = tmp] \/ w = [d EXCEPT !.done = done]
        \/ w = [d EXCEPT !.made = TRUE, !.done = done, !.tmp = less]
    BY DEF LeftBehind, WriteDone
  <2> HIDE DEF tmp, done, less
  <2>2. \/ w.done = d.done /\ w.made = d.made
        \/ w.done = done /\ w.made = d.made
        \/ w.done = done /\ w.made = TRUE
    BY <2>1 DEF Dir
  <2>3. d.done \subseteq done
    BY DEF done
  <2> QED BY <2>2, <2>3 DEF done
<1> QED BY <1>1, <1>2 DEF Valid

LEMMA WriteGrowsDone ==
    ASSUME NEW d \in Dir, NEW n
    PROVE  WriteDone(d, n).done = d.done \cup {n} /\ WriteDone(d, n).made
  BY DEF WriteDone, Dir

\* The places of the files, the pointer and the marks in WriteOrder.
LEMMA Places ==
    ASSUME NEW i \in 1 .. Len(WriteOrder)
    PROVE  LET n == Len(Artifacts) IN
           /\ n \in Nat /\ i \in Nat
           /\ WriteOrder[i] \in LocalName => i <= n + 1 /\ WriteOrder[i] # "failed"
           /\ WriteOrder[i] = "manifest" => i = n + 1
           /\ WriteOrder[i] = "LATEST" => i = n + 3
           /\ WriteOrder[i] \notin LocalName => i >= n + 2
<1> DEFINE n == Len(Artifacts)
<1>1. n \in Nat /\ Len(WriteOrder) = n + 4
  BY Order
<1>2. CASE i \in 1 .. n
  <2>1. WriteOrder[i] \in ArtifactSet
    BY <1>2, Order
  <2> QED BY <1>1, <1>2, <2>1, ArtifactsAssumption DEF LocalName
<1>3. CASE i \in {n + 1, n + 2, n + 3, n + 4}
  <2>1. /\ WriteOrder[n + 1] = "manifest" /\ WriteOrder[n + 2] = "verify"
        /\ WriteOrder[n + 3] = "LATEST" /\ WriteOrder[n + 4] = "Committed"
    BY Order
  <2>2. "verify" \notin LocalName /\ "LATEST" \notin LocalName /\ "Committed" \notin LocalName
    BY ArtifactsAssumption DEF LocalName
  <2>3. "manifest" \in LocalName
    BY DEF LocalName
  <2> HIDE DEF n
  <2> QED BY <1>1, <1>3, <2>1, <2>2, <2>3 DEF n
<1> QED BY <1>1, <1>2, <1>3

LEMMA SoFarIs ==
    ASSUME NEW i \in 1 .. Len(WriteOrder), NEW done, SoFar(i, done)
    PROVE  LET n == Len(Artifacts) IN
           /\ i > n => ArtifactSet \subseteq done
           /\ i > n + 1 => "manifest" \in done
<1> DEFINE n == Len(Artifacts)
<1>1. n \in Nat /\ i \in Nat
  BY Places
<1>2. ASSUME i > n, NEW a \in ArtifactSet
      PROVE  a \in done
  <2>1. PICK j \in 1 .. n : a = Artifacts[j]
    BY DEF ArtifactSet
  <2>2. WriteOrder[j] = a /\ WriteOrder[j] \in LocalName
    BY <2>1, Order DEF LocalName
  <2>3. j \in 1 .. (i - 1)
    BY <1>1, <1>2
  <2> QED BY <2>2, <2>3 DEF SoFar
<1>3. ASSUME i > n + 1
      PROVE  "manifest" \in done
  <2>1. WriteOrder[n + 1] = "manifest" /\ "manifest" \in LocalName
    BY Order DEF LocalName
  <2>2. n + 1 \in 1 .. (i - 1)
    BY <1>1, <1>3
  <2> QED BY <2>1, <2>2 DEF SoFar
<1> QED BY <1>2, <1>3

\* A step that touches the directory and the outcome of one run.
OneDir(r, d, o) ==
    /\ local'[r] = d /\ outcome'[r] = o
    /\ \A q \in Run \ {r} : local'[q] = local[q] /\ outcome'[q] = outcome[q]

LEMMA OneDirKept ==
    ASSUME DirsHold, NEW r \in Run, NEW d, NEW o, OneDir(r, d, o), Kept(o, d),
           Valid(local[r]) => Valid(d),
           latest' = latest \/ (latest' = r /\ Valid(d))
    PROVE  RunsKept' /\ LatestValid'
<1>1. RunsKept'
  <2> SUFFICES ASSUME NEW q \in Run
               PROVE  Kept(outcome'[q], local'[q])
    BY DEF RunsKept
  <2>1. CASE q = r
    BY <2>1 DEF OneDir
  <2>2. CASE q # r
    BY <2>2 DEF OneDir, DirsHold, RunsKept
  <2> QED BY <2>1, <2>2
<1>2. LatestValid'
  <2> SUFFICES ASSUME NEW q \in Run, latest' = q
               PROVE  Valid(local'[q])
    BY DEF LatestValid
  <2>1. CASE q = r
    <3>1. Valid(d)
      BY <2>1 DEF DirsHold, LatestValid
    <3> QED BY <2>1, <3>1 DEF OneDir
  <2>2. CASE q # r
    <3>1. latest = q /\ local'[q] = local[q]
      BY <2>2 DEF OneDir
    <3> QED BY <3>1 DEF DirsHold, LatestValid
  <2> QED BY <2>1, <2>2
<1> QED BY <1>1, <1>2

\* Nothing is being written and nothing collected.
Elsewhere == agent'.at \in {"down", "serving", "publish"}

LEMMA ElsewhereHolds ==
    ASSUME Elsewhere
    PROVE  CurrentHolds' /\ WrittenSoFar' /\ Collected'
  BY DEF Elsewhere, CurrentHolds, WrittenSoFar, Collected

\* What holds when the agent is about to write the i-th part of a result.
LEMMA WritingHolds ==
    ASSUME Tidy, DirsHold, agent.at = "writing"
    PROVE  LET d == local[agent.run]
               n == Len(Artifacts) IN
           /\ agent.run \in Run /\ agent.i \in 1 .. Len(WriteOrder) /\ d \in Dir
           /\ d.made /\ "failed" \notin d.done /\ outcome[agent.run] = "started"
           /\ SoFar(agent.i, d.done) /\ ("manifest" \in d.done => Valid(d))
           /\ agent.i > n => ArtifactSet \subseteq d.done
           /\ agent.i > n + 1 => Valid(d)
<1> DEFINE d == local[agent.run]
<1>1. agent.run \in Run /\ agent.i \in 1 .. Len(WriteOrder) /\ d \in Dir
  BY DEF Tidy, TypeOK, AgentTidy
<1>2. d.made /\ "failed" \notin d.done /\ outcome[agent.run] = "started"
  BY DEF DirsHold, CurrentHolds
<1>3. SoFar(agent.i, d.done)
  BY DEF DirsHold, WrittenSoFar
<1>4. "manifest" \in d.done => Valid(d)
  BY <1>1 DEF DirsHold, RunsKept, Kept
<1> HIDE DEF d
<1>5. /\ agent.i > Len(Artifacts) => ArtifactSet \subseteq d.done
      /\ agent.i > Len(Artifacts) + 1 => "manifest" \in d.done
  BY <1>1, <1>3, SoFarIs
<1> QED BY <1>1, <1>2, <1>3, <1>4, <1>5 DEF d

\* A part of the result, written or left half-done, does not make a manifest
\* stand for less than the whole.
LEMMA PartHolds ==
    ASSUME Tidy, DirsHold, agent.at = "writing", Item \in LocalName,
           NEW w \in LeftBehind(local[agent.run], Item) \cup {WriteDone(local[agent.run], Item)}
    PROVE  /\ "manifest" \in w.done => Valid(w)
           /\ "failed" \notin w.done /\ w.made
           /\ Valid(local[agent.run]) => Valid(w)
<1> DEFINE d == local[agent.run]
<1>1. /\ agent.i \in 1 .. Len(WriteOrder) /\ d \in Dir
      /\ d.made /\ "failed" \notin d.done /\ ("manifest" \in d.done => Valid(d))
      /\ agent.i > Len(Artifacts) => ArtifactSet \subseteq d.done
  BY WritingHolds
<1>2. /\ d.done \subseteq w.done /\ w.done \subseteq d.done \cup {Item}
      /\ (d.made => w.made) /\ (Valid(d) => Valid(w))
  BY <1>1, WriteGrows
<1>3. /\ Item # "failed" /\ Len(Artifacts) \in Nat
      /\ Item = "manifest" => agent.i > Len(Artifacts)
  <2>1. /\ Item # "failed" /\ Len(Artifacts) \in Nat
        /\ Item = "manifest" => agent.i = Len(Artifacts) + 1
    BY <1>1, Places DEF Item
  <2> QED BY <2>1
<1> HIDE DEF d
<1>4. w.made /\ "failed" \notin w.done
  BY <1>1, <1>2, <1>3
<1>5. ASSUME "manifest" \in w.done
      PROVE  Valid(w)
  <2>1. CASE "manifest" \in d.done
    BY <1>1, <1>2, <2>1
  <2>2. CASE Item = "manifest"
    <3>1. ArtifactSet \subseteq w.done
      BY <1>1, <1>2, <1>3, <2>2
    <3> QED BY <1>4, <1>5, <3>1 DEF Valid
  <2> QED BY <1>2, <1>5, <2>1, <2>2
<1> QED BY <1>2, <1>4, <1>5 DEF d

\* One more part is written.
LEMMA GoesOnHolds ==
    ASSUME Tidy, DirsHold, agent.at = "writing", GoesOn, NEW w, local'[agent.run] = w,
           w.made, "failed" \notin w.done, local[agent.run].done \subseteq w.done,
           Item \in LocalName => Item \in w.done
    PROVE  CurrentHolds' /\ WrittenSoFar' /\ Collected'
<1>1. /\ agent.run \in Run /\ agent.i \in 1 .. Len(WriteOrder)
      /\ outcome[agent.run] = "started" /\ SoFar(agent.i, local[agent.run].done)
  BY WritingHolds
<1>2. /\ agent'.at = "writing" /\ agent'.run = agent.run /\ agent'.i = agent.i + 1
      /\ outcome' = outcome
  BY DEF GoesOn
<1>3. SoFar(agent.i + 1, w.done)
  <2> DEFINE i == agent.i
  <2>1. i \in Nat
    BY <1>1, Places
  <2>2. ASSUME NEW j \in 1 .. i, WriteOrder[j] \in LocalName
        PROVE  WriteOrder[j] \in w.done
    <3>1. CASE j = i
      BY <2>2, <3>1 DEF Item
    <3>2. CASE j # i
      <4>1. j \in 1 .. (i - 1)
        BY <2>1, <3>2
      <4>2. WriteOrder[j] \in local[agent.run].done
        BY <1>1, <2>2, <4>1 DEF SoFar
      <4> QED BY <4>2
    <3> QED BY <3>1, <3>2
  <2>3. (i + 1) - 1 = i
    BY <2>1
  <2> HIDE DEF i
  <2>4. SoFar(i + 1, w.done)
    BY <2>2, <2>3 DEF SoFar
  <2> QED BY <2>4 DEF i
<1> QED BY <1>1, <1>2, <1>3 DEF CurrentHolds, WrittenSoFar, Collected

LEMMA ResultHolds ==
    ASSUME Tidy, DirsHold, ResultSteps
    PROVE  DirsHold'
<1> DEFINE r == agent.run
           d == local[r]
<1>0. agent.at = "writing" /\ local \in [Run -> Dir] /\ outcome \in [Run -> Outcomes]
  BY ResultStepsAre DEF Tidy, TypeOK
<1>1. /\ r \in Run /\ agent.i \in 1 .. Len(WriteOrder) /\ d \in Dir
      /\ d.made /\ "failed" \notin d.done /\ outcome[r] = "started"
      /\ ("manifest" \in d.done => Valid(d))
      /\ agent.i > Len(Artifacts) + 1 => Valid(d)
  BY <1>0, WritingHolds
<1>2. Len(Artifacts) \in Nat /\ agent.i \in Nat /\ Len(WriteOrder) = Len(Artifacts) + 4
  BY <1>1, Order, Places
<1>3. ASSUME NEW w, local' = [local EXCEPT ![r] = w], NEW o, Ends(o), Kept(o, w),
             Valid(d) => Valid(w), latest' = latest \/ (latest' = r /\ Valid(w))
      PROVE  DirsHold'
  <2>1. OneDir(r, w, o)
    BY <1>0, <1>1, <1>3 DEF OneDir, Ends
  <2>2. RunsKept' /\ LatestValid'
    BY <1>1, <1>3, <2>1, OneDirKept
  <2>3. CurrentHolds' /\ WrittenSoFar' /\ Collected'
    BY <1>3, ElsewhereHolds DEF Ends, Elsewhere
  <2> QED BY <2>2, <2>3 DEF DirsHold
<1>4. ASSUME NEW w, local' = [local EXCEPT ![r] = w], GoesOn,
             w.made, "failed" \notin w.done, d.done \subseteq w.done,
             "manifest" \in w.done => Valid(w),
             Valid(d) => Valid(w), Item \in LocalName => Item \in w.done,
             latest' = latest \/ (latest' = r /\ Valid(w))
      PROVE  DirsHold'
  <2>1. OneDir(r, w, "started")
    BY <1>0, <1>1, <1>4 DEF OneDir, GoesOn
  <2>2. Kept("started", w)
    BY <1>4 DEF Kept
  <2>3. RunsKept' /\ LatestValid'
    BY <1>1, <1>4, <2>1, <2>2, OneDirKept
  <2>4. local'[r] = w
    BY <2>1 DEF OneDir
  <2>5. CurrentHolds' /\ WrittenSoFar' /\ Collected'
    BY <1>0, <1>4, <2>4, GoesOnHolds
  <2> QED BY <2>3, <2>5 DEF DirsHold
<1>5. CASE write_checkpoint_inner
  <2> DEFINE w == WriteDone(d, Item)
  <2>1. /\ Item \in LocalName /\ local' = [local EXCEPT ![r] = w]
        /\ Advance /\ UNCHANGED latest
    BY <1>5 DEF write_checkpoint_inner
  <2>2. GoesOn
    <3>1. agent.i <= Len(Artifacts) + 1
      BY <1>1, <2>1, Places DEF Item
    <3>2. agent.i # Len(WriteOrder)
      BY <1>2, <3>1
    <3> QED BY <1>0, <2>1, <3>2, AdvanceIs
  <2>3. /\ "manifest" \in w.done => Valid(w)
        /\ "failed" \notin w.done /\ w.made /\ (Valid(d) => Valid(w))
    BY <1>0, <2>1, PartHolds
  <2>4. d.done \subseteq w.done /\ Item \in w.done
    BY <1>1, WriteGrowsDone
  <2> HIDE DEF w, d, r
  <2> QED BY <1>4, <2>1, <2>2, <2>3, <2>4
<1>6. CASE CheckOrMark \/ replace_with_retry
  <2>1. /\ Item \in {"verify", "LATEST", "Committed"} /\ Advance /\ local' = local
        /\ latest' = latest \/ (Item = "LATEST" /\ latest' = r)
    BY <1>6 DEF CheckOrMark, replace_with_retry
  <2>2. Item \notin LocalName
    BY <2>1, ArtifactsAssumption DEF LocalName
  <2>3. agent.i >= Len(Artifacts) + 2
    BY <1>1, <2>2, Places DEF Item
  <2>4. Valid(d)
    BY <1>1, <1>2, <2>3
  <2>5. local' = [local EXCEPT ![r] = d]
    BY <1>0, <2>1
  <2>6. Kept("ok", d)
    BY <1>1, <2>4 DEF Kept
  <2>7. GoesOn \/ Ends("ok")
    BY <1>0, <2>1, AdvanceIs
  <2> HIDE DEF d, r
  <2> QED BY <1>1, <1>3, <1>4, <2>1, <2>2, <2>4, <2>5, <2>6, <2>7
<1>7. CASE FinalizationFails
  <2>1. Result(r, "store_failed") /\ local' = local /\ UNCHANGED latest
    BY <1>7 DEF FinalizationFails
  <2>2. Ends("store_failed")
    BY <1>0, <2>1, ResultIs DEF Outcomes
  <2>3. local' = [local EXCEPT ![r] = d]
    BY <1>0, <2>1
  <2>4. Kept("store_failed", d)
    BY <1>1 DEF Kept
  <2> HIDE DEF d, r
  <2> QED BY <1>3, <2>1, <2>2, <2>3, <2>4
<1>8. CASE StoreFails
  <2>1. Result(r, "store_failed") /\ UNCHANGED latest /\ agent.i < Position("verify")
    BY <1>8 DEF StoreFails
  <2>2. PICK w \in LeftBehind(d, Item) : local' = [local EXCEPT ![r] = w]
    BY <1>8 DEF StoreFails
  <2>3. Item \in LocalName
    BY <1>1, <2>1, ItemIs DEF Item
  <2>4. ("manifest" \in w.done => Valid(w)) /\ (Valid(d) => Valid(w))
    BY <1>0, <2>2, <2>3, PartHolds
  <2>5. Ends("store_failed")
    BY <1>0, <2>1, ResultIs DEF Outcomes
  <2>6. Kept("store_failed", w)
    BY <2>4 DEF Kept
  <2> HIDE DEF d, r
  <2> QED BY <1>3, <2>1, <2>2, <2>4, <2>5, <2>6
<1>9. CASE fail_after_materialization \/ MarkerFails
  <2>1. agent.i >= Position("verify")
    BY <1>9 DEF fail_after_materialization, MarkerFails
  <2>2. Valid(d)
    <3>1. Position("verify") = Len(Artifacts) + 2
      BY Order
    <3> QED BY <1>1, <1>2, <2>1, <3>1
  <2>3. PICK w \in LeftBehind(d, "failed") \cup {WriteDone(d, "failed")} :
            /\ local' = [local EXCEPT ![r] = w]
            /\ w = WriteDone(d, "failed") \/ MarkerFails
    BY <1>9 DEF fail_after_materialization, MarkerFails
  <2>4. Valid(w)
    BY <1>1, <2>2, <2>3, WriteGrows DEF LocalName
  <2>5. latest' = latest \/ latest' = r
    BY <1>9 DEF fail_after_materialization, MarkerFails
  <2>6. CASE MarkerFails
    <3>1. Ends("unmarked")
      BY <1>0, <2>6, ResultIs DEF MarkerFails, Outcomes
    <3>2. Kept("unmarked", w)
      BY <2>4 DEF Kept
    <3> HIDE DEF d, r
    <3> QED BY <1>3, <2>3, <2>4, <2>5, <3>1, <3>2
  <2>7. CASE ~MarkerFails
    <3> DEFINE o == IF phase_publish(agent.i) THEN "publish_failed" ELSE "store_failed"
    <3>1. Result(r, o) /\ o \in {"publish_failed", "store_failed"}
      BY <1>9, <2>7 DEF fail_after_materialization
    <3> HIDE DEF o
    <3>2. Ends(o)
      <4>1. o \in Outcomes
        BY <3>1 DEF Outcomes
      <4> QED BY <1>0, <3>1, <4>1, ResultIs
    <3>3. "failed" \in w.done
      BY <1>1, <2>3, <2>7, WriteGrowsDone
    <3>4. Kept(o, w)
      BY <2>4, <3>1, <3>3 DEF Kept
    <3> HIDE DEF d, r
    <3> QED BY <1>3, <2>3, <2>4, <2>5, <3>2, <3>4
  <2> QED BY <2>6, <2>7
<1> QED BY <1>5, <1>6, <1>7, <1>8, <1>9 DEF ResultSteps

LEMMA DyingHolds ==
    ASSUME Tidy, DirsHold, Dying
    PROVE  DirsHold'
<1>0. local \in [Run -> Dir] /\ outcome' = outcome
  BY DyingIs DEF Tidy, TypeOK
<1>1. CurrentHolds' /\ WrittenSoFar' /\ Collected'
  BY DyingIs, ElsewhereHolds DEF Elsewhere
<1>2. RunsKept' /\ LatestValid'
  <2>1. CASE local' = local /\ latest' = latest
    BY <1>0, <2>1 DEF DirsHold, RunsKept, LatestValid
  <2>2. CASE /\ agent.at = "writing" /\ Item \in LocalName
             /\ \E w \in LeftBehind(local[agent.run], Item) :
                    local' = [local EXCEPT ![agent.run] = w]
             /\ UNCHANGED latest
    <3> DEFINE r == agent.run
    <3>1. PICK w \in LeftBehind(local[r], Item) : local' = [local EXCEPT ![r] = w]
      BY <2>2
    <3>2. r \in Run /\ outcome[r] = "started"
      BY <2>2, WritingHolds
    <3>3. ("manifest" \in w.done => Valid(w)) /\ (Valid(local[r]) => Valid(w))
      BY <2>2, <3>1, PartHolds
    <3>4. OneDir(r, w, "started")
      BY <1>0, <3>1, <3>2 DEF OneDir
    <3>5. Kept("started", w)
      BY <3>3 DEF Kept
    <3> QED BY <2>2, <3>2, <3>3, <3>4, <3>5, OneDirKept
  <2>3. CASE /\ agent.at = "writing" /\ Item = "LATEST"
             /\ latest' = agent.run /\ local' = local
    <3> DEFINE r == agent.run
    <3>1. /\ r \in Run /\ agent.i \in 1 .. Len(WriteOrder)
          /\ agent.i > Len(Artifacts) + 1 => Valid(local[r])
      BY <2>3, WritingHolds
    <3>2. Len(Artifacts) \in Nat /\ agent.i = Len(Artifacts) + 3
      BY <2>3, <3>1, Places DEF Item
    <3>3. Valid(local[r])
      BY <3>1, <3>2
    <3>4. RunsKept'
      BY <1>0, <2>3 DEF DirsHold, RunsKept
    <3> QED BY <2>3, <3>3, <3>4 DEF LatestValid
  <2>4. CASE \E r \in Run : StartupGcStops(r)
    <3>1. PICK r \in Run : StartupGcStops(r)
      BY <2>4
    <3>2. PICK kept \in SUBSET local[r].done, tmp \in SUBSET local[r].tmp :
              /\ gc_partial(local[r]).done \subseteq kept
              /\ local' = [local EXCEPT ![r].done = kept, ![r].tmp = tmp]
      BY <3>1 DEF StartupGcStops
    <3> DEFINE h == [local[r] EXCEPT !.done = kept, !.tmp = tmp]
    <3>3. local[r] \in Dir /\ UNCHANGED latest
      BY <1>0, <3>1 DEF StartupGcStops
    <3>4. local' = [local EXCEPT ![r] = h]
      BY <1>0, <3>2, <3>3 DEF Dir
    <3>5. Kept(outcome[r], local[r])
      BY DEF DirsHold, RunsKept
    <3>6. Kept(outcome[r], h) /\ (Valid(local[r]) => Valid(h))
      BY <3>2, <3>3, <3>5, HalfGcKeeps
    <3> HIDE DEF h
    <3>7. OneDir(r, h, outcome[r])
      BY <1>0, <3>4 DEF OneDir
    <3> QED BY <3>3, <3>6, <3>7, OneDirKept
  <2> QED BY <2>1, <2>2, <2>3, <2>4 DEF Dying, Death
<1> QED BY <1>1, <1>2 DEF DirsHold

LEMMA RecordingHolds ==
    ASSUME Tidy, DirsHold, Recording
    PROVE  DirsHold'
<1>0. /\ local \in [Run -> Dir] /\ outcome \in [Run -> Outcomes] /\ agent \in Agents
      /\ "Writing" \in LocalName
  BY DEF Tidy, TypeOK, LocalName
<1>1. PICK r \in Run : startup_gc(r) \/ record_start_checkpoint(r) \/ StartFails(r)
  BY DEF Recording
<1>2. local[r] \in Dir /\ Kept(outcome[r], local[r]) /\ UNCHANGED latest
  BY <1>0, <1>1 DEF DirsHold, RunsKept, startup_gc, record_start_checkpoint, StartFails
<1>3. ASSUME NEW d \in Dir, NEW o, local' = [local EXCEPT ![r] = d],
             outcome' = [outcome EXCEPT ![r] = o], Kept(o, d), Valid(local[r]) => Valid(d)
      PROVE  RunsKept' /\ LatestValid'
  <2>1. OneDir(r, d, o)
    BY <1>0, <1>3 DEF OneDir
  <2> QED BY <1>2, <1>3, <2>1, OneDirKept
<1>4. CASE startup_gc(r)
  <2> DEFINE d == gc_partial(local[r])
  <2>1. /\ agent.at = "collect" /\ agent' = [agent EXCEPT !.gc = agent.gc \ {r}]
        /\ local' = [local EXCEPT ![r] = d] /\ outcome' = outcome
    BY <1>0, <1>4 DEF startup_gc, recordVars, Agents
  <2>2. /\ Kept(outcome[r], d) /\ (Valid(local[r]) => Valid(d))
        /\ d.made => "manifest" \in d.done
    BY <1>2, GcKeeps
  <2>3. d \in Dir
    BY <1>0, <1>2, DirIs
  <2> HIDE DEF d
  <2>4. outcome' = [outcome EXCEPT ![r] = outcome[r]]
    BY <1>0, <2>1
  <2>5. RunsKept' /\ LatestValid'
    BY <1>3, <2>1, <2>2, <2>3, <2>4
  <2>6. agent'.at = "collect" /\ agent'.gc = agent.gc \ {r}
    BY <1>0, <2>1 DEF Agents
  <2>7. Collected'
    <3> SUFFICES ASSUME NEW q \in Run, q \notin agent'.gc, local'[q].made
                 PROVE  "manifest" \in local'[q].done
      BY DEF Collected
    <3>1. CASE q = r
      BY <1>0, <2>1, <2>2, <3>1
    <3>2. CASE q # r
      <4>1. local'[q] = local[q] /\ q \notin agent.gc
        BY <1>0, <2>1, <2>6, <3>2
      <4> QED BY <2>1, <4>1 DEF DirsHold, Collected
    <3> QED BY <3>1, <3>2
  <2>8. CurrentHolds' /\ WrittenSoFar'
    BY <2>6 DEF CurrentHolds, WrittenSoFar
  <2> QED BY <2>5, <2>7, <2>8 DEF DirsHold
<1>5. CASE record_start_checkpoint(r) \/ StartFails(r)
  <2>1. outcome[r] = "none" /\ agent.at = "serving"
    BY <1>5, UnusedIs DEF record_start_checkpoint, StartFails
  <2>2. local[r] = NoDir
    BY <1>2, <2>1 DEF Kept
  <2>3. local[r].done = {} /\ ~Valid(local[r])
    BY <2>2 DEF NoDir, Valid
  <2>4. "manifest" # "Writing" /\ "failed" # "Writing"
    OBVIOUS
  <2>5. CASE record_start_checkpoint(r)
    <3> DEFINE d == WriteDone(local[r], "Writing")
    <3>1. /\ local' = [local EXCEPT ![r] = d]
          /\ outcome' = [outcome EXCEPT ![r] = "started"]
          /\ agent' = [agent EXCEPT !.at = "resume", !.run = r]
      BY <1>0, <2>5 DEF record_start_checkpoint
    <3>2. d \in Dir /\ d.done = local[r].done \cup {"Writing"} /\ d.made
      BY <1>0, <1>2, DirIs, WriteGrowsDone
    <3> HIDE DEF d
    <3>3. Kept("started", d) /\ "failed" \notin d.done
      BY <2>3, <2>4, <3>2 DEF Kept
    <3>4. RunsKept' /\ LatestValid'
      BY <1>3, <2>3, <3>1, <3>2, <3>3
    <3>5. agent'.at = "resume" /\ agent'.run = r
      BY <1>0, <3>1 DEF Agents
    <3>6. local'[r] = d /\ outcome'[r] = "started"
      BY <1>0, <3>1
    <3>7. CurrentHolds' /\ WrittenSoFar' /\ Collected'
      BY <3>2, <3>3, <3>5, <3>6 DEF CurrentHolds, WrittenSoFar, Collected
    <3> QED BY <3>4, <3>7 DEF DirsHold
  <2>6. CASE StartFails(r)
    <3> DEFINE m == [local[r] EXCEPT !.made = TRUE]
    <3>1. PICK d \in LeftBehind(m, "Writing") : local' = [local EXCEPT ![r] = d]
      BY <2>6 DEF StartFails
    <3>2. m \in Dir /\ m.done = local[r].done
      BY <1>2 DEF Dir
    <3>3. outcome' = [outcome EXCEPT ![r] = "refused"] /\ agent' = agent
      BY <2>6 DEF StartFails
    <3> HIDE DEF m
    <3>4. d \in Dir /\ d.done \subseteq m.done \cup {"Writing"}
      BY <1>0, <3>1, <3>2, WriteGrows
    <3>5. Kept("refused", d)
      BY <2>3, <2>4, <3>2, <3>4 DEF Kept
    <3>6. RunsKept' /\ LatestValid'
      BY <1>3, <2>3, <3>1, <3>3, <3>4, <3>5
    <3>7. CurrentHolds' /\ WrittenSoFar' /\ Collected'
      BY <2>1, <3>3, ElsewhereHolds DEF Elsewhere
    <3> QED BY <3>6, <3>7 DEF DirsHold
  <2> QED BY <1>5, <2>5, <2>6
<1> QED BY <1>1, <1>4, <1>5

LEMMA StartingHolds ==
    ASSUME Tidy, DirsHold, Starting \/ prepare_resume
    PROVE  DirsHold'
<1>0. agent \in Agents
  BY DEF Tidy, TypeOK
<1>1. UNCHANGED <<local, latest, outcome>>
  BY DEF Starting, claim_checkpoint_root, collect_startup_partials, AgentStops,
         WorkloadExits, StartAfresh, PublisherEnds, prepare_resume, diskVars, recordVars
<1>2. RunsKept' /\ LatestValid'
  BY <1>1 DEF DirsHold, RunsKept, LatestValid
<1>3. CurrentHolds' /\ WrittenSoFar' /\ Collected'
  <2>1. CASE claim_checkpoint_root
    <3>1. agent'.at = "collect" /\ agent'.gc = {r \in Run : local[r].made}
      BY <1>0, <2>1 DEF claim_checkpoint_root, Agents
    <3> QED BY <1>1, <3>1 DEF CurrentHolds, WrittenSoFar, Collected
  <2>2. CASE collect_startup_partials \/ AgentStops \/ PublisherEnds
    <3>1. agent'.at \in {"serving", "down"}
      BY <1>0, <2>2, AgentDownIs
         DEF collect_startup_partials, AgentStops, PublisherEnds, Agents
    <3> QED BY <3>1, ElsewhereHolds DEF Elsewhere
  <2>3. CASE WorkloadExits
    <3>1. /\ agent.at = "running" /\ agent'.at = "writing" /\ agent'.run = agent.run
          /\ agent'.i = 1
      BY <1>0, <2>3 DEF WorkloadExits, Agents
    <3>2. SoFar(1, local'[agent.run].done)
      BY DEF SoFar
    <3> QED BY <1>1, <3>1, <3>2 DEF DirsHold, CurrentHolds, WrittenSoFar, Collected
  <2>4. CASE StartAfresh \/ prepare_resume
    <3>1. agent.at = "resume" /\ agent'.at = "running" /\ agent'.run = agent.run
      BY <1>0, <2>4 DEF StartAfresh, prepare_resume, Started, Agents
    <3> QED BY <1>1, <3>1 DEF DirsHold, CurrentHolds, WrittenSoFar, Collected
  <2> QED BY <2>1, <2>2, <2>3, <2>4 DEF Starting
<1> QED BY <1>2, <1>3 DEF DirsHold

LEMMA RefusedHolds ==
    ASSUME Tidy, DirsHold, ResumeRefused
    PROVE  DirsHold'
<1> DEFINE r == agent.run
<1>0. /\ agent \in Agents /\ r \in Run /\ outcome \in [Run -> Outcomes]
      /\ Kept(outcome[r], local[r]) /\ outcome[r] = "started"
  BY DEF Tidy, TypeOK, AgentTidy, ResumeRefused, DirsHold, RunsKept, CurrentHolds
<1>1. /\ UNCHANGED <<local, latest>> /\ outcome' = [outcome EXCEPT ![r] = "refused"]
      /\ agent'.at = "serving"
  BY <1>0 DEF ResumeRefused, diskVars, Agents
<1>2. OneDir(r, local[r], "refused") /\ Kept("refused", local[r])
  BY <1>0, <1>1 DEF OneDir, Kept
<1>3. RunsKept' /\ LatestValid'
  BY <1>0, <1>1, <1>2, OneDirKept
<1>4. CurrentHolds' /\ WrittenSoFar' /\ Collected'
  BY <1>1, ElsewhereHolds DEF Elsewhere
<1> QED BY <1>3, <1>4 DEF DirsHold

LEMMA DirsHoldStep ==
    ASSUME Tidy, DirsHold, [Next]_vars
    PROVE  DirsHold'
<1>1. CASE Working \/ Rotting \/ Publishing \/ UNCHANGED vars
  <2>1. UNCHANGED <<local, latest, outcome, agent>>
    <3>1. CASE Working
      BY <3>1, WorkingIs
    <3>2. CASE Rotting
      BY <3>2 DEF Rotting, Rot, recordVars
    <3>3. CASE Publishing
      BY <3>3, PublishingIs DEF OnlyPub, recordVars
    <3>4. CASE UNCHANGED vars
      BY <3>4 DEF vars
    <3> QED BY <1>1, <3>1, <3>2, <3>3, <3>4
  <2>2. RunsKept' /\ LatestValid'
    BY <2>1 DEF DirsHold, RunsKept, LatestValid
  <2>3. CurrentHolds' /\ WrittenSoFar' /\ Collected'
    BY <2>1 DEF DirsHold, CurrentHolds, WrittenSoFar, Collected
  <2> QED BY <2>2, <2>3 DEF DirsHold
<1> QED BY <1>1, NextIs, DyingHolds, RecordingHolds, StartingHolds, RefusedHolds,
           ResultHolds

\* A result that was written is found again after every death and start-up
\* collection, one whose failure was marked never is, and a manifest and
\* LATEST always stand for a whole directory.
THEOREM ResultsKept == Spec => []CollectionKeepsResults
<1>1. Init => Tidy /\ DirsHold
  <2> SUFFICES ASSUME Init
               PROVE  DirsHold
    BY TidyInit
  <2>1. /\ agent.at = "down" /\ latest = None
        /\ \A r \in Run : local[r] = NoDir /\ outcome[r] = "none"
    BY AgentDownIs DEF Init
  <2>2. NoDir.done = {} /\ \A r \in Run : latest # r
    BY <2>1, BoundsAssumption DEF NoDir
  <2> QED BY <2>1, <2>2 DEF DirsHold, RunsKept, LatestValid, CurrentHolds, WrittenSoFar,
             Collected, Kept
<1>2. Tidy /\ DirsHold /\ [Next]_vars => (Tidy /\ DirsHold)'
  BY TidyStep, DirsHoldStep
<1>3. DirsHold => CollectionKeepsResults
  <2> SUFFICES ASSUME DirsHold, NEW r \in Run
               PROVE  /\ outcome[r] = "ok" => find_resume_point_for(r)
                      /\ outcome[r] = "publish_failed" => ~find_resume_point_for(r)
                      /\ "manifest" \in local[r].done => load_valid_manifest(r)
                      /\ (agent.at = "collect" /\ r \notin agent.gc /\ local[r].made) =>
                            "manifest" \in local[r].done
                      /\ latest = r => load_valid_manifest(latest)
    BY DEF CollectionKeepsResults
  <2>1. load_valid_manifest(r) <=> Valid(local[r])
    BY DEF load_valid_manifest, Valid
  <2>2. Kept(outcome[r], local[r]) /\ (latest = r => Valid(local[r]))
    BY DEF DirsHold, RunsKept, LatestValid
  <2>3. agent.at = "collect" /\ r \notin agent.gc /\ local[r].made =>
            "manifest" \in local[r].done
    BY DEF DirsHold, Collected
  <2>4. latest = r => load_valid_manifest(latest)
    BY <2>1, <2>2
  <2> QED BY <2>1, <2>2, <2>3, <2>4 DEF Kept, find_resume_point_for, is_resume_candidate
<1> QED BY <1>1, <1>2, <1>3, PTL DEF Spec
=============================================================================

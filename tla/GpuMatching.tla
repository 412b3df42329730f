---------------------------- MODULE GpuMatching ----------------------------
(***************************************************************************)
(* coordinator/gpu_attestation.rs: the declared GPUs of a node are matched *)
(* with those that the node observed.  Every declared GPU needs an         *)
(* observed one of its own; match_declaration looks for augmenting paths.  *)
(*                                                                         *)
(* augment is recursive: calls is the stack of its calls, the innermost    *)
(* last, each with its declared GPU and the observed one its loop is at.   *)
(***************************************************************************)
EXTENDS GpuAttestation, FiniteSets

CONSTANT PairingQuestions   \* pairs of declared and observed GPUs

VARIABLES
    question,   \* the arguments of match_declaration
    turn,       \* the declared GPU that the outer loop is at
    calls,
    visited,    \* seen: the observed GPUs that this turn has looked at
    ownerOf,    \* owner: of each observed GPU the declared one it is paired with, or 0
    verdict     \* of the search, or that there is none

matchVars == <<question, turn, calls, visited, ownerOf, verdict>>

\* Both are slices: numbered from 1, of a finite length.
ASSUME PairingAssumption ==
    \A q \in PairingQuestions : \A k \in {1, 2} :
        Len(q[k]) \in Nat /\ DOMAIN q[k] = 1 .. Len(q[k])

Declared == question[1]

Observed == question[2]

\* The call of augment that is running.
Running == calls[Len(calls)]

MatchInit ==
    /\ question = <<<<>>, <<>>>>
    /\ turn = 0
    /\ calls = <<>>
    /\ visited = {}
    /\ ownerOf = <<>>
    /\ verdict = "idle"

\* The head of the outer loop, for the next declared GPU if there is one.
Turn(i, declared) ==
    /\ turn' = i
    /\ visited' = {}
    /\ IF i <= Len(declared)
       THEN calls' = <<[gpu |-> i, at |-> 1]>> /\ verdict' = "searching"
       ELSE calls' = <<>> /\ verdict' = "paired"

MatchDeclaration(q) ==
    /\ verdict = "idle"
    /\ question' = q
    /\ ownerOf' = [j \in DOMAIN q[2] |-> 0]
    /\ Turn(1, q[1])

-----------------------------------------------------------------------------
(* augment. *)

\* Mutant of the next definition: a GPU that has an owner is taken for good.
PassedOverGreedily(i, j) ==
    j \in visited \/ ~Fits(Declared[i], Observed[j]) \/ ownerOf[j] # 0

PassedOver(i, j) == j \in visited \/ ~Fits(Declared[i], Observed[j])

LooksAtNext ==
    /\ verdict = "searching"
    /\ Running.at <= Len(Observed)
    /\ PassedOver(Running.gpu, Running.at)
    /\ calls' = [calls EXCEPT ![Len(calls)].at = @ + 1]
    /\ UNCHANGED <<question, turn, visited, ownerOf, verdict>>

\* The observed GPU has an owner, who looks for another one first.
AsksOwner ==
    /\ verdict = "searching"
    /\ Running.at <= Len(Observed)
    /\ ~PassedOver(Running.gpu, Running.at)
    /\ ownerOf[Running.at] # 0
    /\ visited' = visited \cup {Running.at}
    /\ calls' = Append(calls, [gpu |-> ownerOf[Running.at], at |-> 1])
    /\ UNCHANGED <<question, turn, ownerOf, verdict>>

\* The observed GPU is free: true is returned through all calls, and each takes the
\* GPU it is at.
TakesFree ==
    /\ verdict = "searching"
    /\ Running.at <= Len(Observed)
    /\ ~PassedOver(Running.gpu, Running.at)
    /\ ownerOf[Running.at] = 0
    /\ ownerOf' = [j \in DOMAIN ownerOf |->
                      IF \E c \in DOMAIN calls : calls[c].at = j
                      THEN calls[CHOOSE c \in DOMAIN calls : calls[c].at = j].gpu
                      ELSE ownerOf[j]]
    /\ Turn(turn + 1, Declared)
    /\ UNCHANGED question

\* Nothing is left for the running call: its caller goes on with the next GPU, and
\* without a caller the declaration is refused.
ReturnsFalse ==
    /\ verdict = "searching"
    /\ Running.at > Len(Observed)
    /\ IF Len(calls) = 1
       THEN calls' = <<>> /\ verdict' = "unpaired"
       ELSE /\ calls' = [SubSeq(calls, 1, Len(calls) - 1) EXCEPT ![Len(calls) - 1].at = @ + 1]
            /\ UNCHANGED verdict
    /\ UNCHANGED <<question, turn, visited, ownerOf>>

\* The result is used, and the next question may come.
Reset ==
    /\ verdict \in {"paired", "unpaired"}
    /\ question' = <<<<>>, <<>>>> /\ turn' = 0 /\ calls' = <<>>
    /\ visited' = {} /\ ownerOf' = <<>> /\ verdict' = "idle"

MatchNext ==
    \/ \E q \in PairingQuestions : MatchDeclaration(q)
    \/ LooksAtNext
    \/ AsksOwner
    \/ TakesFree
    \/ ReturnsFalse
    \/ Reset

-----------------------------------------------------------------------------

VerdictRight ==
    /\ verdict = "paired" => Pairable(Declared, Observed)
    /\ verdict = "unpaired" => ~Pairable(Declared, Observed)

\* What a step of the search can only use up.
SearchBounded ==
    /\ turn \in 1 .. Len(Declared)
    /\ visited \subseteq 1 .. Len(Observed)
    /\ Running.at \in 1 .. Len(Observed) + 1

SearchAdvances ==
    \/ turn' > turn
    \/ turn' = turn /\ visited' # visited /\ visited \subseteq visited'
    \/ turn' = turn /\ visited' = visited /\ Len(calls') < Len(calls)
    \/ /\ turn' = turn /\ visited' = visited /\ Len(calls') = Len(calls)
       /\ Running'.at > Running.at

\* The search says that declared and observed GPUs can be paired exactly if they
\* can (a greedy search would call an honest node a liar, gpu_attestation.rs:109-123),
\* and it comes to an end: each step uses up something of which there is a finite
\* amount.
PairingFound ==
    [][/\ VerdictRight'
       /\ verdict = "searching" => /\ SearchBounded
                                   /\ verdict' = "searching" => SearchAdvances]_matchVars

=============================================================================

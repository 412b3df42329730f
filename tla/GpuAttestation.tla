--------------------------- MODULE GpuAttestation ---------------------------
(***************************************************************************)
(* coordinator/gpu_attestation.rs: when the GPUs a node observed bear out  *)
(* the ones that were declared for it.  How match_declaration finds that   *)
(* out is in GpuMatching.                                                  *)
(***************************************************************************)
EXTENDS Integers, Sequences

CONSTANT Unset         \* the declaration leaves this open

\* An id that has the form of a UUID must be the UUID of the observed GPU.
Fits(d, o) ==
    /\ d.uuid = Unset \/ d.uuid = o.uuid
    /\ d.model = Unset \/ d.model = o.model
    /\ d.vram = Unset \/ d.vram <= o.vram

\* What match_declaration decides: every declared GPU has an observed one of its
\* own.
Pairable(declared, observed) ==
    \E pairing \in [DOMAIN declared -> DOMAIN observed] :
        /\ \A i, k \in DOMAIN declared : pairing[i] = pairing[k] => i = k
        /\ \A i \in DOMAIN declared : Fits(declared[i], observed[pairing[i]])

=============================================================================

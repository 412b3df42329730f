------------------------------- MODULE Keyring -------------------------------
(***************************************************************************)
(* The keyring of signers: versions of a signer's key in memory, the file  *)
(* they are saved to and loaded from, revocation, quarantine and rotation. *)
(* save writes the file in place, so a crash or a failed write leaves a    *)
(* file whose sealed checksum does not fit.  The clock is set at will.     *)
(***************************************************************************)
EXTENDS Integers, FiniteSets

CONSTANTS
    Torn, Absent,     \* a file that is not whole; no file, no loaded keyring
    Signers,
    Grace,            \* ROTATION_GRACE_PERIOD_MS
    MaxKeyClock,      \* the bound of the clock
    MaxVersions       \* the bound of rotations: keys there are to rotate to

ASSUME KeyringAssumption ==
    /\ Torn # Absent
    /\ Grace \in Nat \ {0}
    /\ MaxKeyClock \in Nat
    /\ MaxVersions \in Nat

VARIABLES
    ring,             \* the keyring in memory, or Absent
    file,             \* the file, Torn, or Absent
    saving,           \* whether a save has begun to write
    keyClock,         \* the clock the process reads
    savedRevoked      \* signers whose revocation a finished save has written

krVars == <<ring, file, saving, keyClock, savedRevoked>>

Forever == MaxKeyClock + Grace + 1

Protections == {"plain", "os", "hardware"}

-----------------------------------------------------------------------------

\* Plaintext needs the caller's consent, hardware is not supported.
ProtectionAllowed(protection, plaintextAllowed) ==
    \/ protection = "plain" /\ plaintextAllowed
    \/ protection = "os"

VersionIsValid(v, now) == v.active /\ v.from <= now /\ now < v.until

StatusAt(r, s, now) ==
    CASE s \notin DOMAIN r.keys -> "UNREGISTERED"
      [] s \in DOMAIN r.keys /\ r.quarantined -> "QUARANTINED"
      [] s \in DOMAIN r.keys /\ ~r.quarantined ->
            IF \E v \in r.keys[s] : VersionIsValid(v, now) THEN "ACTIVE" ELSE "REVOKED"

\* The keys a signature of s is checked with.
LookupCandidates(r, s, now) ==
    IF r.quarantined \/ s \notin DOMAIN r.keys
    THEN {}
    ELSE {v.key : v \in {w \in r.keys[s] : VersionIsValid(w, now)}}

\* The keys that name a signature as one of a retired version.
LookupRetired(r, s, now) ==
    IF r.quarantined \/ s \notin DOMAIN r.keys
    THEN {}
    ELSE {v.key : v \in {w \in r.keys[s] : ~VersionIsValid(w, now)}}

\* The reader refuses a file with a version whose validity is reversed.
Readable(r) == \A s \in DOMAIN r.keys : \A v \in r.keys[s] : v.from < v.until

FirstVersion == [key |-> 1, active |-> TRUE, from |-> 0, until |-> Forever]

WithSigner(r, s, versions) ==
    [r EXCEPT !.keys = [t \in DOMAIN r.keys \cup {s} |->
                            IF t = s THEN versions ELSE r.keys[t]]]

\* A rotation that ends the old versions at once.
RotatedWithoutGrace(versions, key, now) ==
    {IF VersionIsValid(v, now) THEN [v EXCEPT !.until = now] ELSE v :
        v \in versions}
    \cup {[key |-> key, active |-> TRUE, from |-> now, until |-> Forever]}

\* Every version valid now gets an end one grace period away, the new one is
\* valid from now.
RotatedVersions(versions, key, now) ==
    {IF VersionIsValid(v, now) THEN [v EXCEPT !.until = now + Grace] ELSE v :
        v \in versions}
    \cup {[key |-> key, active |-> TRUE, from |-> now, until |-> Forever]}

-----------------------------------------------------------------------------

KeyringInit ==
    /\ ring = Absent
    /\ file = Absent
    /\ saving = FALSE
    /\ keyClock = 0
    /\ savedRevoked = {}

Idle == ring # Absent /\ ~saving

\* PersistentKeyring::new, by the commands only where no file exists.
NewRing ==
    /\ ring = Absent /\ file = Absent
    /\ \E protection \in Protections, plaintextAllowed \in BOOLEAN :
          /\ ProtectionAllowed(protection, plaintextAllowed)
          /\ ring' = [protection |-> protection, quarantined |-> FALSE,
                      keys |-> [s \in {} |-> {}]]
    /\ UNCHANGED <<file, saving, keyClock, savedRevoked>>

\* load: the checksum, the protection, then the fields.
LoadRing ==
    /\ ring = Absent /\ file \notin {Absent, Torn}
    /\ \E plaintextAllowed \in BOOLEAN :
          ProtectionAllowed(file.protection, plaintextAllowed)
    /\ Readable(file)
    /\ ring' = file
    /\ UNCHANGED <<file, saving, keyClock, savedRevoked>>

\* insert_private and insert_public.
Insert(s) ==
    /\ Idle
    /\ s \notin DOMAIN ring.keys
    /\ ring' = WithSigner(ring, s, {FirstVersion})
    /\ UNCHANGED <<file, saving, keyClock, savedRevoked>>

RevokeSigner(s) ==
    /\ Idle
    /\ s \in DOMAIN ring.keys
    /\ ring' = WithSigner(ring, s, {[v EXCEPT !.active = FALSE] : v \in ring.keys[s]})
    /\ UNCHANGED <<file, saving, keyClock, savedRevoked>>

\* quarantine and release_quarantine: the whole keyring, for a known signer.
SetQuarantine(s) ==
    /\ Idle
    /\ s \in DOMAIN ring.keys
    /\ ring' = [ring EXCEPT !.quarantined = ~@]
    /\ UNCHANGED <<file, saving, keyClock, savedRevoked>>

\* A key that any version of the signer has already is refused, so a retired key
\* never comes back.
Rotate(s, key) ==
    /\ Idle
    /\ StatusAt(ring, s, keyClock) = "ACTIVE"
    /\ \A v \in ring.keys[s] : v.key # key
    /\ ring' = WithSigner(ring, s, RotatedVersions(ring.keys[s], key, keyClock))
    /\ UNCHANGED <<file, saving, keyClock, savedRevoked>>

\* save: the file is truncated and written in place.
SaveBegins ==
    /\ Idle
    /\ saving' = TRUE
    /\ file' = Torn
    /\ UNCHANGED <<ring, keyClock, savedRevoked>>

Revoked(r) == {s \in DOMAIN r.keys : \A v \in r.keys[s] : ~v.active}

SaveEnds ==
    /\ saving
    /\ saving' = FALSE
    /\ file' = ring
    /\ savedRevoked' = Revoked(ring)
    /\ UNCHANGED <<ring, keyClock>>

\* A write error: the process goes on with the keyring it has.
SaveFails ==
    /\ saving
    /\ saving' = FALSE
    /\ UNCHANGED <<ring, file, keyClock, savedRevoked>>

\* The process ends, between two steps or in the middle of a save.
RingProcessEnds ==
    /\ ring # Absent
    /\ ring' = Absent
    /\ saving' = FALSE
    /\ UNCHANGED <<file, keyClock, savedRevoked>>

SetKeyClock ==
    /\ keyClock' \in (0 .. MaxKeyClock) \ {keyClock}
    /\ UNCHANGED <<ring, file, saving, savedRevoked>>

KeyringNext ==
    \/ NewRing \/ LoadRing
    \/ \E s \in Signers :
          \/ Insert(s) \/ RevokeSigner(s) \/ SetQuarantine(s)
          \/ \E key \in 1 .. MaxVersions : Rotate(s, key)
    \/ SaveBegins \/ SaveEnds \/ SaveFails
    \/ RingProcessEnds
    \/ SetKeyClock

KeyringSpec == KeyringInit /\ [][KeyringNext]_krVars

-----------------------------------------------------------------------------

\* Once a save has written a revocation, no process that works from the file
\* afterwards, one at a time, verifies with a key of that signer again, whatever it
\* rotates or inserts.  (Two processes at once would write over each other: the
\* file has no lock, and this module has one keyring in memory.)  A
\* signer that is registered and neither revoked nor quarantined has a valid key
\* at every clock reading, the clock set back past a rotation included, and no
\* key is both a candidate and retired.  And a file that a save has finished can
\* be loaded.
\* (keyring.rs rotate, revoke, version_is_valid, lookup_candidates, save, load)
KeysHold ==
    /\ file \notin {Absent, Torn} => Readable(file)
    /\ ring # Absent =>
          /\ \A s \in savedRevoked : LookupCandidates(ring, s, keyClock) = {}
          /\ \A s \in DOMAIN ring.keys :
                /\ (~ring.quarantined /\ s \notin Revoked(ring))
                      => LookupCandidates(ring, s, keyClock) # {}
                /\ LookupCandidates(ring, s, keyClock)
                      \cap LookupRetired(ring, s, keyClock) = {}
=============================================================================

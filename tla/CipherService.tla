---------------------------- MODULE CipherService ----------------------------
(***************************************************************************)
(* encryption_service.go: users who have something encrypted and later      *)
(* decrypted while others rotate the key.  A call takes the key under the   *)
(* lock and works with it outside.  AES-GCM is external: what was sealed    *)
(* opens with the same key and no other.                                    *)
(***************************************************************************)
EXTENDS Integers, FiniteSets

CONSTANTS Users,     \* each with a text of its own
          Keys,      \* what keys are derived to
          NoKey

ASSUME CipherAssumption == NoKey \notin Keys

VARIABLES encryptionKey,
          lastRotation, \* it is not zero
          session,   \* where each user's round trip is
          taken,     \* the key its call took
          box,       \* what encrypt returned: key and text
          opened,    \* what decrypt returned
          rotated    \* history: a rotation was acknowledged since the round trip began

cipherVars == <<encryptionKey, lastRotation, session, taken, box, opened, rotated>>

NoBox == [key |-> NoKey, text |-> NoKey]

CipherTypeOK ==
    /\ encryptionKey \in Keys
    /\ lastRotation \in BOOLEAN
    /\ session \in [Users -> {"idle", "sealing", "sealed", "opening", "opened", "failed"}]
    /\ taken \in [Users -> Keys \cup {NoKey}]
    /\ box \in [Users -> [key : Keys, text : Users] \cup {NoBox}]
    /\ opened \in [Users -> Users \cup {NoKey}]
    /\ rotated \in [Users -> BOOLEAN]

CipherInit ==
    /\ encryptionKey \in Keys
    /\ lastRotation = FALSE
    /\ session = [u \in Users |-> "idle"]
    /\ taken = [u \in Users |-> NoKey]
    /\ box = [u \in Users |-> NoBox]
    /\ opened = [u \in Users |-> NoKey]
    /\ rotated = [u \in Users |-> FALSE]
-----------------------------------------------------------------------------
SessionGoes(u, from, to) == session[u] = from /\ session' = [session EXCEPT ![u] = to]
TakeKey(u) == taken' = [taken EXCEPT ![u] = encryptionKey]

EncryptTakesKey(u) ==
    /\ SessionGoes(u, "idle", "sealing")
    /\ TakeKey(u)
    /\ rotated' = [rotated EXCEPT ![u] = FALSE]
    /\ UNCHANGED <<encryptionKey, lastRotation, box, opened>>

Seal(u) ==
    /\ SessionGoes(u, "sealing", "sealed")
    /\ box' = [box EXCEPT ![u] = [key |-> taken[u], text |-> u]]
    /\ UNCHANGED <<encryptionKey, lastRotation, taken, opened, rotated>>

DecryptTakesKey(u) ==
    /\ SessionGoes(u, "sealed", "opening")
    /\ TakeKey(u)
    /\ UNCHANGED <<encryptionKey, lastRotation, box, opened, rotated>>

\* DecryptData answers 400 when the key does not fit.
Open(u) ==
    /\ IF taken[u] = box[u].key
       THEN /\ SessionGoes(u, "opening", "opened")
            /\ opened' = [opened EXCEPT ![u] = box[u].text]
       ELSE /\ SessionGoes(u, "opening", "failed")
            /\ UNCHANGED opened
    /\ UNCHANGED <<encryptionKey, lastRotation, taken, box, rotated>>

AskAgain(u) ==
    /\ session[u] \in {"opened", "failed"}
    /\ session' = [session EXCEPT ![u] = "idle"]
    /\ taken' = [taken EXCEPT ![u] = NoKey]
    /\ box' = [box EXCEPT ![u] = NoBox]
    /\ opened' = [opened EXCEPT ![u] = NoKey]
    /\ UNCHANGED <<encryptionKey, lastRotation, rotated>>

\* Bug: a key that is too short is padded and used, and refused then.
RotateKeyAnyway(key, long) ==
    /\ encryptionKey' = key
    /\ lastRotation' = (lastRotation \/ long)
    /\ rotated' = [u \in Users |-> rotated[u] \/ long]
    /\ UNCHANGED <<session, taken, box, opened>>

\* Under the lock; a new key of less than 32 characters is answered 400.
RotateKey(key, long) ==
    /\ long
    /\ encryptionKey' = key
    /\ lastRotation' = TRUE
    /\ rotated' = [u \in Users |-> TRUE]
    /\ UNCHANGED <<session, taken, box, opened>>

CipherNext ==
    \/ \E key \in Keys, long \in BOOLEAN : RotateKey(key, long)
    \/ \E u \in Users : \/ EncryptTakesKey(u) \/ Seal(u)
                        \/ DecryptTakesKey(u) \/ Open(u) \/ AskAgain(u)

CipherSpec == CipherInit /\ [][CipherNext]_cipherVars
-----------------------------------------------------------------------------
\* What was encrypted is decrypted to the text it was, or not at all; and not
\* at all only if a rotation that was acknowledged came between the two calls,
\* or into one of them (encryption_service.go:131, 160, 274).
RoundTripUnlessRotated ==
    \A u \in Users :
        /\ session[u] = "opened" => opened[u] = u
        /\ session[u] = "failed" => rotated[u]
=============================================================================

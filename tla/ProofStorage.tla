---------------------------- MODULE ProofStorage ----------------------------
(***************************************************************************)
(* Delivery proofs (storage.py): the private objects, which live in the    *)
(* memory of the process with either adapter, the searchable metadata and  *)
(* the signed links.                                                       *)
(*                                                                         *)
(* One order is modelled.  A body stands for its digest, and so for its    *)
(* key; time is in ticks of a fraction of a second.                        *)
(***************************************************************************)
EXTENDS Integers

CONSTANTS
    Bodies,
    media_of,          \* what the first bytes of a body say, None for neither type
    Oversized,         \* the bodies above max_upload_bytes
    max_ttl_seconds,
    TicksPerSecond,
    MaxTime,           \* bound: the last tick at which a link is redeemed
    None

ASSUME LinkAssumption ==
    max_ttl_seconds \in Nat \ {0} /\ TicksPerSecond \in Nat \ {0} /\ MaxTime \in Nat

Media == {"image/png", "image/jpeg"}

ASSUME MediaAssumption == media_of \in [Bodies -> Media \cup {None}] /\ None \notin Media

FileSuffixes == {"none", ".png", ".jpg"}

VARIABLES
    objects,    \* _objects: body -> the media type stored with it, None when absent
    records     \* committed metadata: body -> media type, None when there is no row

expected_suffix(media) == IF media = "image/png" THEN ".png" ELSE ".jpg"

\* Mutant: the type is what the file name says.
inspect_proof_named(body, suffix) ==
    [valid |-> body \notin Oversized /\ media_of[body] # None,
     media |-> IF suffix = ".jpg" THEN "image/jpeg" ELSE "image/png"]

\* The checks of inspect_proof and _detect_image, and the type they find.
inspect_proof(body, suffix) ==
    [valid |-> /\ body \notin Oversized
               /\ media_of[body] # None
               /\ suffix \in {"none", expected_suffix(media_of[body])},
     media |-> media_of[body]]

StorageInit ==
    /\ objects = [b \in Bodies |-> None]
    /\ records = [b \in Bodies |-> None]

put_private(body, media) == objects' = [objects EXCEPT ![body] = media]

\* What download_proof answers once it has looked for the row.
download_status(body) ==
    IF records[body] = None \/ objects[body] = None THEN 404
    ELSE IF objects[body] # records[body] THEN 500 ELSE 200

-----------------------------------------------------------------------------
(***************************************************************************)
(* ProofLinkSigner.  The signature binds the key and the expiry, so a      *)
(* redeemed link is one that was issued.                                   *)
(***************************************************************************)
timestamp(tick) == tick \div TicksPerSecond

issue_get(now, ttl) == timestamp(now + ttl * TicksPerSecond)

\* Mutant: a link that ends this second is refused.
verify_get_strict(expires, now) ==
    expires > timestamp(now) /\ expires <= timestamp(now) + max_ttl_seconds

verify_get(expires, now) ==
    ~(expires < timestamp(now) \/ expires > timestamp(now) + max_ttl_seconds)

=============================================================================

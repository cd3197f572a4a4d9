------------------------------- MODULE MCApi -------------------------------
(***************************************************************************)
(* A small instance of ApiProcess: two requests are enough to hold every   *)
(* connection and wait for another one.                                    *)
(***************************************************************************)
EXTENDS ApiProcess

CONSTANTS photo, text, huge

MCMedia == [b \in Bodies |-> IF b = text THEN None ELSE "image/png"]

Upload(body, suffix) == [kind |-> "upload", body |-> body, suffix |-> suffix]
Other(kind) == [kind |-> kind, body |-> photo, suffix |-> "none"]

MCInputs ==
    {Upload(photo, "none"), Upload(photo, ".jpg"), Upload(text, "none"),
     Upload(huge, "none"),
     Other("download"), Other("stream"), Other("get")}
=============================================================================

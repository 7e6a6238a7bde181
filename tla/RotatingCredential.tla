------------------------- MODULE RotatingCredential -------------------------
(***************************************************************************)
(* What a refresh-token family of the OAuth vNext token service promises   *)
(* its users, with no clock, rows, requests or clients: a credential is    *)
(* issued once, each generation of it can be exchanged for the next one at *)
(* most once, the scopes it carries never grow, and once it is dead it     *)
(* stays dead.  OAuthTokens implements this specification.                 *)
(*   docs: OAUTH_P0_CONTRACT.md 96-108, OAUTH_ADDITIVE_DATA_MODEL.md 62-72 *)
(***************************************************************************)
EXTENDS Naturals

CONSTANTS Credential,     \* one per authorization, hence per family
          Scope           \* the scopes a credential may carry

VARIABLES phase,          \* "none" before issuance, then "live", then "dead"
          generation,     \* the generation that can still be exchanged
          scopes          \* what the current generation carries

vars == <<phase, generation, scopes>>

Init == /\ phase = [c \in Credential |-> "none"]
        /\ generation = [c \in Credential |-> 0]
        /\ scopes = [c \in Credential |-> {}]

Issue(c) == /\ phase[c] = "none"
            /\ phase' = [phase EXCEPT ![c] = "live"]
            /\ \E S \in (SUBSET Scope) \ {{}} : scopes' = [scopes EXCEPT ![c] = S]
            /\ UNCHANGED generation

Rotate(c) == /\ phase[c] = "live"
             /\ generation' = [generation EXCEPT ![c] = @ + 1]
             /\ \E S \in (SUBSET scopes[c]) \ {{}} :
                   scopes' = [scopes EXCEPT ![c] = S]
             /\ UNCHANGED phase

Kill(c) == /\ phase[c] = "live"
           /\ phase' = [phase EXCEPT ![c] = "dead"]
           /\ UNCHANGED <<generation, scopes>>

Next == \E c \in Credential : Issue(c) \/ Rotate(c) \/ Kill(c)

Spec == Init /\ [][Next]_vars
=============================================================================

------------------------------ MODULE Interop ------------------------------
(***************************************************************************)
(* What Zed exchanges with others, side by side: dependencies on native    *)
(* packages and families of them (NativeInterop), packages in OCI          *)
(* registries (OciDistribution), claims of names (NamespaceClaims), exports*)
(* to Nix and imports from there (NixExports).  They share no variable:    *)
(* what holds of one holds beside the others.                              *)
(***************************************************************************)
EXTENDS NativeInterop, OciDistribution, NamespaceClaims, NixExports

-----------------------------------------------------------------------------
InteropSpec ==
    DependencySpec /\ FamilySpec /\ OciSpec /\ ClaimSpec /\ NixSpec

(* Documents that say the same have the same bytes, so that a digest can   *)
(* stand for what is said: families of packages, OCI records, namespace    *)
(* plans, Nix plans and records, in whatever order their makers found the  *)
(* parts (the canonical bytes of each, and the normalizations below them). *)
SameMeaningSameBytes ==
    /\ FamilyHasOneRecord
    /\ RecordsOfOneArtifactAgree
    /\ PlannersAgree
    /\ PlansAgree
    /\ SealersAgree
=============================================================================

------------------------- MODULE ContainerDocuments -------------------------
(***************************************************************************)
(* The documents that authorize a container attach or describe the         *)
(* artifact behind it, and the verifiers that bind them, in the form of    *)
(* StageDocuments: the attach authorizations V2, V3 and V4, the bootstrap   *)
(* evidence V1, the artifact evidence V4 and V5, the binding of a delivery *)
(* map to its projection, the two artifact manifests, the field matrix and *)
(* the runtime proof bundle.                                               *)
(*                                                                         *)
(* A document that carries another one whole names it as it would name its *)
(* digest.  One of the four container roles is modelled.                   *)
(***************************************************************************)
EXTENDS StageDocuments

-----------------------------------------------------------------------------
(* Attach authorization V2                                                 *)

BootstrapAttachProtocolV2 == "protocol_v2" :> {}
BootstrapWrapperArtifactV2 ==
  "artifact_v2" :> {"protocol_v2", "build_recipe", "static_patch", "provenance"}
BootstrapWrapperManifestV2 ==
  "manifest_v2" :> {"artifact_v2", "protocol_v2", "wrapper_manifest_v1", "delivery_map_v1",
                    "attach_protocol_v1", "allocation_intent"}
DockerAttachControlPolicyV2 == "docker_attach" :> {"executor_control"}
AttachAuthorizationPolicy ==
  "attach_policy" :> {"materialization_intent", "wrapper_manifest_v1", "delivery_map_v1",
                      "attach_protocol_v1", "manifest_v2", "protocol_v2", "docker_attach",
                      "allocation_intent", "allocation_receipt", "observed_allocation",
                      "observed_restore"}
AttachRequestV2 ==
  "request_v2" :> {"protocol_v2", "manifest_v2", "artifact_v2", "delivery_map_v1"}
AttachTicketV2 ==
  "ticket_v2" :> {"request_v2", "protocol_v2", "manifest_v2", "artifact_v2",
                  "delivery_map_v1"}
BootstrapTemplateV2 == "template_v2" :> {"manifest_v2", "artifact_v2", "protocol_v2"}
BootstrapInspectionV2 == "inspection_v2" :> {}

AttachV2Classes ==
  BootstrapAttachProtocolV2 @@ BootstrapWrapperArtifactV2 @@ BootstrapWrapperManifestV2
    @@ DockerAttachControlPolicyV2 @@ AttachAuthorizationPolicy @@ AttachRequestV2
    @@ AttachTicketV2 @@ BootstrapTemplateV2 @@ BootstrapInspectionV2

\* ContainerAttachTicketEnvelopeV2
TicketEnvelopeV2 == Verifier(Of("ticket_v2", {"request_v2"}), {}, {})

\* _v2_template_matches_materialization_predecessor, _v2_artifact_matches_v1_predecessor
\* and container_bootstrap_v2_inspection_matches compare images, networks,
\* mounts and policies: none of the digests a template declares.
VerifyTemplateV2 == Verifier({}, {},
  Of("template_v2", {"artifact_v2", "materialization_intent", "inspection_v2"})
    \cup Of("artifact_v2", {"wrapper_manifest_v1"}))

\* verify_container_attach_v2_authorization
VerifyAttachV2 == Verifier(
  Of("attach_policy", {"materialization_intent", "wrapper_manifest_v1", "delivery_map_v1",
                       "attach_protocol_v1", "manifest_v2", "protocol_v2", "docker_attach"})
    \cup Of("manifest_v2", {"artifact_v2", "protocol_v2", "wrapper_manifest_v1",
                            "delivery_map_v1", "attach_protocol_v1"})
    \cup Of("artifact_v2", {"protocol_v2"})
    \cup Of("delivery_map_v1", {"wrapper_manifest_v1", "attach_protocol_v1"})
    \cup Of("wrapper_manifest_v1", {"attach_protocol_v1"})
    \cup Of("materialization_intent", {"wrapper_manifest_v1", "delivery_map_v1",
                                       "attach_protocol_v1"})
    \cup Of("request_v2", {"protocol_v2", "manifest_v2", "artifact_v2", "delivery_map_v1"})
    \cup Of("ticket_v2", {"request_v2", "protocol_v2", "manifest_v2", "artifact_v2",
                          "delivery_map_v1"}),
  {},
  Of("materialization_intent", {"docker_attach", "attach_policy", "request_v2"})
    \cup Of("request_v2", {"inspection_v2"}))

-----------------------------------------------------------------------------
(* Attach authorization V3                                                 *)

BootstrapAttachProtocolV3 == "protocol_v3" :> {}
TargetDeliveryDescriptorV3 == "descriptor_v3" :> {}
StaticRoleProfileV3 == "profile_v3" :> {"protocol_v3", "descriptor_v3", "delivery_map_v1"}
AttachRequestV3 ==
  "request_v3" :> {"profile_v3", "protocol_v3", "descriptor_v3", "delivery_map_v1"}
AttachTicketV3 ==
  "ticket_v3" :> {"request_v3", "profile_v3", "protocol_v3", "descriptor_v3",
                  "delivery_map_v1"}
RuntimeBindingV3 == "runtime_v3" :> {}
ReplayClaimV3 == "claim_v3" :> {"profile_v3", "request_v3", "ticket_v3"}
ReplayClaimReceiptV3 == "claim_receipt_v3" :> {"claim_v3"}

AttachV3Classes ==
  BootstrapAttachProtocolV3 @@ TargetDeliveryDescriptorV3 @@ StaticRoleProfileV3
    @@ AttachRequestV3 @@ AttachTicketV3 @@ RuntimeBindingV3 @@ ReplayClaimV3
    @@ ReplayClaimReceiptV3

\* ContainerAttachTicketEnvelopeV3
TicketEnvelopeV3 == Verifier(
  Of("ticket_v3", {"request_v3", "profile_v3", "protocol_v3", "descriptor_v3"}), {}, {})

\* validate_container_attach_v3_ticket: the profile carries protocol and
\* descriptor; the delivery map itself is not an input.
ValidateTicketV3 == Verifier(
  Of("profile_v3", {"protocol_v3", "descriptor_v3"})
    \cup Of("request_v3", {"profile_v3", "protocol_v3", "descriptor_v3"}),
  {}, Of("request_v3", {"profile_v3", "runtime_v3"}))

\* claim_container_attach_v3_ticket: the claim is derived from the validation,
\* the authority's receipt is compared with it.
ClaimTicketV3 == Verifier(
  Of("claim_v3", {"profile_v3", "request_v3", "ticket_v3"})
    \cup Of("claim_receipt_v3", {"claim_v3"}), {}, {})

-----------------------------------------------------------------------------
(* Attach authorization V4                                                 *)

StaticDeliveryRouteV4 == "route_v4" :> {}
StaticDeliveryProjectionV4 == "projection_v4" :> {"route_v4"}
StaticLaunchPlanV4 == "launch_plan_v4" :> {}
StaticPatchPreimageV4 == "preimage_v4" :> {"launch_plan_v4"}
StaticPatchPolicyV4 == "patch_policy_v4" :> {"preimage_v4"}
BootstrapAttachProtocolV4 == "protocol_v4" :> {}
StaticRoleProfileV4 ==
  "profile_v4" :> {"projection_v4", "route_v4", "launch_plan_v4", "preimage_v4",
                   "patch_policy_v4", "protocol_v4"}
StaticRoleProfileEnvelopeV4 == "profile_envelope_v4" :> {"profile_v4"}
AttachRequestV4 ==
  "request_v4" :> {"profile_v4", "profile_envelope_v4", "projection_v4", "route_v4",
                   "protocol_v4"}
AttachTicketV4 ==
  "ticket_v4" :> {"request_v4", "profile_v4", "profile_envelope_v4", "projection_v4",
                  "route_v4", "protocol_v4"}
RuntimeBindingV4 == "runtime_v4" :> {}
ReplayClaimV4 == "claim_v4" :> {"profile_v4", "profile_envelope_v4", "request_v4", "ticket_v4"}
ClaimPreparationV4 == "claim_preparation_v4" :> {"claim_v4", "ticket_v4"}
ClaimIntentV4 ==
  "claim_intent_v4" :> {"profile_envelope_v4", "request_v4", "ticket_v4", "runtime_v4",
                        "claim_preparation_v4"}
ReplayClaimReceiptV4 == "claim_receipt_v4" :> {"claim_preparation_v4", "claim_v4"}

ProfileV4Classes ==
  StaticDeliveryRouteV4 @@ StaticDeliveryProjectionV4 @@ StaticLaunchPlanV4
    @@ StaticPatchPreimageV4 @@ StaticPatchPolicyV4 @@ BootstrapAttachProtocolV4
    @@ StaticRoleProfileV4 @@ StaticRoleProfileEnvelopeV4

AttachV4Classes ==
  ProfileV4Classes @@ AttachRequestV4 @@ AttachTicketV4 @@ RuntimeBindingV4
    @@ ReplayClaimV4 @@ ClaimPreparationV4 @@ ClaimIntentV4 @@ ReplayClaimReceiptV4

\* ContainerBootstrapStaticRoleProfileV4.exact_static_role_profile and
\* ContainerBootstrapStaticPatchPolicyV4.exact_patch_policy
ProfilePartsV4 == Verifier(
  Of("profile_v4", {"projection_v4", "route_v4", "launch_plan_v4", "preimage_v4",
                    "patch_policy_v4", "protocol_v4"})
    \cup Of("projection_v4", {"route_v4"}) \cup Of("preimage_v4", {"launch_plan_v4"})
    \cup Of("patch_policy_v4", {"preimage_v4"}),
  {}, {})

\* verify_container_bootstrap_static_role_profile_envelope_v4
VerifyProfileEnvelopeV4 == Verifier(Of("profile_envelope_v4", {"profile_v4"}), {}, {})

\* ContainerAttachTicketEnvelopeV4
TicketEnvelopeV4 == Verifier(
  Of("ticket_v4", {"request_v4", "profile_v4", "profile_envelope_v4", "projection_v4",
                   "route_v4", "protocol_v4"}), {}, {})

\* validate_container_attach_v4_ticket
ValidateTicketV4 == Verifier(
  Of("request_v4", {"profile_v4", "profile_envelope_v4", "projection_v4", "route_v4",
                    "protocol_v4"}),
  {}, Of("request_v4", {"runtime_v4"}))

\* _verify_container_attach_v4_claim_intent
VerifyClaimIntentV4 == Verifier(
  Of("claim_v4", {"profile_v4", "profile_envelope_v4", "request_v4", "ticket_v4"})
    \cup Of("claim_preparation_v4", {"claim_v4", "ticket_v4"})
    \cup Of("claim_intent_v4", {"profile_envelope_v4", "request_v4", "ticket_v4", "runtime_v4",
                                "claim_preparation_v4"}), {}, {})

\* validate_container_attach_v4_claim_receipt
ValidateClaimReceiptV4 == Verifier(
  Of("claim_receipt_v4", {"claim_preparation_v4", "claim_v4"}), {}, {})

-----------------------------------------------------------------------------
(* Bootstrap evidence V1                                                   *)

BuildRecipe == "build_recipe" :> {}
StaticPatch == "static_patch" :> {}
Provenance == "provenance" :> {"build_recipe", "static_patch"}
Sbom == "sbom" :> {"build_recipe", "static_patch"}
Reproducibility ==
  "reproducibility" :> {"build_recipe", "static_patch", "provenance", "sbom"}
EvidenceProfile ==
  "evidence_profile" :> {"artifact_v2", "build_recipe", "static_patch", "provenance", "sbom",
                         "reproducibility"}
EvidenceBundle == "evidence_bundle" :> {"manifest_v2", "protocol_v2", "evidence_profile"}

EvidenceV1Classes ==
  BuildRecipe @@ StaticPatch @@ Provenance @@ Sbom @@ Reproducibility @@ EvidenceProfile
    @@ EvidenceBundle

\* ContainerBootstrapEvidenceProfileV1.exact_hash_chain: every part also
\* states the digest of the artifact's bytes.
EvidenceHashChain == Verifier(
  Of("evidence_profile", {"artifact_v2", "build_recipe", "static_patch", "provenance", "sbom",
                          "reproducibility"})
    \cup Of("artifact_v2", {"build_recipe", "static_patch", "provenance"})
    \cup Of("provenance", {"build_recipe", "static_patch"})
    \cup Of("sbom", {"build_recipe", "static_patch"})
    \cup Of("reproducibility", {"build_recipe", "static_patch", "provenance", "sbom"}),
  {},
  Of("artifact_v2", {"build_recipe", "static_patch", "provenance", "sbom", "reproducibility"}))

\* verify_container_bootstrap_evidence
VerifyEvidence == Verifier(
  Of("evidence_bundle", {"manifest_v2", "protocol_v2", "evidence_profile"})
    \cup Of("manifest_v2", {"protocol_v2", "artifact_v2"})
    \cup Of("artifact_v2", {"protocol_v2"}), {}, {})

-----------------------------------------------------------------------------
(* Artifact evidence of a V4 profile                                       *)

AttestedProfileV4 ==
  {"profile_v4", "profile_envelope_v4", "projection_v4", "launch_plan_v4", "preimage_v4",
   "patch_policy_v4"}
AttestedProfileV5 ==
  AttestedProfileV4 \cup {"route_v4", "oci_evidence_v5", "worker_policy_v5"}

WorkerTrustPolicyV4 == "worker_policy_v4" :> {}
WorkerAttestationsV4 == [k \in {"first_v4", "second_v4"} |-> AttestedProfileV4]
EvidenceClosureV4 == "closure_v4" :> {"first_v4", "second_v4"}
WorkerTrustPolicyV5 == "worker_policy_v5" :> {}
OciSafeConfigEvidenceV5 == "oci_evidence_v5" :> {}
WorkerAttestationsV5 == [k \in {"first_v5", "second_v5"} |-> AttestedProfileV5]
EvidenceClosureV5 == "closure_v5" :> {"first_v5", "second_v5", "oci_evidence_v5"}

ArtifactEvidenceClasses ==
  WorkerTrustPolicyV4 @@ WorkerAttestationsV4 @@ EvidenceClosureV4 @@ WorkerTrustPolicyV5
    @@ OciSafeConfigEvidenceV5 @@ WorkerAttestationsV5 @@ EvidenceClosureV5

\* validate_container_bootstrap_artifact_evidence_closure_v4: the first
\* attestation is compared with the profile, the second with the first.
ValidateClosureV4 == Verifier(
  Of("closure_v4", {"first_v4", "second_v4"}) \cup Of("first_v4", AttestedProfileV4)
    \cup Of("second_v4", AttestedProfileV4),
  {}, {"first_v4", "second_v4"} \X {"worker_policy_v4"})

\* validate_container_bootstrap_artifact_evidence_closure_v5
ValidateClosureV5 == Verifier(
  Of("closure_v5", {"first_v5", "second_v5", "oci_evidence_v5"})
    \cup Of("first_v5", AttestedProfileV5) \cup Of("second_v5", AttestedProfileV5),
  {}, {})

-----------------------------------------------------------------------------
(* Target delivery                                                         *)

ProjectionBindingPolicy == "binding_policy" :> {"worker_policy_v4"}
ProjectionBinding ==
  "projection_binding" :> {"delivery_map_v1", "projection_v4", "profile_v4",
                           "profile_envelope_v4", "route_v4"}
ArtifactManifestV1 ==
  "delivery_manifest_v1" :> {"delivery_map_v1", "projection_v4", "binding_policy",
                             "profile_v4", "profile_envelope_v4", "route_v4",
                             "projection_binding", "closure_v4"}
ArtifactManifestV2 ==
  "delivery_manifest_v2" :> {"delivery_map_v1", "projection_v4", "binding_policy",
                             "profile_v4", "profile_envelope_v4", "route_v4",
                             "projection_binding", "worker_policy_v5", "closure_v5"}
FieldMatrixPolicy == "matrix_policy" :> {}
FieldMatrix ==
  "field_matrix" :> {"matrix_policy", "delivery_map_v1", "projection_v4",
                     "delivery_manifest_v2"}
RuntimeProofBundle ==
  "proof_bundle" :> {"field_matrix", "matrix_policy", "delivery_map_v1",
                     "delivery_manifest_v2"}

DeliveryClasses ==
  ProjectionBindingPolicy @@ ProjectionBinding @@ ArtifactManifestV1 @@ ArtifactManifestV2
    @@ FieldMatrixPolicy @@ FieldMatrix @@ RuntimeProofBundle

\* validate_target_delivery_map_projection_binding_v1: the projection is
\* computed again from the map; signer keys are those the policy pins.
ValidateProjectionBinding == Verifier(
  Of("profile_v4", {"projection_v4"})
    \cup Of("projection_binding", {"delivery_map_v1", "projection_v4", "profile_v4",
                                   "profile_envelope_v4", "route_v4"}),
  {}, Of("delivery_map_v1", {"projection_v4"})
        \cup Of("binding_policy", {"projection_binding", "delivery_map_v1"}))

\* validate_target_delivery_artifact_manifest_v1 and ..._v2 build the manifest
\* again from the evidence and compare the two.
ValidateArtifactManifestV1 == Verifier(
  Of("delivery_manifest_v1", {"delivery_map_v1", "projection_v4", "binding_policy",
                              "profile_v4", "profile_envelope_v4", "route_v4",
                              "projection_binding", "closure_v4"})
    \cup Of("binding_policy", {"worker_policy_v4"}), {}, {})
ValidateArtifactManifestV2 == Verifier(
  Of("delivery_manifest_v2", {"delivery_map_v1", "projection_v4", "binding_policy",
                              "profile_v4", "profile_envelope_v4", "route_v4",
                              "projection_binding", "worker_policy_v5", "closure_v5"}), {}, {})

\* validate_target_delivery_field_matrix_v1
ValidateFieldMatrix == Verifier(
  Of("field_matrix", {"matrix_policy", "delivery_map_v1", "projection_v4",
                      "delivery_manifest_v2"}), {}, {})

\* validate_per_edge_runtime_proof_bundle_v1
ValidateProofBundle == Verifier(
  Of("proof_bundle", {"field_matrix", "matrix_policy", "delivery_map_v1",
                      "delivery_manifest_v2"}), {}, {})

-----------------------------------------------------------------------------
(* Stages                                                                  *)

AttachV2 == {VerifyAttachV2, TicketEnvelopeV2, VerifyTemplateV2}
ClaimV3 == {TicketEnvelopeV3, ValidateTicketV3, ClaimTicketV3}
ProfileV4 == {ProfilePartsV4, VerifyProfileEnvelopeV4}
ClaimV4 ==
  ProfileV4 \cup {TicketEnvelopeV4, ValidateTicketV4, VerifyClaimIntentV4,
                  ValidateClaimReceiptV4}
EvidenceV1 == {EvidenceHashChain, VerifyEvidence}
DeliveryManifestV1 ==
  ProfileV4 \cup {ValidateClosureV4, ValidateProjectionBinding, ValidateArtifactManifestV1}
ProofBundle ==
  ProfileV4 \cup {ValidateClosureV5, ValidateProjectionBinding, ValidateArtifactManifestV2,
                  ValidateFieldMatrix, ValidateProofBundle}

ContainerClasses ==
  AttachV2Classes @@ AttachV3Classes @@ AttachV4Classes @@ EvidenceV1Classes
    @@ ArtifactEvidenceClasses @@ DeliveryClasses
=============================================================================

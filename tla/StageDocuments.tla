--------------------------- MODULE StageDocuments ---------------------------
(***************************************************************************)
(* The signed documents of the staged lifecycle and the verifiers that     *)
(* bind them: preflight, observed journal, allocation, provider material,  *)
(* executor transport, materialization, start, and the receipts of their   *)
(* effects.                                                                *)
(*                                                                         *)
(* A document class is the set of documents whose digest its fields hold.  *)
(* A verifier is what it compares:                                         *)
(*   digests  <<k, p>>: the digest k holds is the digest of p as filed;    *)
(*   dated    <<k, p>>: the time k states is not before the time p states; *)
(*   alike    <<k, p>>: both hold one identifier or one part (operation,   *)
(*            journal, snapshot epoch, executor, provider references).     *)
(* A digest compared with the digest another verified document holds is    *)
(* listed with the document both name.  Not listed: commits, literals,     *)
(* freshness windows, and the signature each document carries.             *)
(***************************************************************************)
EXTENDS TLC

Of(k, names) == {k} \X names

Verifier(digests, dated, alike) ==
  [digests |-> digests, dated |-> dated, alike |-> alike]

\* What the verifiers of one stage compare together.
Stage(verifiers) ==
  LET all(part) == UNION {v[part] : v \in verifiers}
  IN  [digests |-> all("digests"), dated |-> all("dated"), alike |-> all("alike")]

-----------------------------------------------------------------------------
(* Preflight                                                               *)

Proposal == "proposal" :> {}
RuntimeContract ==
  "contract" :> {"proposal", "approval", "governed_baseline", "target_attestation",
                 "provider_declaration", "registry_verification", "postgres_overlay"}
ApprovalEvidence == "approval" :> {"proposal"}
GovernedBaseline == "governed_baseline" :> {"proposal"}
TargetAttestation == "target_attestation" :> {"proposal"}
ProviderDeclaration == "provider_declaration" :> {"proposal"}
RegistryVerification == "registry_verification" :> {"proposal"}
PostgresOverlay == "postgres_overlay" :> {}

PreflightClasses ==
  Proposal @@ RuntimeContract @@ ApprovalEvidence @@ GovernedBaseline
    @@ TargetAttestation @@ ProviderDeclaration @@ RegistryVerification @@ PostgresOverlay

\* compile_preflight
CompilePreflight == Verifier(
  Of("contract", {"proposal", "approval", "governed_baseline", "target_attestation",
                  "provider_declaration", "registry_verification", "postgres_overlay"})
    \cup Of("approval", {"proposal"}) \cup Of("governed_baseline", {"proposal"})
    \cup Of("target_attestation", {"proposal"}) \cup Of("provider_declaration", {"proposal"})
    \cup Of("registry_verification", {"proposal"}),
  {},
  Of("proposal", {"contract", "approval", "target_attestation", "provider_declaration",
                  "registry_verification", "postgres_overlay"})
    \cup Of("target_attestation", {"provider_declaration", "registry_verification"}))

\* The receipt of the observed journal's genesis and _verify_journal_genesis_binding.
JournalGenesisReceipt == "journal_genesis" :> {"proposal", "contract"}

VerifyJournalGenesis == Verifier(
  Of("journal_genesis", {"proposal", "contract"}), {}, {})

-----------------------------------------------------------------------------
(* Allocation                                                              *)

AllocationIntent ==
  "allocation_intent" :> {"executor_control", "docker_control", "postgres_control",
                          "postgres_prepared"}
ExecutorControlPolicy == "executor_control" :> {"installation_policy"}
DockerEngineControlPolicy == "docker_control" :> {}
PostgreSQLControlPolicy == "postgres_control" :> {}
PostgreSQLPreparedControlPolicy == "postgres_prepared" :> {}
ReplayAuthorityPolicyArtifact == "replay_policy" :> {"allocation_intent"}

AllocationClasses ==
  AllocationIntent @@ ExecutorControlPolicy @@ DockerEngineControlPolicy
    @@ PostgreSQLControlPolicy @@ PostgreSQLPreparedControlPolicy
    @@ ReplayAuthorityPolicyArtifact

\* _verify_allocation_control_policy_bindings: the policies carry one executor
\* identity, and the docker and executor policies one engine.
VerifyAllocationControlPolicies == Verifier(
  Of("allocation_intent", {"executor_control", "docker_control", "postgres_control",
                           "postgres_prepared"}),
  {},
  Of("executor_control", {"docker_control", "postgres_control", "postgres_prepared"})
    \cup Of("allocation_intent", {"postgres_control"}))

\* verify_replay_authority_policy_artifact
VerifyReplayPolicyArtifact == Verifier(Of("replay_policy", {"allocation_intent"}), {}, {})

AllocationExecutorReceipt ==
  "allocation_executor_receipt" :> {"allocation_intent", "docker_control", "postgres_prepared"}
AllocationEffectReceipt ==
  "allocation_receipt" :> {"allocation_intent", "allocation_executor_receipt"}
ObservedAllocation ==
  "observed_allocation" :> {"allocation_intent", "allocation_receipt"}
ObservedRestoreDatabase ==
  "observed_restore" :> {"allocation_intent", "allocation_receipt", "observed_allocation"}

ObservationClasses ==
  AllocationExecutorReceipt @@ AllocationEffectReceipt @@ ObservedAllocation
    @@ ObservedRestoreDatabase

\* _validate_allocation_effect_receipt: the executor signed the resources that
\* the receipt lists, and they are those of the plan.
VerifyAllocationEffect == Verifier(
  Of("allocation_receipt", {"allocation_intent", "allocation_executor_receipt"})
    \cup Of("allocation_executor_receipt", {"allocation_intent", "docker_control",
                                            "postgres_prepared"}),
  {},
  Of("allocation_receipt", {"allocation_intent", "allocation_executor_receipt"})
    \cup Of("allocation_executor_receipt", {"allocation_intent", "executor_control"}))

\* Mutant of VerifyObservedAllocation: the receipt may not precede the observation.
VerifyObservedAllocationEarly == Verifier(
  Of("allocation_receipt", {"allocation_intent"})
    \cup Of("observed_allocation", {"allocation_intent", "allocation_receipt"}),
  Of("allocation_receipt", {"allocation_intent", "observed_allocation"}),
  Of("allocation_intent", {"allocation_receipt", "observed_allocation"}))

\* validate_observed_allocation_transition, and the times
\* _read_allocation_stage_artifacts compares.
VerifyObservedAllocation == Verifier(
  Of("allocation_receipt", {"allocation_intent"})
    \cup Of("observed_allocation", {"allocation_intent", "allocation_receipt"}),
  Of("allocation_receipt", {"allocation_intent"})
    \cup Of("observed_allocation", {"allocation_receipt"}),
  Of("allocation_intent", {"allocation_receipt", "observed_allocation"}))

\* validate_observed_restore_database_transition
VerifyObservedRestore == Verifier(
  Of("observed_restore", {"allocation_intent", "allocation_receipt", "observed_allocation"}),
  {},
  Of("observed_restore", {"allocation_intent", "observed_allocation"}))

-----------------------------------------------------------------------------
(* Provider material                                                       *)

SignerGenesis == "signer_genesis" :> {"allocation_intent"}
ProviderMaterialPolicy == "material_policy" :> {"allocation_intent"}
ProviderFingerprintAttestation ==
  "fingerprint_attestation" :> {"allocation_intent", "material_policy"}
MaterialGenerationReceipt ==
  "generation_receipt" :> {"allocation_intent", "material_policy", "fingerprint_attestation"}
ProviderMaterialGenesis ==
  "material_genesis" :> {"allocation_intent", "material_policy", "fingerprint_attestation",
                         "generation_receipt"}

ProviderClasses ==
  SignerGenesis @@ ProviderMaterialPolicy @@ ProviderFingerprintAttestation
    @@ MaterialGenerationReceipt @@ ProviderMaterialGenesis

\* verify_signer_genesis
VerifySignerGenesis == Verifier(Of("signer_genesis", {"allocation_intent"}), {}, {})

\* _verify_provider_material_policy_at: the seed is that of the signer.
VerifyProviderMaterialPolicy == Verifier(
  Of("material_policy", {"allocation_intent"}), {}, Of("material_policy", {"signer_genesis"}))

\* _verify_provider_fingerprint_attestation_at
VerifyFingerprintAttestation == Verifier(
  Of("fingerprint_attestation", {"allocation_intent", "material_policy"}), {}, {})

\* _verify_material_generation_receipt_at
VerifyGenerationReceipt == Verifier(
  Of("generation_receipt", {"allocation_intent", "material_policy", "fingerprint_attestation"}),
  {}, Of("generation_receipt", {"fingerprint_attestation"}))

\* verify_provider_material_genesis
VerifyMaterialGenesis == Verifier(
  Of("material_genesis", {"allocation_intent", "material_policy", "fingerprint_attestation",
                          "generation_receipt"}), {}, {})

-----------------------------------------------------------------------------
(* Installed executor and its transport                                    *)

ExecutorInstallationPolicy ==
  "installation_policy" :> {"allocation_intent", "wrapper_manifest_v1", "delivery_map_v1",
                            "attach_protocol_v1"}
ExecutorInstallationReceipt ==
  "installation_receipt" :> {"allocation_intent", "installation_policy", "installation_intent"}
ExecutorTransportPolicy ==
  "transport_policy" :> {"allocation_intent", "installation_policy", "installation_receipt"}
SecretCapabilityPolicy ==
  "secret_capability" :> {"fingerprint_attestation", "secret_handling"}
SecretHandlingPolicy ==
  "secret_handling" :> {"allocation_intent", "fingerprint_attestation"}

TransportClasses ==
  ExecutorInstallationPolicy @@ ExecutorInstallationReceipt @@ ExecutorTransportPolicy
    @@ SecretCapabilityPolicy @@ SecretHandlingPolicy

\* _verify_installation_artifacts: package, executable, template bundle, unit
\* and SSH policy of the receipt are those of the policy.
VerifyInstallation == Verifier(
  Of("installation_policy", {"allocation_intent"})
    \cup Of("installation_receipt", {"allocation_intent", "installation_policy"}),
  {}, Of("installation_receipt", {"installation_policy"}))

\* verify_executor_transport_policy
VerifyTransportPolicy == Verifier(
  Of("transport_policy", {"allocation_intent", "installation_policy", "installation_receipt"}),
  {}, Of("transport_policy", {"installation_policy"}))

\* _verify_secret_delivery_policies: the provider identity is an argument, the
\* digest of the fingerprint attestation its caller verified.
VerifySecretPolicies == Verifier(
  Of("secret_capability", {"fingerprint_attestation", "secret_handling"})
    \cup Of("secret_handling", {"allocation_intent", "fingerprint_attestation"}),
  {}, Of("installation_policy", {"secret_capability", "secret_handling"}))

\* load_verified_allocation_backend_artifacts, beside the verifiers it calls.
VerifyAllocationBackend == Verifier(
  Of("transport_policy", {"allocation_intent"}) \cup Of("signer_genesis", {"allocation_intent"})
    \cup Of("executor_control", {"installation_policy"}),
  {}, Of("executor_control", {"installation_policy"}))

-----------------------------------------------------------------------------
(* Materialization and start                                               *)

WrapperManifestV1 == "wrapper_manifest_v1" :> {"allocation_intent", "attach_protocol_v1"}
AttachProtocolV1 == "attach_protocol_v1" :> {}
TargetDeliveryMapV1 ==
  "delivery_map_v1" :> {"allocation_intent", "wrapper_manifest_v1", "attach_protocol_v1",
                        "secret_handling", "observed_restore"}
ExecutorInstallationIntent ==
  "installation_intent" :> {"allocation_intent", "installation_policy"}
MaterializationEvidence ==
  {"allocation_intent", "allocation_receipt", "observed_allocation", "observed_restore",
   "executor_control", "docker_control", "postgres_prepared", "installation_policy",
   "installation_intent", "installation_receipt", "secret_capability", "secret_handling",
   "fingerprint_attestation", "wrapper_manifest_v1", "delivery_map_v1", "attach_protocol_v1"}
MaterializationIntent == "materialization_intent" :> MaterializationEvidence
MaterializationEffectReceipt ==
  "materialization_receipt" :> {"materialization_intent", "allocation_receipt",
                                "observed_allocation", "postgres_prepared",
                                "wrapper_manifest_v1", "delivery_map_v1",
                                "attach_protocol_v1", "materialization_executor_receipt"}
ObservedRuntime ==
  "observed_runtime" :> {"materialization_intent", "materialization_receipt",
                         "observed_allocation", "proposal"}
StartEvidence ==
  {"materialization_intent", "materialization_receipt", "observed_runtime",
   "observed_restore", "executor_control", "installation_policy", "installation_intent",
   "installation_receipt", "secret_capability", "secret_handling",
   "fingerprint_attestation", "wrapper_manifest_v1", "delivery_map_v1", "attach_protocol_v1"}
StartRuntimeIntent == "start_intent" :> StartEvidence

RuntimeClasses ==
  WrapperManifestV1 @@ AttachProtocolV1 @@ TargetDeliveryMapV1
    @@ ExecutorInstallationIntent @@ MaterializationIntent
    @@ MaterializationEffectReceipt @@ ObservedRuntime @@ StartRuntimeIntent

\* _verify_materialization_control_policy_bindings
VerifyMaterializationControlPolicies == Verifier(
  Of("materialization_intent",
     {"executor_control", "docker_control", "postgres_prepared", "secret_capability",
      "secret_handling", "wrapper_manifest_v1", "delivery_map_v1", "attach_protocol_v1",
      "fingerprint_attestation"})
    \cup Of("secret_capability", {"fingerprint_attestation", "secret_handling"})
    \cup Of("secret_handling", {"allocation_intent", "fingerprint_attestation"})
    \cup Of("wrapper_manifest_v1", {"allocation_intent", "attach_protocol_v1"})
    \cup Of("delivery_map_v1", {"allocation_intent", "wrapper_manifest_v1",
                                "attach_protocol_v1", "secret_handling"})
    \cup Of("allocation_intent", {"docker_control", "postgres_prepared"}),
  {},
  Of("executor_control", {"docker_control", "postgres_prepared", "secret_capability",
                          "secret_handling", "materialization_intent"})
    \cup Of("delivery_map_v1", {"allocation_intent", "materialization_intent"}))

\* _verify_executor_installation_chain
VerifyExecutorInstallation == Verifier(
  Of("installation_policy", {"allocation_intent", "wrapper_manifest_v1", "delivery_map_v1",
                             "attach_protocol_v1"})
    \cup Of("executor_control", {"installation_policy"})
    \cup Of("materialization_intent", {"installation_policy", "installation_intent",
                                       "installation_receipt"})
    \cup Of("installation_intent", {"allocation_intent", "installation_policy"})
    \cup Of("installation_receipt", {"allocation_intent", "installation_policy",
                                     "installation_intent"}),
  {},
  Of("installation_policy", {"executor_control", "materialization_intent",
                             "installation_receipt"}))

\* _verify_materialization_intent_chain
VerifyMaterializationIntent == Verifier(
  Of("materialization_intent", {"allocation_intent", "allocation_receipt",
                                "observed_allocation", "observed_restore",
                                "delivery_map_v1"})
    \cup Of("delivery_map_v1", {"allocation_intent", "observed_restore"}),
  Of("observed_restore", {"allocation_receipt"})
    \cup Of("materialization_intent", {"observed_restore"}),
  Of("materialization_intent", {"allocation_intent", "delivery_map_v1"}))

\* validate_observed_runtime_transition
ObservedRuntimeTransition == Verifier(
  Of("materialization_intent", {"allocation_intent", "allocation_receipt",
                                "observed_allocation", "observed_restore"})
    \cup Of("materialization_receipt", {"materialization_intent", "allocation_receipt",
                                        "observed_allocation"})
    \cup Of("observed_runtime", {"materialization_intent", "materialization_receipt",
                                 "observed_allocation", "proposal"}),
  {},
  Of("observed_runtime", {"proposal", "materialization_receipt"})
    \cup Of("materialization_receipt", {"proposal", "materialization_intent"}))

\* The times _read_materialization_stage_artifacts compares.
RuntimeStageTimes ==
  Of("materialization_receipt", {"materialization_intent"})
    \cup Of("observed_restore", {"materialization_receipt"})
    \cup Of("observed_runtime", {"materialization_receipt"})

VerifyMaterializationStage == Verifier({}, RuntimeStageTimes, {})

\* _verify_start_runtime_intent_chain
VerifyStartIntent == Verifier(
  Of("start_intent", StartEvidence), {}, Of("start_intent", {"allocation_intent",
                                                              "materialization_intent"}))

-----------------------------------------------------------------------------
(* Receipts of the two effects that deliver secrets.  A document held whole  *)
(* counts as named.  The delivery request is part of its intent, the attach  *)
(* request is made again from what it must name.                             *)

SecretDeliveryReceipt == "secret_delivery_receipt" :> {}
ContainerAttachReceipt ==
  "attach_receipt_v1" :> {"wrapper_manifest_v1", "delivery_map_v1", "attach_protocol_v1"}
MaterializationExecutorReceipt ==
  "materialization_executor_receipt" :>
    {"materialization_intent", "installation_receipt", "observed_allocation", "docker_control",
     "wrapper_manifest_v1", "delivery_map_v1", "attach_protocol_v1",
     "secret_delivery_receipt", "attach_receipt_v1"}
StartRuntimeExecutorReceipt ==
  "start_executor_receipt" :>
    {"start_intent", "installation_receipt", "wrapper_manifest_v1", "delivery_map_v1",
     "attach_protocol_v1", "secret_delivery_receipt", "attach_receipt_v1"}
StartRuntimeEffectReceipt ==
  "start_receipt" :>
    {"start_intent", "materialization_receipt", "wrapper_manifest_v1", "delivery_map_v1",
     "attach_protocol_v1", "start_executor_receipt"}

EffectClasses ==
  SecretDeliveryReceipt @@ ContainerAttachReceipt @@ MaterializationExecutorReceipt
    @@ StartRuntimeExecutorReceipt @@ StartRuntimeEffectReceipt

\* _verify_local_attach_evidence: session and operation are the intent's,
\* component and container those of the inspection beside it.
VerifyLocalAttach(intent, inspecting) == Verifier(
  Of("attach_receipt_v1", {"wrapper_manifest_v1", "delivery_map_v1", "attach_protocol_v1"}),
  {}, Of("attach_receipt_v1", {intent, inspecting}))

\* _bootstrap_inspection_matches
InspectionMatches == Verifier(
  {}, {}, Of("materialization_receipt", {"materialization_intent"})
            \cup Of("materialization_executor_receipt", {"materialization_receipt"}))

\* _validate_materialization_effect_receipt, beside the two above.
VerifyMaterializationEffect == Verifier(
  Of("materialization_receipt", {"materialization_intent", "allocation_receipt",
                                 "observed_allocation", "postgres_prepared",
                                 "wrapper_manifest_v1", "delivery_map_v1",
                                 "attach_protocol_v1", "materialization_executor_receipt"})
    \cup Of("materialization_executor_receipt",
            {"materialization_intent", "observed_allocation", "docker_control",
             "wrapper_manifest_v1", "delivery_map_v1", "attach_protocol_v1",
             "secret_delivery_receipt", "attach_receipt_v1"}),
  {},
  Of("materialization_executor_receipt", {"executor_control"})
    \cup Of("secret_delivery_receipt", {"materialization_intent"})
    \cup Of("materialization_receipt", {"observed_allocation"}))

\* _validate_start_runtime_effect_receipt, beside the attach evidence: the
\* digests of manifest, map and protocol are compared only within the receipt.
VerifyStartEffect == Verifier(
  Of("start_receipt", {"start_intent", "materialization_receipt", "start_executor_receipt"})
    \cup Of("start_executor_receipt", {"start_intent", "installation_receipt",
                                       "secret_delivery_receipt", "attach_receipt_v1"}),
  {},
  Of("start_receipt", {"materialization_intent"})
    \cup Of("start_executor_receipt", {"materialization_receipt"})
    \cup Of("secret_delivery_receipt", {"start_intent"}))

\* What the context of a start holds, of all that _verify_start_runtime_intent_chain
\* compared: the rest is a circle with the allocation intent (Start).
StartContext == Verifier(
  Of("start_intent", {"materialization_intent", "materialization_receipt",
                      "installation_receipt", "wrapper_manifest_v1", "delivery_map_v1",
                      "attach_protocol_v1"}),
  {}, Of("start_intent", {"materialization_intent"}))

-----------------------------------------------------------------------------
(* Stages: what one authorization reads and verifies together.             *)

Preflight == {CompilePreflight}
Allocate == {VerifyAllocationControlPolicies, VerifyReplayPolicyArtifact}
ProviderMaterial ==
  {VerifySignerGenesis, VerifyProviderMaterialPolicy, VerifyFingerprintAttestation,
   VerifyGenerationReceipt, VerifyMaterialGenesis}
AllocationObserved ==
  {VerifyReplayPolicyArtifact, VerifyObservedAllocation, VerifyObservedRestore}
Transport == {VerifySignerGenesis, VerifyInstallation, VerifyTransportPolicy}

\* load_keychain_secret_material_capability over a verified transport.
SecretDelivery == Transport \cup ProviderMaterial \cup {VerifySecretPolicies}

\* load_verified_allocation_backend_artifacts and what it is given.
Backend == Transport \cup {VerifyAllocationControlPolicies, VerifyAllocationBackend}

Materialize ==
  ProviderMaterial
    \cup {VerifyReplayPolicyArtifact, VerifyObservedAllocation, VerifyObservedRestore,
          VerifyAllocationControlPolicies, VerifyMaterializationControlPolicies,
          VerifyExecutorInstallation, VerifyMaterializationIntent}

MaterializationStage ==
  {VerifyObservedRestore, ObservedRuntimeTransition, VerifyMaterializationStage}

\* The receipts an effect returns, with what its context holds.
AllocationEffect == Allocate \cup {VerifyAllocationEffect}

MaterializationEffect ==
  {VerifyMaterializationControlPolicies, VerifyMaterializationIntent,
   VerifyLocalAttach("materialization_intent", "materialization_executor_receipt"),
   InspectionMatches, VerifyMaterializationEffect}

StartEffect ==
  {StartContext, VerifyLocalAttach("start_intent", "start_executor_receipt"),
   VerifyStartEffect}

Start ==
  Preflight \cup ProviderMaterial \cup MaterializationStage
    \cup {VerifyReplayPolicyArtifact, VerifyObservedAllocation,
          VerifyAllocationControlPolicies, VerifyMaterializationControlPolicies,
          VerifyExecutorInstallation, VerifyStartIntent}

\* _run_observed_authorization, and _provision_journal but for the genesis.
Observed ==
  Preflight \cup ProviderMaterial \cup MaterializationStage
    \cup {VerifyJournalGenesis, VerifyReplayPolicyArtifact, VerifyObservedAllocation}

StageClasses ==
  PreflightClasses @@ JournalGenesisReceipt @@ AllocationClasses @@ ObservationClasses
    @@ ProviderClasses @@ TransportClasses @@ RuntimeClasses @@ EffectClasses
=============================================================================

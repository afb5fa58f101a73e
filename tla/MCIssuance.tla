----------------------------- MODULE MCIssuance -----------------------------
(* Every stage of the two catalogues, the documents of each prepared alone. *)
EXTENDS Issuance, ContainerDocuments

MCClasses == StageClasses @@ ContainerClasses
MCUnsigned == {"template_v2", "inspection_v2", "runtime_v3", "runtime_v4"}
MCVerifiers ==
  ("preflight" :> Stage(Preflight)) @@ ("allocate" :> Stage(Allocate))
    @@ ("provider" :> Stage(ProviderMaterial)) @@ ("transport" :> Stage(Transport))
    @@ ("observed_allocation" :> Stage(AllocationObserved)) @@ ("backend" :> Stage(Backend))
    @@ ("delivery" :> Stage(SecretDelivery)) @@ ("observed" :> Stage(Observed))
    @@ ("allocation_effect" :> Stage(AllocationEffect))
    @@ ("materialization_effect" :> Stage(MaterializationEffect))
    @@ ("start_effect" :> Stage(StartEffect))
    @@ ("evidence_v1" :> Stage(EvidenceV1))
    @@ ("attach_v2" :> Stage(AttachV2)) @@ ("claim_v3" :> Stage(ClaimV3))
    @@ ("claim_v4" :> Stage(ClaimV4)) @@ ("delivery_v1" :> Stage(DeliveryManifestV1))
    @@ ("proof_bundle" :> Stage(ProofBundle))
\* The evidence an intent names was verified before its effect was called; the
\* verifiers of the effect's receipts do not look at it again.
MCInherited ==
  ("materialization_effect" :> MaterializationEvidence) @@ ("start_effect" :> StartEvidence)
    @@ [s \in DOMAIN MCVerifiers |-> {}]

\* The stages whose documents genuine issuance can complete.
MCPassable == DOMAIN MCVerifiers \ {"backend", "observed"}
=============================================================================

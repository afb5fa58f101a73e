CONSTANTS
  Stages = {"preflight", "allocate", "provider", "observed_allocation", "transport", "delivery", "attach_v2",
            "claim_v3", "claim_v4", "evidence_v1", "delivery_v1", "proof_bundle",
            "allocation_effect", "materialization_effect", "start_effect"}
  Verifiers <- MCVerifiers
  Classes <- MCClasses
  Unsigned <- MCUnsigned
  Inherited <- MCInherited
  MaxSlips = 1
  r1 = r1  i1 = i1  i2 = i2
  Items = {i1, i2}
  OrderOf <- MCOrderOf
  Roots = {r1, r2}
  Actors = {p1, p2}
  Generations = {g1, g2}
SPECIFICATION OneSpec
CHECK_DEADLOCK FALSE
INVARIANTS
  OneDeployment
  AcceptedIsCurrent
  AttestedIsStored
  StoredIsReceipted
PROPERTIES
  AlwaysAccepted
  BlockedStaysBlocked

-------------------------- MODULE ProviderMaterial --------------------------
(***************************************************************************)
(* Create-once provisioning of provider material: the artifact files of a  *)
(* root (_OwnerOnlyArtifactDirectory) and the items of the keychain, which *)
(* every root shares.  provision_keychain_ed25519_signer files the signer  *)
(* genesis and stores the seed; provision_keychain_materials files the     *)
(* policy, generates fresh values, files their receipt and pending         *)
(* genesis, stores the values one by one and files the attestation.        *)
(* Nothing is ever changed or deleted.  Any step may raise and any process *)
(* may die; a file being written is then left torn, and a lease freed.     *)
(***************************************************************************)
EXTENDS Naturals, Sequences, FiniteSets

CONSTANTS
  Roots,         \* artifact roots
  Actors,        \* processes that provision
  Generations,   \* identities of generated values (generation_id)
  Items,         \* keychain items of the materials
  OrderOf        \* per root, the order in which its signed policy lists them

\* What the constants must satisfy; whoever instantiates the module assumes it.
MaterialAssumption ==
  /\ Roots # {}
  /\ OrderOf \in [Roots -> Seq(Items)]
  /\ \A r \in Roots :
       /\ {OrderOf[r][i] : i \in DOMAIN OrderOf[r]} = Items
       /\ Len(OrderOf[r]) = Cardinality(Items)
  /\ {"absent", "torn", "exact", "foreign", "none"} \cap Generations = {}

VARIABLES
  file,      \* per root and document: absent, torn, the exact signed bytes, or a generation
  keychain,  \* per item: absent, foreign (made by someone else), the seed, or a generation
  pin,       \* per root, who holds the lock on the signer genesis
  actor,     \* per process: where it is, for which document, root and generation
  drawn      \* generations handed out

vars == <<file, keychain, pin, actor, drawn>>

Files == {"signer", "policy", "receipt", "genesis", "attestation"}
Idle == [pc |-> "idle", doc |-> "signer", root |-> CHOOSE r \in Roots : TRUE, gen |-> "none", k |-> 1]

TypeOK ==
  /\ file \in [Roots -> [Files -> {"absent", "torn", "exact"} \cup Generations]]
  /\ keychain \in [Items \cup {"seed"} -> {"absent", "foreign", "exact"} \cup Generations]
  /\ pin \in [Roots -> Actors \cup {"none"}]
  /\ actor \in [Actors -> [ pc : {"idle", "look", "create", "fill", "generate", "pin", "add"},
                            doc : Files, root : Roots, gen : Generations \cup {"none"},
                            k : 1..(Cardinality(Items) + 1) ]]
  /\ drawn \subseteq Generations

Init ==
  /\ file = [r \in Roots |-> [f \in Files |-> "absent"]]
  /\ keychain \in [Items \cup {"seed"} -> {"absent", "foreign"}]
  /\ pin = [r \in Roots |-> "none"]
  /\ actor = [a \in Actors |-> Idle]
  /\ drawn = {}

-----------------------------------------------------------------------------
OnFile(a, doc) == file[actor[a].root][doc]

\* The bytes an actor files as a document.
Content(a, doc) == IF doc \in {"signer", "policy"} THEN "exact" ELSE actor[a].gen

\* What is read again from the root, byte by byte.
Exact(a, docs) == \A doc \in docs : OnFile(a, doc) = Content(a, doc)

Goto(a, pc) == actor' = [actor EXCEPT ![a].pc = pc]

\* Where an actor goes once a document is filed.
Filed(a) ==
  LET doc == actor[a].doc
      at(pc, next) == actor' = [actor EXCEPT ![a].pc = pc, ![a].doc = next]
  IN CASE doc = "signer" -> at("pin", "signer")
       [] doc = "policy" -> at("generate", "receipt")
       [] doc = "receipt" -> at("look", "genesis")
       [] doc = "genesis" -> at("pin", "genesis")
       [] doc = "attestation" -> actor' = [actor EXCEPT ![a] = Idle]

\* A call starts with the signer genesis, or with the policy.
Begin(a) ==
  /\ actor[a].pc = "idle"
  /\ \E r \in Roots, doc \in {"signer", "policy"} :
       actor' = [actor EXCEPT ![a] = [Idle EXCEPT !.pc = "look", !.doc = doc, !.root = r]]
  /\ UNCHANGED <<file, keychain, pin, drawn>>

\* write_once_or_require_exact: an absent file is created, an exact one accepted.
WriteOnceOrRequireExact(a, doc) ==
  /\ actor[a].pc = "look" /\ actor[a].doc = doc
  /\ \/ OnFile(a, doc) = "absent" /\ Goto(a, "create")
     \/ Exact(a, {doc}) /\ Filed(a)
  /\ UNCHANGED <<file, keychain, pin, drawn>>

PersistSigner(a) == WriteOnceOrRequireExact(a, "signer")

PersistPolicy(a) ==
  /\ Exact(a, {"signer"})
  /\ WriteOnceOrRequireExact(a, "policy")

PersistReceipt(a) ==
  /\ Exact(a, {"signer", "policy"})
  /\ WriteOnceOrRequireExact(a, "receipt")

PersistGenesis(a) ==
  /\ Exact(a, {"signer", "policy", "receipt"}) /\ OnFile(a, "attestation") = "absent"
  /\ WriteOnceOrRequireExact(a, "genesis")

\* What _read_material_artifacts must find while the values are stored.
Pending(a) ==
  Exact(a, {"policy", "genesis", "receipt"}) /\ OnFile(a, "attestation") = "absent"

\* After the last value: write_once, whatever is there.
WriteAttestation(a) ==
  /\ actor[a].pc = "look" /\ actor[a].doc = "attestation"
  /\ Pending(a)
  /\ Goto(a, "create")
  /\ UNCHANGED <<file, keychain, pin, drawn>>

\* Mutant of Create: the file is opened without O_EXCL.
CreateOver(a) ==
  /\ actor[a].pc = "create"
  /\ file' = [file EXCEPT ![actor[a].root][actor[a].doc] = "torn"]
  /\ Goto(a, "fill")
  /\ UNCHANGED <<keychain, pin, drawn>>

\* O_CREAT and O_EXCL: the file exists, and is empty.
Create(a) ==
  /\ actor[a].pc = "create"
  /\ OnFile(a, actor[a].doc) = "absent"
  /\ file' = [file EXCEPT ![actor[a].root][actor[a].doc] = "torn"]
  /\ Goto(a, "fill")
  /\ UNCHANGED <<keychain, pin, drawn>>

\* Written and synchronized.
Fill(a) ==
  /\ actor[a].pc = "fill"
  /\ file' = [file EXCEPT ![actor[a].root][actor[a].doc] = Content(a, actor[a].doc)]
  /\ Filed(a)
  /\ UNCHANGED <<keychain, pin, drawn>>

\* The seed in the keychain is the one the genesis names.
SeedIsOurs == keychain["seed"] = "exact"

\* Mutant of Generate: the values and identities derive from the policy.
GenerateAgain(a) ==
  /\ actor[a].pc = "generate"
  /\ SeedIsOurs
  /\ \E g \in Generations :
       /\ \A h \in drawn : g = h
       /\ drawn' = drawn \cup {g}
       /\ actor' = [actor EXCEPT ![a].pc = "look", ![a].gen = g]
  /\ UNCHANGED <<file, keychain, pin>>

\* Fresh values and identities, signed with the seed.
Generate(a) ==
  /\ actor[a].pc = "generate"
  /\ SeedIsOurs
  /\ \E g \in Generations \ drawn :
       /\ drawn' = drawn \cup {g}
       /\ actor' = [actor EXCEPT ![a].pc = "look", ![a].gen = g]
  /\ UNCHANGED <<file, keychain, pin>>

\* pin_exact_signer_genesis: the signer genesis is locked, without waiting.
Pin(a) ==
  /\ actor[a].pc = "pin"
  /\ Exact(a, {"signer"})
  /\ actor[a].doc = "genesis" => Pending(a)
  /\ pin[actor[a].root] = "none"
  /\ pin' = [pin EXCEPT ![actor[a].root] = a]
  /\ Goto(a, "add")
  /\ UNCHANGED <<file, keychain, drawn>>

Unpin(a) == pin' = [pin EXCEPT ![actor[a].root] = IF @ = a THEN "none" ELSE @]

\* Mutant of AddIfAbsent: a duplicate counts as stored.
AddIfAbsentOrPresent(a, item) ==
  keychain' = [keychain EXCEPT ![item] = IF @ = "absent" THEN Content(a, actor[a].doc) ELSE @]

\* SecItemAdd: an item that exists is refused, and the call fails.
AddIfAbsent(a, item) ==
  /\ keychain[item] = "absent"
  /\ keychain' = [keychain EXCEPT ![item] = Content(a, actor[a].doc)]

\* The item an actor is about to store.
Item(a) == IF actor[a].doc = "signer" THEN "seed" ELSE OrderOf[actor[a].root][actor[a].k]

\* The seed is the last thing that provision_keychain_ed25519_signer writes.
AddSeed(a) ==
  /\ actor[a].pc = "add" /\ actor[a].doc = "signer"
  /\ AddIfAbsent(a, Item(a))
  /\ Unpin(a)
  /\ actor' = [actor EXCEPT ![a] = Idle]
  /\ UNCHANGED <<file, drawn>>

\* After a value comes the next one, after the last the attestation.
AddValue(a) ==
  /\ actor[a].pc = "add" /\ actor[a].doc = "genesis"
  /\ AddIfAbsent(a, Item(a))
  /\ Unpin(a)
  /\ actor' = IF actor[a].k < Cardinality(Items)
              THEN [actor EXCEPT ![a].pc = "pin", ![a].k = @ + 1]
              ELSE [actor EXCEPT ![a].pc = "look", ![a].doc = "attestation"]
  /\ UNCHANGED <<file, drawn>>

\* A check fails, an operation raises, or the process dies.  What SecItemAdd
\* reported as failed may have been stored.
Stop(a) ==
  /\ actor[a].pc # "idle"
  /\ \/ UNCHANGED keychain
     \/ actor[a].pc = "add" /\ AddIfAbsent(a, Item(a))
  /\ Unpin(a)
  /\ actor' = [actor EXCEPT ![a] = Idle]
  /\ UNCHANGED <<file, drawn>>

Step(a) ==
  \/ PersistSigner(a) \/ PersistPolicy(a) \/ PersistReceipt(a) \/ PersistGenesis(a)
  \/ WriteAttestation(a)
  \/ Create(a) \/ Fill(a)
  \/ Generate(a)
  \/ Pin(a) \/ AddSeed(a) \/ AddValue(a)

Next == \E a \in Actors : Begin(a) \/ Step(a) \/ Stop(a)

Spec == Init /\ [][Next]_vars

-----------------------------------------------------------------------------
\* load_verified_provider_material_bundle: every file is whole, and receipt,
\* genesis and attestation are of one generation.
Loadable(r) ==
  /\ file[r].signer = "exact" /\ file[r].policy = "exact"
  /\ file[r].attestation \in Generations
  /\ file[r].receipt = file[r].attestation /\ file[r].genesis = file[r].attestation

\* Items somebody stored (read_if_present), and the value the lease inspects.
Present == {i \in Items : keychain[i] # "absent"}
Inspected(i) == keychain[i]

\* provider_material_genesis_status, of what is on file and in the keychain now.
Status(r) ==
  LET needed == Files \ {"attestation"}
      torn == \/ \E f \in needed : file[r][f] \in {"absent", "torn"}
              \/ file[r].attestation = "torn"
  IN IF \A f \in Files : file[r][f] = "absent" THEN "ABSENT"
     ELSE IF torn THEN "INVALID"
     ELSE CASE file[r].attestation # "absent" /\ Present = Items -> "STRUCTURALLY_COMPLETE_UNVERIFIED"
            [] file[r].attestation = "absent" /\ Present = {} -> "PENDING"
            [] OTHER -> "PARTIAL_OR_RECONCILIATION_REQUIRED"

-----------------------------------------------------------------------------
(* Properties                                                              *)

\* Material that loads is the material in the keychain: every item holds the
\* value the attestation speaks of, whoever else provisioned the same items
\* from another root, and a status of complete is given to nothing else.
AttestedIsStored ==
  \A r \in Roots :
    /\ Loadable(r) => \A i \in Items : Inspected(i) = file[r].attestation
    /\ Status(r) = "STRUCTURALLY_COMPLETE_UNVERIFIED" => Loadable(r)

\* No value is in the keychain without its signed receipt and pending genesis
\* whole on file, whatever crashed since.
StoredIsReceipted ==
  \A i \in Items : keychain[i] \in Generations =>
    \E r \in Roots :
      /\ file[r].signer = "exact" /\ file[r].policy = "exact"
      /\ file[r].receipt = keychain[i] /\ file[r].genesis = keychain[i]

\* A generation that is receipted and has no process working on it.
Blocked(r) ==
  /\ file[r].receipt # "absent" /\ file[r].attestation = "absent"
  /\ \A a \in Actors : actor[a].root = r /\ actor[a].pc = "fill" => actor[a].doc # "receipt"
  /\ \A a \in Actors : actor[a].root = r => actor[a].gen # file[r].receipt

\* A crash or a duplicate after the receipt stays blocked: no later call, of
\* any process and from any root, stores a value of that generation or
\* attests it.
BlockedStaysBlocked ==
  [][ \A r \in Roots : Blocked(r) =>
        /\ Blocked(r)'
        /\ \A i \in Items : keychain'[i] = file[r].receipt => keychain[i] = keychain'[i] ]_vars
=============================================================================

------------------------------- MODULE Lnpbp2 -------------------------------
(***************************************************************************)
(* LNPBP-2: deterministic embedding of an LNPBP-1 key-set commitment into a *)
(* lock script (src/dbc/src/lockscript.rs).                                 *)
(*                                                                          *)
(* A caller builds a LockscriptContainer (script, pubkey, tag) and calls    *)
(* LockscriptCommitment::embed_commit on it with a message; on success the  *)
(* container records the tweaking factor and the tweaked script is the      *)
(* commitment.  The committer publishes the commitment and the container's  *)
(* Proof (Container::to_proof); a verifier rebuilds a container from the    *)
(* proof and the tag (Container::reconstruct) and verifies the commitment   *)
(* by re-running embed_commit.                                              *)
(*                                                                          *)
(* Data is abstracted to what the checks tell apart: public keys are model  *)
(* values, hash160 and the LNPBP-1 tweak are injective constructors (a      *)
(* collision is cryptographically negligible), and a script is the sequence *)
(* of its Miniscript fragments as the external parser reports them: pk(K),  *)
(* pk_h(H) or a fragment carrying no key (older, sha256, hash160, ...).     *)
(***************************************************************************)
EXTENDS Naturals, Sequences, SequencesExt, FiniteSets

CONSTANTS
  Keys,          \* secp256k1 public keys a caller may put into a container
  DummyHashes,   \* 20-byte hashes in pk_h fragments that hash no known key
  Tags,          \* protocol tags (the container's sha256 tag)
  Msgs,          \* messages committed to
  MaxFrags,      \* bound: number of fragments of a script
  MaxContainers, \* bound: number of containers the caller builds
  NotMiniscript, \* a script the Miniscript parser rejects
  None           \* Option::None

ASSUME MaxFrags \in Nat \ {0} /\ MaxContainers \in Nat \ {0}

VARIABLES
  container,  \* the committer's LockscriptContainer
  cid,        \* how many containers the caller has built so far
  published,  \* commitments published for this container, with proof and msg
  verdict     \* outcome of the verifier's last verification

vars == <<container, cid, published, verdict>>

-----------------------------------------------------------------------------
(* Keys, hashes and the LNPBP-1 collaborator.                              *)

\* hash160 of the compressed encoding of a key (bitcoin::PublicKey with
\* compressed: true, .to_bytes() / .pubkey_hash())
Hash160(pk) == [h160 |-> pk]

\* LNPBP-1 key-set commitment (spec 4.C.1): the tweaking factor is an HMAC
\* keyed by the tagged hash of the sum of the key set, over the message; the
\* key set always includes the target key, which is how a script that refers
\* to the key only through pk_h commits (spec scenario S2).
Lnpbp1Factor(keyset, pubkey, tag, msg) ==
  [sum |-> keyset \cup {pubkey}, tag |-> tag, msg |-> msg]

\* p' = p + t*G
TweakedKey(pubkey, factor) == [base |-> pubkey, tweak |-> factor]

-----------------------------------------------------------------------------
(* Scripts as Miniscript fragments.                                        *)

Pk(k)   == [op |-> "pk", key |-> k]
PkH(h)  == [op |-> "pk_h", hash |-> h]
NoKey   == [op |-> "nokey"]

Fragments ==
  {Pk(k) : k \in Keys}
    \cup {PkH(h) : h \in {Hash160(k) : k \in Keys} \cup DummyHashes}
    \cup {NoKey}

Scripts == {NotMiniscript} \cup (BoundedSeq(Fragments, MaxFrags) \ {<<>>})

\* LockScript::extract_pubkey_hash_set: the set of keys of pk fragments and
\* the set of hashes of pk_h fragments
ExtractKeys(script)   == {f.key : f \in {g \in ToSet(script) : g.op = "pk"}}
ExtractHashes(script) == {f.hash : f \in {g \in ToSet(script) : g.op = "pk_h"}}

Ok(commitment, factor) == [ok |-> TRUE, commitment |-> commitment, factor |-> factor]
Err(e) == [ok |-> FALSE, err |-> e]

-----------------------------------------------------------------------------
(* Mutations of the code below, each a plausible bug; a property that none *)
(* of them breaks would say nothing about the code.                        *)

\* the hash closure substitutes pk_h(hash160(pubkey)) by itself
ReplaceKeysOnly(script, pubkey, tweaked) ==
  [i \in DOMAIN script |->
     IF script[i].op = "pk" /\ script[i].key = pubkey
     THEN Pk(tweaked) ELSE script[i]]

-----------------------------------------------------------------------------
(* LockscriptCommitment::embed_commit                                      *)

\* LockScript::replace_pubkeys_and_hashes with the two closures of
\* embed_commit: every pk(pubkey) becomes pk(tweaked), every
\* pk_h(hash160(pubkey)) becomes pk_h(hash160(tweaked)), all else stays
ReplacePubkeysAndHashes(script, pubkey, tweaked) ==
  [i \in DOMAIN script |->
     CASE script[i].op = "pk" /\ script[i].key = pubkey
            -> Pk(tweaked)
       [] script[i].op = "pk_h" /\ script[i].hash = Hash160(pubkey)
            -> PkH(Hash160(tweaked))
       [] OTHER -> script[i]]

\* a mutation: a tweaking factor already stored in the container is reused
EmbedCommitReusingFactor(c, msg) ==
  LET keys   == ExtractKeys(c.script)
      hashes == ExtractHashes(c.script)
      factor == IF c.tweaking_factor # None THEN c.tweaking_factor
                ELSE Lnpbp1Factor(keys, c.pubkey, c.tag, msg)
  IN  IF c.script = NotMiniscript THEN Err("Miniscript")
      ELSE CASE keys = {} /\ hashes = {} -> Err("LockscriptContainsNoKeys")
             [] hashes = {} /\ c.pubkey \notin keys -> Err("LockscriptKeyNotFound")
             [] ~(hashes \subseteq {Hash160(k) : k \in keys} \cup {Hash160(c.pubkey)})
                  -> Err("LockscriptContainsUnknownHashes")
             [] OTHER -> Ok(ReplacePubkeysAndHashes(c.script, c.pubkey,
                                                    TweakedKey(c.pubkey, factor)),
                            factor)

\* a mutation: the container key is required even when the script has pk_h
EmbedCommitKeyCheckAlways(c, msg) ==
  LET keys   == ExtractKeys(c.script)
      hashes == ExtractHashes(c.script)
      factor == Lnpbp1Factor(keys, c.pubkey, c.tag, msg)
  IN  IF c.script = NotMiniscript THEN Err("Miniscript")
      ELSE CASE keys = {} /\ hashes = {} -> Err("LockscriptContainsNoKeys")
             [] c.pubkey \notin keys -> Err("LockscriptKeyNotFound")
             [] ~(hashes \subseteq {Hash160(k) : k \in keys} \cup {Hash160(c.pubkey)})
                  -> Err("LockscriptContainsUnknownHashes")
             [] OTHER -> Ok(ReplacePubkeysAndHashes(c.script, c.pubkey,
                                                    TweakedKey(c.pubkey, factor)),
                            factor)

\* The whole of embed_commit: the parse, the three checks in their order,
\* the LNPBP-1 tweak and the rewrite of the script.
EmbedCommit(c, msg) ==
  LET original_hash == Hash160(c.pubkey)
      keys          == ExtractKeys(c.script)
      hashes        == ExtractHashes(c.script)
      key_hashes    == {Hash160(k) : k \in keys} \cup {original_hash}
      factor        == Lnpbp1Factor(keys, c.pubkey, c.tag, msg)
      tweaked       == TweakedKey(c.pubkey, factor)
  IN  IF c.script = NotMiniscript THEN Err("Miniscript")
      ELSE CASE keys = {} /\ hashes = {} -> Err("LockscriptContainsNoKeys")
             [] hashes = {} /\ c.pubkey \notin keys -> Err("LockscriptKeyNotFound")
             [] ~(hashes \subseteq key_hashes) -> Err("LockscriptContainsUnknownHashes")
             [] OTHER -> Ok(ReplacePubkeysAndHashes(c.script, c.pubkey, tweaked),
                            factor)

-----------------------------------------------------------------------------
(* The Container implementation of LockscriptContainer.                    *)

NewContainer(script, pubkey, tag) ==
  [script |-> script, pubkey |-> pubkey, tag |-> tag, tweaking_factor |-> None]

\* ScriptEncodeData variants a Proof can carry
ProofKinds == {"LockScript", "SinglePubkey"}

\* Container::to_proof
ToProof(c) == [source |-> [kind |-> "LockScript", script |-> c.script],
               pubkey |-> c.pubkey]

\* Container::into_proof: the same proof, consuming the container
IntoProof(c) == [source |-> [kind |-> "LockScript", script |-> c.script],
                 pubkey |-> c.pubkey]

\* Container::deconstruct: the proof and the tag as supplement
Deconstruct(c) == <<IntoProof(c), c.tag>>

\* the ways a committer can hand out the proof and the supplement
ProofReleases(c) == {<<ToProof(c), c.tag>>, <<IntoProof(c), c.tag>>, Deconstruct(c)}

\* Container::reconstruct
Reconstruct(proof, supplement) ==
  IF proof.source.kind = "LockScript"
  THEN [ok |-> TRUE,
        container |-> NewContainer(proof.source.script, proof.pubkey, supplement)]
  ELSE Err("InvalidProofStructure")

\* EmbedCommitVerify::verify (commit_verify crate, spec 7): re-run
\* embed_commit on a copy of the container; the commitment must be equal and
\* a tweaking factor the container holds must equal the recomputed one.
Verify(commitment, c, msg) ==
  LET r == EmbedCommit(c, msg)
  IN  IF ~r.ok THEN r
      ELSE [ok |-> TRUE,
            valid |-> r.commitment = commitment
                        /\ c.tweaking_factor \in {None, r.factor}]

-----------------------------------------------------------------------------
(* The caller: build a container, commit, publish, verify.                 *)

Init ==
  /\ \E s \in Scripts, k \in Keys, t \in Tags : container = NewContainer(s, k, t)
  /\ cid = 1
  /\ published = {}
  /\ verdict = None

\* the caller builds a fresh container (struct literal, tweaking_factor None)
Build(s, k, t) ==
  /\ cid < MaxContainers
  /\ container' = NewContainer(s, k, t)
  /\ cid' = cid + 1
  /\ published' = {}
  /\ verdict' = None

\* a mutation: the tweaked key, not the tweaking factor, is stored
CommitStoringTweakedKey(msg) ==
  LET r == EmbedCommit(container, msg)
  IN  /\ r.ok
      /\ container' = [container EXCEPT
                         !.tweaking_factor = TweakedKey(container.pubkey, r.factor)]
      /\ published' = published \cup
            {[proof |-> ToProof(container), tag |-> container.tag,
              commitment |-> r.commitment, factor |-> r.factor, msg |-> msg]}
      /\ UNCHANGED <<cid, verdict>>

\* embed_commit on the container; on success the container stores the
\* tweaking factor (lockscript.rs:191) and the commitment is published with
\* the message and the container's proof and tag, as to_proof, into_proof
\* or deconstruct give them (the last two consume the container; keeping it
\* adds no behaviour, as to_proof gives the same values and keeps it)
Commit(msg) ==
  LET r == EmbedCommit(container, msg)
  IN  /\ r.ok
      /\ container' = [container EXCEPT !.tweaking_factor = r.factor]
      /\ \E rel \in ProofReleases(container) :
           published' = published \cup
             {[proof |-> rel[1], tag |-> rel[2],
               commitment |-> r.commitment, factor |-> r.factor, msg |-> msg]}
      /\ UNCHANGED <<cid, verdict>>

\* embed_commit fails: the container is left as it was
CommitFails(msg) ==
  /\ ~EmbedCommit(container, msg).ok
  /\ UNCHANGED vars

\* a verifier takes a published commitment with a proof of the given kind,
\* reconstructs the container from it and the tag, and verifies msg
VerifyClaim(claim, msg, kind) ==
  LET proof == [claim.proof EXCEPT !.source.kind = kind]
      rc    == Reconstruct(proof, claim.tag)
  IN  /\ verdict' = [claim |-> claim, msg |-> msg, kind |-> kind,
                     result |-> IF rc.ok
                                THEN Verify(claim.commitment, rc.container, msg)
                                ELSE rc]
      /\ UNCHANGED <<container, cid, published>>

Next ==
  \/ \E s \in Scripts, k \in Keys, t \in Tags : Build(s, k, t)
  \/ \E m \in Msgs : Commit(m)
  \/ \E m \in Msgs : CommitFails(m)
  \/ \E cl \in published, m \in Msgs, kd \in ProofKinds : VerifyClaim(cl, m, kd)

Spec == Init /\ [][Next]_vars


-----------------------------------------------------------------------------
(* The unit tests of lockscript.rs, each generalised from its fixed keys   *)
(* to every choice of distinct keys (a test's keys[i] is any key).  Every  *)
(* test builds a fresh container and commits "Test message" under the tag. *)

\* test_no_keys_and_hashes: older, sha256, hash256, hash160 and ripemd160
\* scripts, none with a key
NoKeysCases == {NewContainer(<<NoKey>>, p, t) : p \in Keys, t \in Tags}

\* test_unknown_key: c:pk_k of another key than the container's
UnknownKeyCases ==
  {NewContainer(<<Pk(kp[1])>>, kp[2], t) :
     kp \in {x \in Keys \X Keys : x[1] # x[2]}, t \in Tags}

\* test_unknown_hash: c:pk_h of another key's hash
UnknownHashCases ==
  {NewContainer(<<PkH(Hash160(kp[1]))>>, kp[2], t) :
     kp \in {x \in Keys \X Keys : x[1] # x[2]}, t \in Tags}

\* test_known_key and test_known_hash: c:pk_k or c:pk_h of the container key
KnownKeyCases ==
  {NewContainer(<<Pk(p)>>, p, t) : p \in Keys, t \in Tags}
    \cup {NewContainer(<<PkH(Hash160(p))>>, p, t) : p \in Keys, t \in Tags}

\* test_multisig (thresh(2, pk(a), pk(p)) and a larger threshold) and
\* test_complex_scripts_unique_key (thresholds of distinct keys beside
\* older): distinct pk keys, the container's among them, and at most
\* keyless fragments beside them
MultisigCases ==
  {NewContainer(s, p, t) :
     s \in {x \in Scripts \ {NotMiniscript} :
              /\ \A i \in DOMAIN x : x[i].op \in {"pk", "nokey"}
              /\ \A i, j \in DOMAIN x : x[i].op = "pk" /\ x[j].op = "pk" /\ i # j
                                        => x[i].key # x[j].key
              /\ Cardinality(ExtractKeys(x)) >= 2},
     p \in Keys, t \in Tags}

-----------------------------------------------------------------------------
(* Properties                                                              *)

\* the verifier's verdict "the commitment is valid for the message"
Accepted == [ok |-> TRUE, valid |-> TRUE]

\* tweaking factors LNPBP-1 can produce for a container
Factors == [sum : SUBSET Keys, tag : Tags, msg : Msgs]

TypeOK ==
  /\ container.script \in Scripts
  /\ container.tweaking_factor \in {None} \cup Factors
  /\ container.pubkey \in Keys
  /\ container.tag \in Tags
  /\ cid \in 1..MaxContainers
  /\ \A cl \in published : cl.msg \in Msgs /\ cl.proof = ToProof(container)
  /\ verdict = None \/ verdict.kind \in ProofKinds

\* Round trip (spec P4, S1-S3): a commitment published by the committer is
\* accepted by a verifier that rebuilds the container from the published
\* lock-script proof and tag (to_proof -> reconstruct -> verify) and checks
\* it against the message it was made for, however many times the
\* committer's container was committed before.
Completeness ==
  (verdict # None /\ verdict.kind = "LockScript" /\ verdict.msg = verdict.claim.msg)
    => verdict.result = Accepted

\* A commitment is itself an LNPBP-2 container for the tweaked key: after
\* embed_commit rewrote pk and pk_h occurrences, every pk_h of the output
\* still resolves to a key of the output or to the tweaked key, so the
\* output, with the tweaked key, passes all of embed_commit's checks again.
Recommittable ==
  \A cl \in published, m \in Msgs :
    EmbedCommit(NewContainer(cl.commitment,
                             TweakedKey(cl.proof.pubkey, cl.factor), cl.tag), m).ok

\* The model agrees with the unit tests of lockscript.rs, over every choice
\* of keys: embed_commit on a fresh container fails with the error each
\* failing test expects, and on the containers of the passing tests
\* succeeds with a commitment that verify accepts against the container
\* it was made on (test_known_hash pins the acceptance of a script that
\* names its key only by hash, the case behind Binding).
UnitTestsAgree ==
  \A m \in Msgs :
    /\ container \in NoKeysCases =>
         EmbedCommit(container, m) = Err("LockscriptContainsNoKeys")
    /\ container \in UnknownKeyCases =>
         EmbedCommit(container, m) = Err("LockscriptKeyNotFound")
    /\ container \in UnknownHashCases =>
         EmbedCommit(container, m) = Err("LockscriptContainsUnknownHashes")
    /\ container \in KnownKeyCases
         \cup {c \in MultisigCases : c.pubkey \in ExtractKeys(c.script)} =>
         LET r == EmbedCommit(container, m)
         IN  r.ok /\ Verify(r.commitment, container, m) = Accepted

\* Spec P4 (binding): a published commitment never verifies against a
\* message other than the one it was made for.
Binding ==
  (verdict # None /\ verdict.msg # verdict.claim.msg) => verdict.result # Accepted

\* Spec 3: the container's tweaking factor is write-once: once a commit has
\* stored it, no later step on the same container changes it.
TweakingFactorWriteOnce ==
  [][(cid' = cid /\ container.tweaking_factor # None)
       => container'.tweaking_factor = container.tweaking_factor]_vars

=============================================================================

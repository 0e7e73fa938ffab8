------------------------------- MODULE Taproot -------------------------------
(***************************************************************************)
(* Taproot primitives of src/primitives/src/taproot.rs, exercised by a     *)
(* wallet that builds a script tree, commits to it in a P2TR output and    *)
(* spends one of its leaves through the script path.                       *)
(*                                                                          *)
(* The wallet makes leaves (LeafVer::from_consensus_u8 and                  *)
(* TapLeafHash::with_leaf_script, or TapLeafHash::with_tap_script), joins  *)
(* two subtrees with TapBranchHash::with_nodes, derives the output with     *)
(* InternalPk::from_byte_array and ScriptPubkey::p2tr, and for a leaf       *)
(* builds a ControlBlock with a TapMerklePath.  A BIP-341 verifier (not     *)
(* code of this repository) checks the control block against the output.   *)
(*                                                                          *)
(* A tagged hash is the tag and its input, written as a sequence of         *)
(* naturals (leaf: 0, version byte, script; branch: 1 and the two children; *)
(* the encoding is prefix-free, so the "hash" is injective).  cmp::min and  *)
(* cmp::max compare hashes as byte strings; the model compares the          *)
(* encodings lexicographically, which is as good a total order for them.   *)
(* The parity of a tweaked point is a fact of curve arithmetic: it is       *)
(* chosen when the output key is made and kept with the output.            *)
(***************************************************************************)
EXTENDS Naturals, Sequences, SequencesExt, FiniteSets, LeafVer

CONSTANTS
  KeyBytes,       \* 32-byte strings offered as internal keys
  CurvePoints,    \* those of KeyBytes that are x-only curve points
  LeafScripts,    \* leaf scripts (naturals, compared by value only)
  LeafBytes,      \* leaf-version bytes the wallet asks for
  MaxLeaves,      \* bound: leaves the wallet makes
  MaxPath,        \* TapMerklePath: Confined<Vec<_>, 0, 128>, scaled down
  ParityFromApi,  \* TRUE: the wallet knows only what to_output_key returns
  None

ASSUME CurvePoints \subseteq KeyBytes /\ LeafBytes \subseteq 0..255
ASSUME MaxPath \in Nat /\ ParityFromApi \in BOOLEAN

VARIABLES
  forest,   \* subtrees made so far, each with its leaves and their paths
  nleaves,  \* leaves made so far
  output,   \* the committed P2TR output, or None
  spend,    \* the wallet's last script-path spend, or None
  error     \* error of the wallet's last failed call, or None

vars == <<forest, nleaves, output, spend, error>>

-----------------------------------------------------------------------------
(* Parity                                                                  *)

Parities == {"Even", "Odd"}

\* Parity::to_consensus_u8 (#[repr(u8)] Even = 0, Odd = 1)
ParityToU8(p) == IF p = "Even" THEN 0 ELSE 1

\* Parity::from_consensus_u8
ParityFromU8(b) ==
  CASE b = 0 -> Ok("Even")
    [] b = 1 -> Ok("Odd")
    [] OTHER -> Err(<<"InvalidParityValue", b>>)

-----------------------------------------------------------------------------
(* Node hashes                                                             *)

\* byte-string order of two hashes
RECURSIVE LexLess(_, _)
LexLess(a, b) ==
  IF a = <<>> THEN b # <<>>
  ELSE IF b = <<>> THEN FALSE
  ELSE IF Head(a) # Head(b) THEN Head(a) < Head(b)
  ELSE LexLess(Tail(a), Tail(b))

CmpMin(a, b) == IF LexLess(b, a) THEN b ELSE a
CmpMax(a, b) == IF LexLess(b, a) THEN a ELSE b

\* tagged hash "TapLeaf" over the version byte and the script
LeafHash(verbyte, script) == <<0, verbyte, script>>

\* TapLeafHash::with_leaf_script
WithLeafScript(ls) == LeafHash(ToConsensusU8(ls.version), ls.script)

\* TapLeafHash::with_tap_script
WithTapScript(script) == LeafHash(TAPROOT_LEAF_TAPSCRIPT, script)

\* a mutation: the children are hashed in the order they are passed
WithNodesUnsorted(node1, node2) == <<1>> \o node1 \o node2

\* TapBranchHash::with_nodes: tagged hash "TapBranch" over min || max
WithNodes(node1, node2) == <<1>> \o CmpMin(node1, node2) \o CmpMax(node1, node2)

\* a mutation: the confinement's upper bound is exclusive
TryFromOffByOne(path) ==
  IF Len(path) < MaxPath THEN Ok(path) ELSE Err("Confinement")

\* TapMerklePath::try_from: Confined::try_from(path), at most 128 elements
TryFrom(path) ==
  IF Len(path) <= MaxPath THEN Ok(path) ELSE Err("Confinement")

-----------------------------------------------------------------------------
(* Keys and outputs                                                        *)

\* a mutation: the bytes are taken as a key without validation
FromByteArrayUnchecked(data) == Ok(data)

\* InternalPk::from_byte_array: XOnlyPublicKey::from_slice
FromByteArray(data) == IF data \in CurvePoints THEN Ok(data) ELSE Err("InvalidPubkey")

\* StrictDecode for InternalPk: 32 bytes, then XOnlyPublicKey::from_slice;
\* a failure is a DataIntegrityError
StrictDecodeInternalPk(data) ==
  IF data \in CurvePoints THEN Ok(data) ELSE Err("DataIntegrityError")

\* the two ways a wallet gets an InternalPk from bytes
InternalPkFrom(data) == {FromByteArray(data), StrictDecodeInternalPk(data)}

\* InternalPk::to_output_key: the point internal + H_TapTweak(key || root?)*G;
\* the parity add_tweak returns is not part of the result
ToOutputKey(internal, merkle_root) == [internal |-> internal, root |-> merkle_root]

\* ScriptPubkey::with_witness_program_unchecked(WitnessVer::V1, key):
\* OP_PUSHNUM_1 (0x51), OP_PUSHBYTES_32 (0x20), then the 32-byte program
WitnessV1Program(key) == [bytes |-> <<81, 32>>, len |-> 34, program |-> key]

\* ScriptPubkey::p2tr_tweaked
P2trTweaked(output_key) == WitnessV1Program(output_key)

\* ScriptPubkey::p2tr, p2tr_key_only (root None) and p2tr_scripted
P2tr(internal, merkle_root) == P2trTweaked(ToOutputKey(internal, merkle_root))

\* ScriptPubkey::is_p2tr
IsP2tr(spk) == spk.len = 34 /\ spk.bytes[1] = 81 /\ spk.bytes[2] = 32

\* ControlBlock (struct literal)
ControlBlock(leaf_version, parity, internal_key, merkle_branch) ==
  [leaf_version |-> leaf_version, output_key_parity |-> parity,
   internal_key |-> internal_key, merkle_branch |-> merkle_branch]

-----------------------------------------------------------------------------
(* BIP-341 script-path verification, as a node does it: the first byte of *)
(* the control block is the leaf version with the parity in its low bit;   *)
(* the leaf hash is folded with the path into the root, and the output key *)
(* tweaked from the internal key and the root, with that parity, must be   *)
(* the program of the spent output.                                        *)

ControlByte(cb) == ToConsensusU8(cb.leaf_version) + ParityToU8(cb.output_key_parity)

ScriptPathValid(out, script, cb) ==
  LET c0   == ControlByte(cb)
      lv   == FromConsensusU8(c0 & TAPROOT_LEAF_MASK)
      par  == ParityFromU8(c0 & 1)
      k0   == WithLeafScript([version |-> lv.val, script |-> script])
      root == FoldLeft(WithNodes, k0, cb.merkle_branch)
  IN  /\ IsP2tr(out.spk)
      /\ lv.ok /\ par.ok
      /\ out.spk.program = ToOutputKey(cb.internal_key, root)
      /\ par.val = out.parity

-----------------------------------------------------------------------------
(* The wallet                                                              *)

Leaf(ls, hash) == [hash |-> hash, leaves |-> {[leaf |-> ls, path |-> <<>>]}]

Init ==
  /\ forest = {}
  /\ nleaves = 0
  /\ output = None
  /\ spend = None
  /\ error = None

\* LeafVer::from_consensus_u8 on the wanted byte, then LeafScript::new and
\* LeafScript::tap_leaf_hash; a rejected byte is reported
AddLeaf(b, script) ==
  LET r == FromConsensusU8(b)
  IN  /\ output = None /\ nleaves < MaxLeaves
      /\ IF r.ok
         THEN LET ls == [version |-> r.val, script |-> script]
              IN  /\ forest' = forest \cup {Leaf(ls, WithLeafScript(ls))}
                  /\ nleaves' = nleaves + 1
                  /\ error' = None
         ELSE /\ error' = r.err
              /\ UNCHANGED <<forest, nleaves>>
      /\ UNCHANGED <<output, spend>>

\* a tapscript leaf: LeafScript::from(TapScript), hashed with
\* TapLeafHash::with_tap_script
AddTapScriptLeaf(script) ==
  /\ output = None /\ nleaves < MaxLeaves
  /\ forest' = forest \cup
       {Leaf([version |-> TapScriptVer, script |-> script], WithTapScript(script))}
  /\ nleaves' = nleaves + 1
  /\ error' = None
  /\ UNCHANGED <<output, spend>>

\* two subtrees become the children of a branch: TapBranchHash::with_nodes;
\* each leaf's path gains the hash of the other child
Join(a, b) ==
  LET up(t, sib) == {[l EXCEPT !.path = Append(@, sib)] : l \in t.leaves}
  IN  /\ output = None /\ a # b
      /\ forest' = (forest \ {a, b}) \cup
           {[hash |-> WithNodes(a.hash, b.hash),
             leaves |-> up(a, b.hash) \cup up(b, a.hash)]}
      /\ UNCHANGED <<nleaves, output, spend, error>>

Finalize(kb, tree, parity) ==
  \E ik \in InternalPkFrom(kb) :
      /\ output = None
      /\ IF ik.ok
         THEN /\ output' = [spk |-> P2tr(ik.val, IF tree = None THEN None ELSE tree.hash),
                            internal |-> ik.val, tree |-> tree, parity |-> parity]
              /\ error' = None
         ELSE /\ error' = ik.err
              /\ UNCHANGED output
      /\ UNCHANGED <<forest, nleaves, spend>>

\* a ControlBlock for a leaf of the committed tree: TapMerklePath::try_from
\* on the leaf's path; the output key parity is the one add_tweak gave, or,
\* when the wallet has only what to_output_key returns, a guess
Spend(l) ==
  LET mp == TryFrom(l.path)
  IN  /\ output # None /\ output.tree # None
      /\ l \in output.tree.leaves
      /\ \E p \in IF ParityFromApi THEN Parities ELSE {output.parity} :
           spend' = [leaf |-> l,
                     cb |-> IF mp.ok
                            THEN Ok(ControlBlock(l.leaf.version, p, output.internal, mp.val))
                            ELSE mp]
      /\ UNCHANGED <<forest, nleaves, output, error>>

Next ==
  \/ \E b \in LeafBytes, s \in LeafScripts : AddLeaf(b, s)
  \/ \E s \in LeafScripts : AddTapScriptLeaf(s)
  \/ \E a, b \in forest : Join(a, b)
  \/ \E kb \in KeyBytes, t \in forest \cup {None}, p \in Parities : Finalize(kb, t, p)
  \/ \E l \in IF output # None /\ output.tree # None THEN output.tree.leaves ELSE {} :
       Spend(l)

Spec == Init /\ [][Next]_vars

-----------------------------------------------------------------------------
(* Properties                                                              *)

TypeOK ==
  /\ nleaves \in 0..MaxLeaves
  /\ \A t \in forest : \A l \in t.leaves :
       l.leaf.version \in {TapScriptVer} \cup {FutureVer(v) : v \in 0..255} /\ l.leaf.script \in LeafScripts
  /\ output = None \/ (output.internal \in CurvePoints /\ output.parity \in Parities)
  /\ spend = None \/ spend.cb.ok \in BOOLEAN

\* Script-path spending: for every leaf of the tree the wallet committed to,
\* the wallet gets a control block exactly when the leaf's depth is within
\* TapMerklePath's bound, and that control block verifies against the
\* output under BIP-341, whichever side of each branch the leaf is on and
\* whichever constructor hashed the leaf.
SpendVerifies ==
  spend # None =>
    /\ spend.cb.ok = (Len(spend.leaf.path) <= MaxPath)
    /\ spend.cb.ok => ScriptPathValid(output, spend.leaf.leaf.script, spend.cb.val)

\* the leaf scripts of a subtree
LeavesOf(t) == {l.leaf : l \in t.leaves}

\* every leaf script the wallet can make from LeafBytes and LeafScripts
WalletLeaves ==
  {[version |-> FromConsensusU8(b).val, script |-> s] :
     b \in {c \in LeafBytes : FromConsensusU8(c).ok}, s \in LeafScripts}
  \cup {[version |-> TapScriptVer, script |-> s] : s \in LeafScripts}

\* what the last spend amounts to for a verifier: "invalid" is a control
\* block that a BIP-341 node rejects
SpendResult ==
  IF ~spend.cb.ok THEN "refused"
  ELSE IF ScriptPathValid(output, spend.leaf.leaf.script, spend.cb.val) THEN "proved"
  ELSE "invalid"

TapCommitAbs == INSTANCE TapCommit WITH
  Leaves    <- WalletLeaves,
  made      <- UNION {LeavesOf(t) : t \in forest},
  committed <- IF output = None THEN None
               ELSE IF output.tree = None THEN {} ELSE LeavesOf(output.tree),
  proof     <- IF spend = None THEN None
               ELSE [leaf |-> spend.leaf.leaf, result |-> SpendResult]

=============================================================================

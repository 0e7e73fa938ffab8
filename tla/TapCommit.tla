------------------------------ MODULE TapCommit ------------------------------
(***************************************************************************)
(* What the taproot primitives of taproot.rs promise a wallet, without    *)
(* trees, hashes or keys: the wallet makes leaf scripts; once, it commits *)
(* an output to some of the leaves it made (or to none: a key-only        *)
(* output), and from then on makes no more leaves for it; for a committed *)
(* leaf it obtains a proof that either verifies against the output or is  *)
(* refused outright, never one that fails verification.                   *)
(*                                                                          *)
(* Taproot refines this specification (TapCommitSpec in Taproot.tla).     *)
(***************************************************************************)
CONSTANTS
  Leaves,   \* leaf scripts (version and script) the wallet can make
  None

VARIABLES
  made,       \* leaf scripts made so far
  committed,  \* None, or the set of leaf scripts the output commits to
  proof       \* None, or the last proof: a leaf and "proved" or "refused"

absvars == <<made, committed, proof>>

Init ==
  /\ made = {}
  /\ committed = None
  /\ proof = None

\* a new leaf, only while nothing is committed
Make(ls) ==
  /\ committed = None
  /\ made' = made \cup {ls}
  /\ UNCHANGED <<committed, proof>>

\* the one commitment, to leaves already made
Commit(S) ==
  /\ committed = None
  /\ committed' = S
  /\ UNCHANGED <<made, proof>>

\* a proof for a committed leaf
Prove(ls, result) ==
  /\ committed # None
  /\ ls \in committed
  /\ proof' = [leaf |-> ls, result |-> result]
  /\ UNCHANGED <<made, committed>>

Next ==
  \/ \E ls \in Leaves : Make(ls)
  \/ \E S \in SUBSET made : Commit(S)
  \/ \E ls \in Leaves, r \in {"proved", "refused"} : Prove(ls, r)

Spec == Init /\ [][Next]_absvars
=============================================================================

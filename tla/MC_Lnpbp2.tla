------------------------------ MODULE MC_Lnpbp2 ------------------------------
(***************************************************************************)
(* Model-checking instance of Lnpbp2: three keys, so that a script can hold *)
(* the container's key, another party's key and a key it does not mention; *)
(* one hash of no key; two messages, so that binding can be tested.        *)
(***************************************************************************)
EXTENDS Lnpbp2, TLC

CONSTANTS k1, k2, k3, d1, t1, m1, m2

MC_Keys        == {k1, k2, k3}
MC_DummyHashes == {d1}
MC_Tags        == {t1}
MC_Msgs        == {m1, m2}
\* three fragments reach multisig (pk, pk), key plus its hash (pk, pk_h),
\* hash-only scripts and a pk_h of another key beside them; three
\* containers let a commit follow a rebuild
MC_MaxFrags      == 3
MC_MaxContainers == 3

\* keys and messages are only compared for equality
MC_Symmetry == Permutations(MC_Keys) \cup Permutations(MC_Msgs)
=============================================================================

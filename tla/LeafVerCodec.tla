----------------------------- MODULE LeafVerCodec -----------------------------
(***************************************************************************)
(* Strict encoding of LeafVer (src/primitives/src/taproot.rs): a decoder   *)
(* reads one byte and turns it into a leaf version with                    *)
(* LeafVer::from_consensus_u8, or fails with DataIntegrityError; an        *)
(* encoder writes a decoded version back with to_consensus_u8.  Every byte *)
(* can arrive on the wire.                                                 *)
(***************************************************************************)
EXTENDS LeafVer

CONSTANT None

VARIABLES
  input,    \* the byte the decoder read last, or None
  decoded,  \* the decoder's result for it, or None
  written   \* the byte the encoder wrote for the decoded version, or None

vars == <<input, decoded, written>>

Bytes == 0..255

Init ==
  /\ input = None
  /\ decoded = None
  /\ written = None

\* a mutation: the error is passed on without map_err
StrictDecodeUnmapped(b) ==
  /\ input' = b
  /\ decoded' = FromConsensusU8(b)
  /\ written' = None

\* StrictDecode for LeafVer: read_field, then from_consensus_u8, an error
\* mapped to DecodeError::DataIntegrityError (a panic stays a panic)
StrictDecode(b) ==
  LET r == FromConsensusU8(b)
  IN  /\ input' = b
      /\ decoded' = IF r.ok \/ r = Panic THEN r
                    ELSE Err(<<"DataIntegrityError", r.err>>)
      /\ written' = None

\* StrictEncode for LeafVer: write_field(to_consensus_u8)
StrictEncode ==
  /\ decoded # None /\ decoded.ok /\ written = None
  /\ written' = ToConsensusU8(decoded.val)
  /\ UNCHANGED <<input, decoded>>

Next ==
  \/ \E b \in Bytes : StrictDecode(b)
  \/ StrictEncode

Spec == Init /\ [][Next]_vars

LeafVers == {TapScriptVer} \cup {FutureVer(v) : v \in Bytes}

TypeOK ==
  /\ input \in Bytes \cup {None}
  /\ \/ decoded = None
     \/ decoded.ok /\ decoded.val \in LeafVers
     \/ decoded = Panic
     \/ decoded.err \in {"DataIntegrityError"} \X ({"InvalidLeafVer"} \X Bytes)
  /\ written \in Bytes \cup {None}

\* Spec P10, over every byte: the decoder accepts exactly 0xC0 and the even
\* bytes other than the annex prefix 0x50, never reaches the unreachable!()
\* of FutureLeafVer::from_consensus, and what it accepted is written back
\* by the encoder as the same byte.
LeafVerConsensus ==
  decoded # None =>
    /\ decoded # Panic
    /\ decoded.ok = (input = TAPROOT_LEAF_TAPSCRIPT
                       \/ (input % 2 = 0 /\ input # TAPROOT_ANNEX_PREFIX))
    /\ written # None => written = input
=============================================================================

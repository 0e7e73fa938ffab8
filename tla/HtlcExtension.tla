---------------------------- MODULE HtlcExtension ----------------------------
(***************************************************************************)
(* The Htlc channel extension of htlc.rs: its lists of offered and        *)
(* received HTLCs, update_from_peer, and apply, which adds an output per  *)
(* HTLC to the commitment outputs of the channel's transaction graph and  *)
(* a second-stage HTLC transaction per HTLC to the graph.                 *)
(*                                                                          *)
(* The TxGraph is the channel module's, outside this repository: its      *)
(* cmt_outs is a sequence and insert_tx(type, index, tx) is taken to set  *)
(* the transaction stored under (type, index), replacing any there.       *)
(* HTLC ids, asset ids and resolved_htlc are not read by apply and are    *)
(* left out; so is channel_state, a clone.                                *)
(***************************************************************************)
EXTENDS HtlcScript, TLC

CONSTANTS
  Dummy,          \* SECP256K1_PUBKEY_DUMB, the key apply uses for every role
  Preimages,      \* payment preimages of HTLCs
  Expiries,       \* cltv_expiry values of HTLCs (block heights, at least 1)
  Messages,       \* messages a peer may send
  MaxHtlcs,       \* HTLCs in each list
  MaxApplies      \* calls of apply on the same graph

\* HtlcKnown and HtlcSecret, as far as apply reads them
HtlcKnown  == [preimage : Preimages, cltv_expiry : Expiries]
HtlcSecret == [hashlock : {HashLockOf(p) : p \in Preimages}, cltv_expiry : Expiries]

ListsOf(S) == UNION {[1..n -> S] : n \in 0..MaxHtlcs}

\* OutPoint::default(): the null outpoint (zero txid, vout u32::MAX), which
\* no transaction output has
DefaultOutPoint == "null"

VARIABLES offered_htlc, received_htlc, cmt_outs, txs, applies
vars == <<offered_htlc, received_htlc, cmt_outs, txs, applies>>

\* the commitment output apply builds for an offered and a received HTLC:
\* amount 10, the dummy key for every role, the payment hash of the
\* preimage, and cltv_expiry 0 for the received one
OfferedOutput(h) ==
  HtlcTxOut(10, LnOfferedHtlc(Dummy, Dummy, Dummy, HashLockOf(h.preimage)))
ReceivedOutput(h) ==
  HtlcTxOut(10, LnReceivedHtlc(Dummy, Dummy, Dummy, 0, h.hashlock))

\* the HTLC-timeout transaction of an offered HTLC and the HTLC-success
\* transaction of a received one (Psbt::ln_htlc with the dummy outpoint,
\* keys and to_self_delay 0)
TimeoutTx(h) == LnHtlcTx(10, DefaultOutPoint, h.cltv_expiry, Dummy, Dummy, 0)
SuccessTx(h) == LnHtlcTx(10, DefaultOutPoint, 0, Dummy, Dummy, 0)

\* insert_tx of every transaction of a loop: index is the 0-based position
\* from enumerate()
Inserted(type, htlc_txs) ==
  [k \in {<<type, i - 1>> : i \in DOMAIN htlc_txs} |-> htlc_txs[k[2] + 1]]

\* the transactions of the two loops, in list order
TimeoutTxs == [i \in DOMAIN offered_htlc |-> TimeoutTx(offered_htlc[i])]
SuccessTxs == [j \in DOMAIN received_htlc |-> SuccessTx(received_htlc[j])]

Init ==
  /\ offered_htlc \in ListsOf(HtlcKnown)
  /\ received_htlc \in ListsOf(HtlcSecret)
  /\ cmt_outs = <<>>
  /\ txs = <<>>
  /\ applies = 0

\* update_from_peer: every message is accepted and changes nothing
UpdateFromPeer(message) ==
  UNCHANGED vars

Apply ==
  /\ applies < MaxApplies
  /\ cmt_outs' = cmt_outs \o [i \in DOMAIN offered_htlc |-> OfferedOutput(offered_htlc[i])]
                          \o [j \in DOMAIN received_htlc |-> ReceivedOutput(received_htlc[j])]
  /\ txs' = Inserted("HtlcSuccess", SuccessTxs)
              @@ Inserted("HtlcTimeout", TimeoutTxs) @@ txs
  /\ applies' = applies + 1
  /\ UNCHANGED <<offered_htlc, received_htlc>>

Next ==
  \/ \E m \in Messages : UpdateFromPeer(m)
  \/ Apply

Spec == Init /\ [][Next]_vars

-----------------------------------------------------------------------------

\* the outputs of one apply, in order
Block ==
  [i \in DOMAIN offered_htlc |-> OfferedOutput(offered_htlc[i])]
    \o [j \in DOMAIN received_htlc |-> ReceivedOutput(received_htlc[j])]

RECURSIVE Repeat(_, _)
Repeat(s, n) == IF n = 0 THEN <<>> ELSE Repeat(s, n - 1) \o s

=============================================================================

------------------------------ MODULE HtlcScript ------------------------------
(***************************************************************************)
(* The HTLC script and transaction templates of                            *)
(* src/src/lnp/application/payment/extenders/htlc.rs (ScriptGenerators,   *)
(* TxGenerators) and the part of Bitcoin Script that decides who can spend *)
(* their outputs.  Operators only: HtlcSpend and HtlcExtension use them.   *)
(*                                                                          *)
(* A stack item is what its bytes are (a signature by a key, a public key, *)
(* a preimage, a hash of an item, a small number) and its size in bytes;   *)
(* two items are equal exactly when they are the same thing.  A signature *)
(* Sig(k) is valid for the spending transaction under key k.  The          *)
(* interpreter covers the opcodes the templates use, with the consensus    *)
(* rules of a P2WSH spend (NULLDUMMY, CLEANSTACK); it is Bitcoin's, not    *)
(* code of this repository.                                                *)
(***************************************************************************)
EXTENDS Naturals, Sequences, SequencesExt

-----------------------------------------------------------------------------
(* Stack items                                                             *)

Num(n)        == [what |-> <<"num", n>>, size |-> IF n = 0 THEN 0 ELSE 1]
Sig(k)        == [what |-> <<"sig", k>>, size |-> 72]
PubKey(k)     == [what |-> <<"pk", k>>, size |-> 33]
Preimage(p)   == [what |-> <<"preimage", p>>, size |-> 32]
Sha256Of(x)   == [what |-> <<"sha256", x.what>>, size |-> 32]
Ripemd160Of(x) == [what |-> <<"ripemd160", x.what>>, size |-> 20]
Hash160Of(x)  == Ripemd160Of(Sha256Of(x))

\* HashLock::from(HashPreimage) (bp crate): the SHA-256 of the preimage
HashLockOf(p) == Sha256Of(Preimage(p))

\* PublicKey::into_pk().pubkey_hash(): HASH160 of the compressed key
PubkeyHash(k) == Hash160Of(PubKey(k))

CastToBool(x) == x.size > 0
IsNum(x)      == x.what[1] = "num"

Op(name) == [op |-> name]
Push(x)  == [op |-> "PUSH", item |-> x]

-----------------------------------------------------------------------------
(* Script evaluation.  A machine is the stack (top last), the IF/ELSE      *)
(* condition stack and whether evaluation has failed.  ctx is the spending *)
(* input: lock_time of its transaction and its relative-lock sequence.     *)

Top(s)      == s[Len(s)]
PopN(s, n)  == SubSeq(s, 1, Len(s) - n)
Executing(m) == \A i \in DOMAIN m.exec : m.exec[i]
Fail(m)     == [m EXCEPT !.ok = FALSE]
SetStack(m, s) == [m EXCEPT !.stack = s]

\* a signature item checked against a key item
SigValid(sig, key) ==
  /\ key.what[1] = "pk"
  /\ sig.what[1] = "sig"
  /\ sig.what[2] = key.what[2]

\* OP_CHECKMULTISIG matches signatures and keys from the top down, each
\* signature against the remaining keys in order
RECURSIVE SigsMatch(_, _)
SigsMatch(sigs, keys) ==
  IF sigs = <<>> THEN TRUE
  ELSE IF Len(sigs) > Len(keys) THEN FALSE
  ELSE IF SigValid(Head(sigs), Head(keys))
       THEN SigsMatch(Tail(sigs), Tail(keys))
       ELSE SigsMatch(sigs, Tail(keys))

CheckMultisig(m) ==
  LET s  == m.stack
      n  == Len(s)
      nk == IF n >= 1 /\ IsNum(Top(s)) THEN Top(s).what[2] ELSE -1
      ns == IF nk >= 0 /\ n >= nk + 2 /\ IsNum(s[n - nk - 1])
            THEN s[n - nk - 1].what[2] ELSE -1
      keys == Reverse(SubSeq(s, n - nk, n - 1))
      sigs == Reverse(SubSeq(s, n - nk - ns - 1, n - nk - 2))
      dummy == s[n - nk - ns - 2]
  IN IF nk < 0 \/ nk > 20 \/ ns < 0 \/ ns > nk \/ n < nk + ns + 3
        \/ dummy # Num(0)                                   \* NULLDUMMY
     THEN Fail(m)
     ELSE SetStack(m, Append(PopN(s, nk + ns + 3),
                             Num(IF SigsMatch(sigs, keys) THEN 1 ELSE 0)))

\* an opcode in an executed branch
Exec(ctx, m, o) ==
  LET s == m.stack
      n == Len(s)
      need(k) == n >= k
  IN CASE o.op = "PUSH"     -> SetStack(m, Append(s, o.item))
       [] ~need(1)           -> Fail(m)
       [] o.op = "DUP"      -> SetStack(m, Append(s, Top(s)))
       [] o.op = "DROP"     -> SetStack(m, PopN(s, 1))
       [] o.op = "SIZE"     -> SetStack(m, Append(s, Num(Top(s).size)))
       [] o.op = "HASH160"  -> SetStack(m, Append(PopN(s, 1), Hash160Of(Top(s))))
       [] o.op = "CLTV"     -> IF IsNum(Top(s)) /\ Top(s).what[2] <= ctx.lock_time
                               THEN m ELSE Fail(m)
       [] o.op = "CSV"      -> IF IsNum(Top(s)) /\ Top(s).what[2] <= ctx.sequence
                               THEN m ELSE Fail(m)
       [] o.op = "CHECKMULTISIG" -> CheckMultisig(m)
       [] ~need(2)           -> Fail(m)
       [] o.op = "SWAP"     -> SetStack(m, PopN(s, 2) \o <<s[n], s[n - 1]>>)
       [] o.op = "EQUAL"    -> SetStack(m, Append(PopN(s, 2),
                                           Num(IF s[n] = s[n - 1] THEN 1 ELSE 0)))
       [] o.op = "EQUALVERIFY" -> IF s[n] = s[n - 1] THEN SetStack(m, PopN(s, 2))
                                  ELSE Fail(m)
       [] o.op = "CHECKSIG" -> SetStack(m, Append(PopN(s, 2),
                                 Num(IF SigValid(s[n - 1], s[n]) THEN 1 ELSE 0)))

\* one opcode: the flow-control ones run in every branch, the others only
\* in an executed one
Step(ctx, m, o) ==
  IF ~m.ok THEN m
  ELSE CASE o.op \in {"IF", "NOTIF"} ->
              IF ~Executing(m) THEN [m EXCEPT !.exec = Append(@, FALSE)]
              ELSE IF m.stack = <<>> THEN Fail(m)
              ELSE LET c == CastToBool(Top(m.stack)) IN
                   [m EXCEPT !.stack = PopN(@, 1),
                             !.exec  = Append(@, IF o.op = "IF" THEN c ELSE ~c)]
         [] o.op = "ELSE"  -> IF m.exec = <<>> THEN Fail(m)
                              ELSE [m EXCEPT !.exec[Len(m.exec)] = ~@]
         [] o.op = "ENDIF" -> IF m.exec = <<>> THEN Fail(m)
                              ELSE [m EXCEPT !.exec = PopN(@, 1)]
         [] ~Executing(m)  -> m
         [] OTHER          -> Exec(ctx, m, o)

\* a P2WSH input spending an output whose witness script is script, with
\* witness items witness (bottom first): evaluation succeeds, every IF is
\* closed and exactly one true item is left (CLEANSTACK)
WitnessVerifies(ctx, script, witness) ==
  LET step(m, o) == Step(ctx, m, o)
      final == FoldLeft(step, [stack |-> witness, exec |-> <<>>, ok |-> TRUE], script)
  IN /\ final.ok
     /\ final.exec = <<>>
     /\ Len(final.stack) = 1
     /\ CastToBool(final.stack[1])

-----------------------------------------------------------------------------
(* ScriptGenerators for LockScript: the builder chains, op for op          *)

\* a mutation: OP_NOTIF written as OP_IF
LnOfferedHtlcIf(rev, local, remote, payment_hash) ==
  << Op("DUP"), Op("HASH160"), Push(PubkeyHash(rev)), Op("EQUAL"),
     Op("IF"), Op("CHECKSIG"),
     Op("ELSE"), Push(PubKey(remote)), Op("SWAP"), Op("SIZE"), Push(Num(32)),
       Op("EQUAL"),
       Op("IF"), Op("DROP"), Push(Num(2)), Op("SWAP"), Push(PubKey(local)),
         Push(Num(2)), Op("CHECKMULTISIG"),
       Op("ELSE"), Op("HASH160"), Push(payment_hash), Op("EQUALVERIFY"),
         Op("CHECKSIG"),
       Op("ENDIF"),
     Op("ENDIF") >>

\* LockScript::ln_offered_htlc
LnOfferedHtlc(rev, local, remote, payment_hash) ==
  << Op("DUP"), Op("HASH160"), Push(PubkeyHash(rev)), Op("EQUAL"),
     Op("IF"), Op("CHECKSIG"),
     Op("ELSE"), Push(PubKey(remote)), Op("SWAP"), Op("SIZE"), Push(Num(32)),
       Op("EQUAL"),
       Op("NOTIF"), Op("DROP"), Push(Num(2)), Op("SWAP"), Push(PubKey(local)),
         Push(Num(2)), Op("CHECKMULTISIG"),
       Op("ELSE"), Op("HASH160"), Push(payment_hash), Op("EQUALVERIFY"),
         Op("CHECKSIG"),
       Op("ENDIF"),
     Op("ENDIF") >>

\* a mutation: the OP_CLTV of the timeout branch is missing
LnReceivedHtlcNoCltv(rev, local, remote, cltv_expiry, payment_hash) ==
  << Op("DUP"), Op("HASH160"), Push(PubkeyHash(rev)), Op("EQUAL"),
     Op("IF"), Op("CHECKSIG"),
     Op("ELSE"), Push(PubKey(remote)), Op("SWAP"), Op("SIZE"), Push(Num(32)),
       Op("EQUAL"),
       Op("IF"), Op("HASH160"), Push(payment_hash), Op("EQUALVERIFY"),
         Push(Num(2)), Op("SWAP"), Push(PubKey(local)), Push(Num(2)),
         Op("CHECKMULTISIG"),
       Op("ELSE"), Op("DROP"), Push(Num(cltv_expiry)), Op("DROP"),
         Op("CHECKSIG"),
       Op("ENDIF"),
     Op("ENDIF") >>

\* LockScript::ln_received_htlc
LnReceivedHtlc(rev, local, remote, cltv_expiry, payment_hash) ==
  << Op("DUP"), Op("HASH160"), Push(PubkeyHash(rev)), Op("EQUAL"),
     Op("IF"), Op("CHECKSIG"),
     Op("ELSE"), Push(PubKey(remote)), Op("SWAP"), Op("SIZE"), Push(Num(32)),
       Op("EQUAL"),
       Op("IF"), Op("HASH160"), Push(payment_hash), Op("EQUALVERIFY"),
         Push(Num(2)), Op("SWAP"), Push(PubKey(local)), Push(Num(2)),
         Op("CHECKMULTISIG"),
       Op("ELSE"), Op("DROP"), Push(Num(cltv_expiry)), Op("CLTV"), Op("DROP"),
         Op("CHECKSIG"),
       Op("ENDIF"),
     Op("ENDIF") >>

\* LockScript::ln_htlc_output
LnHtlcOutput(rev, local_delayed, to_self_delay) ==
  << Op("IF"), Push(PubKey(rev)),
     Op("ELSE"), Push(Num(to_self_delay)), Op("CSV"), Op("DROP"),
       Push(PubKey(local_delayed)),
     Op("ENDIF"), Op("CHECKSIG") >>

-----------------------------------------------------------------------------
(* WitnessScript, PubkeyScript, TxOut and the HTLC transaction             *)

\* WitnessScript::ln_* (.into()) then PubkeyScript::ln_* (.to_p2wsh())
ToP2wsh(witness_script) == [p2wsh |-> witness_script]

\* TxOut::ln_*: value and the P2WSH script_pubkey
HtlcTxOut(amount, witness_script) ==
  [value |-> amount, script_pubkey |-> ToP2wsh(witness_script)]

\* Transaction::ln_htlc wrapped by Psbt::from_unsigned_tx: one input with
\* sequence 0 spending outpoint, lock_time cltv_expiry, one output
LnHtlcTx(amount, outpoint, cltv_expiry, rev, local_delayed, to_self_delay) ==
  [version   |-> 2,
   lock_time |-> cltv_expiry,
   input     |-> <<[previous_output |-> outpoint, sequence |-> 0]>>,
   output    |-> <<HtlcTxOut(amount, LnHtlcOutput(rev, local_delayed, to_self_delay))>>]

=============================================================================

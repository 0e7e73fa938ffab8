------------------------------ MODULE HtlcSpend ------------------------------
(***************************************************************************)
(* Who can spend the outputs the HTLC templates of htlc.rs lock.  One     *)
(* output, locked by ln_offered_htlc, ln_received_htlc or ln_htlc_output  *)
(* with the roles' keys, is confirmed at height 0.  Blocks arrive, and a   *)
(* spender puts together a witness item by item out of everything anyone  *)
(* could hold (every role's signature and public key, the payment         *)
(* preimage and another one, small numbers) and submits it in an input   *)
(* with lock_time and relative lock as late as the current height allows. *)
(***************************************************************************)
EXTENDS HtlcScript, FiniteSets

CONSTANTS
  Rev, Local, Remote,    \* revocation, local and remote HTLC keys
  Secret,                \* the payment preimage
  OtherPreimage,         \* a preimage that is not the payment's
  CltvExpiry,            \* cltv_expiry of a received HTLC
  ToSelfDelay,           \* to_self_delay of the second-stage output
  MaxHeight,             \* blocks mined after the output confirms
  MaxWitness,            \* witness items a spender may put together
  None

Keys == {Rev, Local, Remote}

\* the witness script of each template, instantiated as in BOLT 3 with the
\* local delayed key being the local key
Script ==
  [offered     |-> LnOfferedHtlc(Rev, Local, Remote, HashLockOf(Secret)),
   received    |-> LnReceivedHtlc(Rev, Local, Remote, CltvExpiry, HashLockOf(Secret)),
   htlc_output |-> LnHtlcOutput(Rev, Local, ToSelfDelay)]

Items ==
  {Sig(k) : k \in Keys} \cup {PubKey(k) : k \in Keys}
    \cup {Preimage(Secret), Preimage(OtherPreimage), Num(0), Num(1)}

\* the latest lock_time and relative lock an input can carry at height h
Ctx(h) == [lock_time |-> h, sequence |-> h]

VARIABLES kind, height, witness, verdict
vars == <<kind, height, witness, verdict>>

Init ==
  /\ kind \in DOMAIN Script
  /\ height = 0
  /\ witness = <<>>
  /\ verdict = None

Tick ==
  /\ height < MaxHeight
  /\ height' = height + 1
  /\ UNCHANGED <<kind, witness, verdict>>

AddItem(x) ==
  /\ verdict = None
  /\ Len(witness) < MaxWitness
  /\ witness' = Append(witness, x)
  /\ UNCHANGED <<kind, height, verdict>>

Submit ==
  /\ verdict = None
  /\ verdict' = [accepted |-> WitnessVerifies(Ctx(height), Script[kind], witness),
                 height   |-> height]
  /\ UNCHANGED <<kind, height, witness>>

Next == Tick \/ (\E x \in Items : AddItem(x)) \/ Submit

Spec == Init /\ [][Next]_vars

-----------------------------------------------------------------------------

Holds(w, x) == \E i \in DOMAIN w : w[i] = x

\* the BOLT 3 spending conditions of each output at height h
Bolt3Authorised(k, h, w) ==
  \/ k # "htlc_output" /\ Holds(w, Sig(Rev))
  \/ k = "offered" /\ Holds(w, Sig(Remote)) /\ Holds(w, Preimage(Secret))
  \/ k = "offered" /\ Holds(w, Sig(Local)) /\ Holds(w, Sig(Remote))
  \/ k = "received" /\ Holds(w, Sig(Local)) /\ Holds(w, Sig(Remote))
                    /\ Holds(w, Preimage(Secret))
  \/ k = "received" /\ Holds(w, Sig(Remote)) /\ h >= CltvExpiry
  \/ k = "htlc_output" /\ Holds(w, Sig(Rev))
  \/ k = "htlc_output" /\ Holds(w, Sig(Local)) /\ h >= ToSelfDelay

\* The scripts built by ln_offered_htlc, ln_received_htlc and
\* ln_htlc_output let no witness spend their output unless it carries the
\* secrets of a BOLT 3 path: the revocation key, both HTLC signatures, the
\* remote signature after the expiry, or the delayed key after the delay.
SpendAuthorised ==
  verdict # None /\ verdict.accepted =>
    Bolt3Authorised(kind, verdict.height, witness)

\* the BOLT 3 witnesses of the paths that need no preimage, at height h
KeyPathWitnesses(k, h) ==
  CASE k = "offered"  -> {<<Sig(Rev), PubKey(Rev)>>,
                          <<Num(0), Sig(Remote), Sig(Local), Num(0)>>}
    [] k = "received" -> {<<Sig(Rev), PubKey(Rev)>>}
                           \cup (IF h >= CltvExpiry THEN {<<Sig(Remote), Num(0)>>}
                                 ELSE {})
    [] OTHER          -> {<<Sig(Rev), Num(1)>>}
                           \cup (IF h >= ToSelfDelay THEN {<<Sig(Local), Num(0)>>}
                                 ELSE {})

\* the BOLT 3 witnesses that reveal the payment preimage
PreimageWitnesses(k) ==
  CASE k = "offered"  -> {<<Sig(Remote), Preimage(Secret)>>}
    [] k = "received" -> {<<Num(0), Sig(Remote), Sig(Local), Preimage(Secret)>>}
    [] OTHER          -> {}

\* Every path of the templates that needs no preimage works: revocation,
\* the offered 2-of-2 timeout, the received timeout once cltv_expiry is
\* reached, and the delayed output once to_self_delay has passed.
KeyPathsSpendable ==
  \A w \in KeyPathWitnesses(kind, height) :
    WitnessVerifies(Ctx(height), Script[kind], w)

\* The payment can be claimed: the witness that reveals the preimage
\* spends the offered output (remote success) and the received output
\* (local success), as the BOLT 3 outputs the templates are named and
\* parameterised after allow; the comment at apply already doubts that the
\* payment hash is computed as BOLT 3 wants.
PreimagePathsSpendable ==
  \A w \in PreimageWitnesses(kind) :
    WitnessVerifies(Ctx(height), Script[kind], w)
=============================================================================

------------------------------ MODULE BlindSeal ------------------------------
(***************************************************************************)
(* Blinded transaction-output single-use seals (src/seals/src/txout/       *)
(* blind.rs, with the close method of src/seals/src/lib.rs).                *)
(*                                                                          *)
(* The owner of a seal creates a RevealedSeal (method, txid?, vout,         *)
(* blinding), publishes its ConcealedSeal (a tagged hash of the four        *)
(* fields) and later hands out the revealed seal in its textual form        *)
(* (Display).  Whoever receives the text parses it (FromStr) and checks it  *)
(* against the published concealed seal.  Between Display and FromStr the   *)
(* text may be edited by hand or by a tool, one field or separator at a     *)
(* time.                                                                    *)
(*                                                                          *)
(* Text is abstracted to the sequence of its fields, split at ':' and '#',  *)
(* and the separators between them; a field is a token that says what its   *)
(* characters are (a method word, '~', a 64-digit txid, a decimal, a '0x'   *)
(* hexadecimal, ...).  u32 and u64 keep an overflow boundary, scaled down   *)
(* to VoutBits and BlindingBits bits.                                       *)
(***************************************************************************)
EXTENDS Naturals, Sequences, FiniteSets

CONSTANTS
  Txids,         \* transaction ids; ZeroTxid is one of them
  ZeroTxid,      \* Txid::from([0u8; 32])
  VoutBits,      \* width of Vout (u32), scaled down
  BlindingBits,  \* width of the blinding (u64), scaled down
  Nums,          \* numbers written in the vout and blinding fields of a text
  MaxFields,     \* bound: fields of an edited text
  MaxEdits,      \* bound: edits between Display and FromStr
  None           \* Option::None

ASSUME ZeroTxid \in Txids /\ MaxFields >= 4

VARIABLES
  seal,       \* the owner's RevealedSeal
  concealed,  \* the ConcealedSeal the owner published, or None
  text,       \* the seal's textual form in transit, or None
  edits,      \* edits made to text since Display
  parsed,     \* result of the receiver's last FromStr
  outpoint    \* result of the last outpoint projection

vars == <<seal, concealed, text, edits, parsed, outpoint>>

-----------------------------------------------------------------------------
(* CloseMethod (src/seals/src/lib.rs)                                      *)

Methods == {"OpretFirst", "TapretFirst"}

\* #[repr(u8)]: OpretFirst = 0x00, TapretFirst = 0x01
MethodByte(m) == IF m = "OpretFirst" THEN 0 ELSE 1

\* Display: "opret1st", "tapret1st"
MethodName(m) == IF m = "OpretFirst" THEN "opret1st" ELSE "tapret1st"

\* method words a text may hold, and what s.to_lowercase() makes of them
Words == {"opret1st", "tapret1st", "TAPRET1ST", "tapret"}
ToLowercase(w) == IF w = "TAPRET1ST" THEN "tapret1st" ELSE w

\* FromStr for the close method: the lowercased text must be a method name
ParseMethod(w) ==
  LET m == {x \in Methods : MethodName(x) = ToLowercase(w)}
  IN  IF m # {} THEN [ok |-> TRUE, val |-> CHOOSE x \in m : TRUE]
      ELSE [ok |-> FALSE, err |-> "WrongMethod"]

-----------------------------------------------------------------------------
(* RevealedSeal and its constructors                                       *)

Vouts      == 0 .. (2^VoutBits - 1)
Blindings  == 0 .. (2^BlindingBits - 1)
RevealedSeals ==
  [method : Methods, txid : Txids \cup {None}, vout : Vouts, blinding : Blindings]

RevealedSeal(m, t, v, b) == [method |-> m, txid |-> t, vout |-> v, blinding |-> b]

\* TryFrom<&RevealedSeal> for Outpoint: only a seal with a txid has one
TryIntoOutpoint(s) ==
  IF s.txid # None THEN [ok |-> TRUE, val |-> <<s.txid, s.vout>>]
  ELSE [ok |-> FALSE, err |-> "WitnessVoutError"]

\* TxoSeal::outpoint_or: a witness seal takes the closing transaction's txid
OutpointOr(s, default_txid) ==
  <<IF s.txid # None THEN s.txid ELSE default_txid, s.vout>>

-----------------------------------------------------------------------------
(* ConcealedSeal::commit: tagged SHA-256 over method byte, txid or 32 zero *)
(* bytes, vout as 4 LE bytes, blinding as 8 LE bytes.  The fixed-width     *)
(* serialisation is injective on its four parts, and the hash is taken to  *)
(* be injective, so the concealed seal is the serialised tuple.            *)

ConcealedSealCommit(s) ==
  [tag  |-> "MIDSTATE_CONCEALED_SEAL",
   data |-> <<MethodByte(s.method),
              IF s.txid # None THEN s.txid ELSE ZeroTxid,
              s.vout, s.blinding>>]

-----------------------------------------------------------------------------
(* Text: fields and separators                                             *)

Word(w)     == [t |-> "word", w |-> w]
Tilde       == [t |-> "tilde"]                \* "~"
Empty       == [t |-> "empty"]                \* ""
Junk        == [t |-> "junk"]                 \* "i9", "-5", "_", "rvgbdg"
TxidTok(x)  == [t |-> "txid", v |-> x]        \* 64 lowercase hex digits
Dec(n)      == [t |-> "dec", v |-> n]         \* decimal digits of n
\* k times "0x", then the hex digits of n
Hex(k, n)   == [t |-> "hex", pre |-> k, d |-> "num", v |-> n]
\* k times "0x", then non-hex characters ("junk") or nothing ("none")
HexBad(k, d) == [t |-> "hex", pre |-> k, d |-> d]

Tokens ==
  {Word(w) : w \in Words} \cup {Tilde, Empty, Junk}
    \cup {TxidTok(x) : x \in Txids} \cup {Dec(n) : n \in Nums}
    \cup {Hex(k, n) : k \in 1..2, n \in Nums}
    \cup {HexBad(k, d) : k \in 1..2, d \in {"junk", "none"}}

Seps == {":", "#"}

\* a mutation: the format string lost its second separator
DisplayMissingSep(s) ==
  [fields |-> <<Word(MethodName(s.method)),
                IF s.txid # None THEN TxidTok(s.txid) ELSE Tilde,
                Dec(s.vout),
                Hex(1, s.blinding)>>,
   seps   |-> <<":", "#">>]

\* Display for RevealedSeal: "{method}:{txid or ~}:{vout}#{blinding:#010x}"
\* ({:#010x} writes one "0x" and at least eight hex digits)
Display(s) ==
  [fields |-> <<Word(MethodName(s.method)),
                IF s.txid # None THEN TxidTok(s.txid) ELSE Tilde,
                Dec(s.vout),
                Hex(1, s.blinding)>>,
   seps   |-> <<":", ":", "#">>]

(* Mutations: plausible bugs of the parser below.                         *)

\* the vout's map_err copied from the txid line
ParseVoutMislabelled(tok) ==
  IF tok.t = "dec" /\ tok.v < 2^VoutBits THEN [ok |-> TRUE, val |-> tok.v]
  ELSE [ok |-> FALSE, err |-> "WrongTxid"]

\* a mutation: the vout is parsed without the u32 range check
ParseVoutUnbounded(tok) ==
  IF tok.t = "dec" THEN [ok |-> TRUE, val |-> tok.v]
  ELSE [ok |-> FALSE, err |-> "WrongVout"]

\* vout.parse::<u32>(): decimal digits of a value below 2^32
ParseVout(tok) ==
  IF tok.t = "dec" /\ tok.v < 2^VoutBits THEN [ok |-> TRUE, val |-> tok.v]
  ELSE [ok |-> FALSE, err |-> "WrongVout"]

\* a mutation: the "0x" check of the blinding is missing
StartsWith0xDropped(tok) == TRUE

\* blinding.starts_with("0x")
StartsWith0x(tok) == tok.t = "hex" /\ tok.pre >= 1

\* u64::from_str_radix(blinding.trim_start_matches("0x"), 16): every leading
\* "0x" is trimmed, then hex digits of a value below 2^64 are required
ParseBlinding(tok) ==
  IF tok.t = "hex" /\ tok.d = "num" /\ tok.v < 2^BlindingBits
  THEN [ok |-> TRUE, val |-> tok.v]
  ELSE [ok |-> FALSE, err |-> "WrongBlinding"]

\* txid.parse::<Txid>()
ParseTxid(tok) ==
  IF tok.t = "txid" THEN [ok |-> TRUE, val |-> tok.v]
  ELSE [ok |-> FALSE, err |-> "WrongTxid"]

ParseMethodTok(tok) ==
  IF tok.t = "word" THEN ParseMethod(tok.w) ELSE [ok |-> FALSE, err |-> "WrongMethod"]

\* a mutation: the "~" arm is missing, so "~" is parsed as a txid
BuildSealNoWitness(mtok, ttok, vtok, btok) ==
  LET m == ParseMethodTok(mtok)
      b == ParseBlinding(btok)
      t == ParseTxid(ttok)
      v == ParseVout(vtok)
  IN  CASE ~m.ok -> m
        [] ~b.ok -> b
        [] ~t.ok -> t
        [] ~v.ok -> v
        [] OTHER -> [ok |-> TRUE, val |-> RevealedSeal(m.val, t.val, v.val, b.val)]

\* the struct literal of the two Ok arms: its fields are evaluated, and the
\* first failing `?` returned, in the order method, blinding, txid, vout
BuildSeal(mtok, ttok, vtok, btok) ==
  LET m == ParseMethodTok(mtok)
      b == ParseBlinding(btok)
      t == IF ttok = Tilde THEN [ok |-> TRUE, val |-> None] ELSE ParseTxid(ttok)
      v == ParseVout(vtok)
  IN  CASE ~m.ok -> m
        [] ~b.ok -> b
        [] ~t.ok -> t
        [] ~v.ok -> v
        [] OTHER -> [ok |-> TRUE, val |-> RevealedSeal(m.val, t.val, v.val, b.val)]

\* FromStr for RevealedSeal: s.split(&[':', '#']) and the match on its
\* first five parts, arm by arm in the order of the code
FromStr(txt) ==
  LET f == txt.fields
      n == Len(f)
      hasColon == \E i \in DOMAIN txt.seps : txt.seps[i] = ":"
  IN  CASE f[1] \in {Tilde, Empty} -> [ok |-> FALSE, err |-> "MethodRequired"]
        [] n >= 2 /\ f[2] = Empty -> [ok |-> FALSE, err |-> "TxidRequired"]
        [] n = 2 /\ hasColon -> [ok |-> FALSE, err |-> "BlindingRequired"]
        [] n = 4 /\ ~StartsWith0x(f[4]) -> [ok |-> FALSE, err |-> "NonHexBlinding"]
        [] n = 4 -> BuildSeal(f[1], f[2], f[3], f[4])
        [] OTHER -> [ok |-> FALSE, err |-> "WrongStructure"]

-----------------------------------------------------------------------------
(* The texts of the unit test outpoint_reveal_str and the results it       *)
(* asserts.  Its txid is a non-zero one; its vouts (21, 5) and blindings   *)
(* are in range and stand as 1.                                            *)

TestTxid == CHOOSE x \in Txids : x # ZeroTxid

Txt(f, sp) == [fields |-> f, seps |-> sp]
ParseErr(e) == [ok |-> FALSE, err |-> e]
Tapret1st == Word("tapret1st")
TestTxidTok == TxidTok(TestTxid)
TestBlinding == Hex(1, 1)

SealTests ==
  { [text |-> Display(RevealedSeal("TapretFirst", TestTxid, 1, 1)),
     result |-> [ok |-> TRUE, val |-> RevealedSeal("TapretFirst", TestTxid, 1, 1)]],
    [text |-> Display(RevealedSeal("TapretFirst", None, 1, 1)),
     result |-> [ok |-> TRUE, val |-> RevealedSeal("TapretFirst", None, 1, 1)]],
    \* wrong method, wrong vout ("0x765", "i9", "-5")
    [text |-> Txt(<<Word("tapret"), TestTxidTok, Hex(1, 1), TestBlinding>>, <<":", ":", "#">>), result |-> ParseErr("WrongMethod")],
    [text |-> Txt(<<Tapret1st, TestTxidTok, Hex(1, 1), TestBlinding>>, <<":", ":", "#">>), result |-> ParseErr("WrongVout")],
    [text |-> Txt(<<Tapret1st, TestTxidTok, Junk, TestBlinding>>, <<":", ":", "#">>), result |-> ParseErr("WrongVout")],
    \* wrong blinding ("0x78cs"; "78ca95", "-5"; "857")
    [text |-> Txt(<<Tapret1st, TestTxidTok, Dec(1), HexBad(1, "junk")>>, <<":", ":", "#">>), result |-> ParseErr("WrongBlinding")],
    [text |-> Txt(<<Tapret1st, TestTxidTok, Dec(1), Junk>>, <<":", ":", "#">>), result |-> ParseErr("NonHexBlinding")],
    [text |-> Txt(<<Tapret1st, TestTxidTok, Dec(1), Dec(1)>>, <<":", ":", "#">>), result |-> ParseErr("NonHexBlinding")],
    \* wrong txid (63 digits, "rvgbdg", "10@...", "_")
    [text |-> Txt(<<Tapret1st, Junk, Dec(1), TestBlinding>>, <<":", ":", "#">>), result |-> ParseErr("WrongTxid")],
    \* wrong structure
    [text |-> Txt(<<Tapret1st, TestTxidTok, Dec(1)>>, <<":", ":">>), result |-> ParseErr("WrongStructure")],
    [text |-> Txt(<<Tapret1st, TestTxidTok, TestBlinding>>, <<":", "#">>), result |-> ParseErr("WrongStructure")],
    [text |-> Txt(<<Tapret1st, TestTxidTok>>, <<":">>), result |-> ParseErr("BlindingRequired")],
    [text |-> Txt(<<Tapret1st, TestTxidTok, Empty, TestBlinding>>, <<":", "#", "#">>), result |-> ParseErr("WrongVout")],
    [text |-> Txt(<<Tapret1st, TestTxidTok, Empty, TestBlinding>>, <<":", ":", "#">>), result |-> ParseErr("WrongVout")],
    [text |-> Txt(<<Empty, Dec(1), TestBlinding>>, <<":", "#">>), result |-> ParseErr("MethodRequired")],
    [text |-> Txt(<<Tilde, Dec(1), TestBlinding>>, <<":", "#">>), result |-> ParseErr("MethodRequired")] }

-----------------------------------------------------------------------------
(* The owner, the text in transit and the receiver                         *)

Init ==
  /\ seal \in RevealedSeals
  /\ concealed = None
  /\ text = None
  /\ edits = 0
  /\ parsed = None
  /\ outpoint = None

\* a fresh seal drops what was derived from the previous one
Fresh(s) ==
  /\ seal' = s
  /\ concealed' = None
  /\ text' = None
  /\ edits' = 0
  /\ parsed' = None
  /\ outpoint' = None

\* RevealedSeal::with and From<ExplicitSeal>: any method, txid or none, and a
\* blinding drawn from the rng
CreateWith(m, t, v, b) == Fresh(RevealedSeal(m, t, v, b))

\* RevealedSeal::new and From<Outpoint> (the latter with TapretFirst): a
\* seal on a known outpoint, blinding from thread_rng
CreateFromOutpoint(m, t, v, b) == Fresh(RevealedSeal(m, t, v, b))

\* Conceal::conceal / to_concealed_seal; the owner publishes the result
Conceal ==
  /\ concealed' = ConcealedSealCommit(seal)
  /\ UNCHANGED <<seal, text, edits, parsed, outpoint>>

\* the owner hands out seal.to_string(), once per seal (Display is a
\* function of the seal, so a second round would repeat the first)
Show ==
  /\ text = None /\ parsed = None
  /\ text' = Display(seal)
  /\ edits' = 0
  /\ UNCHANGED <<seal, concealed, parsed, outpoint>>

\* the text is edited in transit: a field replaced, a separator changed, a
\* field appended or the last one dropped
EditText(txt) ==
  /\ text # None
  /\ edits < MaxEdits
  /\ text' = txt
  /\ edits' = edits + 1
  /\ UNCHANGED <<seal, concealed, parsed, outpoint>>

ReplaceField(i, tok) == EditText([text EXCEPT !.fields[i] = tok])
ReplaceSep(i, sp)    == EditText([text EXCEPT !.seps[i] = sp])
AppendField(sp, tok) ==
  /\ text # None /\ Len(text.fields) < MaxFields
  /\ EditText([fields |-> Append(text.fields, tok), seps |-> Append(text.seps, sp)])
DropField ==
  /\ text # None /\ Len(text.fields) > 1
  /\ EditText([fields |-> SubSeq(text.fields, 1, Len(text.fields) - 1),
               seps   |-> SubSeq(text.seps, 1, Len(text.seps) - 1)])

\* the receiver takes the text and runs RevealedSeal::from_str on it
Parse ==
  /\ text # None
  /\ parsed' = [text |-> text, result |-> FromStr(text)]
  /\ text' = None
  /\ edits' = 0
  /\ UNCHANGED <<seal, concealed, outpoint>>

\* the receiver runs RevealedSeal::from_str on a text from elsewhere: one
\* of the texts of the unit test
ParseGiven(t) ==
  /\ text = None /\ parsed = None
  /\ parsed' = [text |-> t, result |-> FromStr(t)]
  /\ UNCHANGED <<seal, concealed, text, edits, outpoint>>

\* TxoSeal::outpoint (TryFrom<&RevealedSeal> for Outpoint)
ToOutpoint ==
  /\ outpoint' = TryIntoOutpoint(seal)
  /\ UNCHANGED <<seal, concealed, text, edits, parsed>>

\* TxoSeal::outpoint_or with the txid of the closing transaction
OutpointOrWitness(w) ==
  /\ outpoint' = [ok |-> TRUE, val |-> OutpointOr(seal, w)]
  /\ UNCHANGED <<seal, concealed, text, edits, parsed>>

Next ==
  \/ \E m \in Methods, t \in Txids \cup {None}, v \in Vouts, b \in Blindings :
        CreateWith(m, t, v, b)
  \/ \E t \in Txids, v \in Vouts, b \in Blindings :
        CreateFromOutpoint("TapretFirst", t, v, b)
  \/ Conceal
  \/ Show
  \/ \E i \in 1..MaxFields, tok \in Tokens :
        text # None /\ i <= Len(text.fields) /\ ReplaceField(i, tok)
  \/ \E i \in 1..MaxFields, sp \in Seps :
        text # None /\ i <= Len(text.seps) /\ ReplaceSep(i, sp)
  \/ \E sp \in Seps, tok \in Tokens : AppendField(sp, tok)
  \/ DropField
  \/ Parse
  \/ \E v \in SealTests : ParseGiven(v.text)
  \/ ToOutpoint
  \/ \E w \in Txids : OutpointOrWitness(w)

Spec == Init /\ [][Next]_vars

-----------------------------------------------------------------------------
(* Properties                                                              *)

Texts == [fields : Seq(Tokens), seps : Seq(Seps)]

TypeOK ==
  /\ seal \in RevealedSeals
  /\ concealed = None \/ concealed = ConcealedSealCommit(seal)
  /\ text = None \/ (Len(text.fields) \in 1..MaxFields
                     /\ Len(text.seps) = Len(text.fields) - 1)
  /\ edits \in 0..MaxEdits
  /\ parsed = None \/ parsed.result.ok \in BOOLEAN

\* the receiver accepts a revealed seal that parses and matches the
\* published concealed seal
Accepts(p) ==
  /\ p # None /\ concealed # None
  /\ p.result.ok
  /\ ConcealedSealCommit(p.result.val) = concealed

\* Spec P7 and the reveal protocol: the text the owner displays, unedited,
\* parses back to the owner's seal, which re-commits to the concealed seal
\* the owner published, for every method, txid or witness seal, vout and
\* blinding.
RevealAccepted ==
  (parsed # None /\ concealed # None /\ parsed.text = Display(seal))
    => Accepts(parsed) /\ parsed.result.val = seal

\* position of the field a parse error names (0: the structure)
ErrorField(e) ==
  CASE e \in {"MethodRequired", "WrongMethod"} -> 1
    [] e \in {"TxidRequired", "WrongTxid"} -> 2
    [] e = "WrongVout" -> 3
    [] e \in {"BlindingRequired", "NonHexBlinding", "WrongBlinding"} -> 4
    [] OTHER -> 0

\* what the spec's grammar (spec 6) admits at each position of a seal text
ValidField(i, tok) ==
  CASE i = 1 -> tok.t = "word" /\ ToLowercase(tok.w) \in {MethodName(m) : m \in Methods}
    [] i = 2 -> tok.t = "txid" \/ tok = Tilde
    [] i = 3 -> tok.t = "dec" /\ tok.v < 2^VoutBits
    [] i = 4 -> tok.t = "hex" /\ tok.pre = 1 /\ tok.d = "num" /\ tok.v < 2^BlindingBits
    [] OTHER -> FALSE

\* Spec 7 (parse errors carry the specific sub-cause): an error of FromStr
\* that names a field names one the text really has wrong (or lacks).
ErrorLocatesField ==
  (parsed # None /\ ~parsed.result.ok /\ ErrorField(parsed.result.err) # 0)
    => LET i == ErrorField(parsed.result.err) IN
       i > Len(parsed.text.fields) \/ ~ValidField(i, parsed.text.fields[i])

\* a text says the same as the displayed text d in all but form: the case
\* of the method word, the number of "0x" before the blinding and the
\* separators
SameUpToForm(t, d) ==
  /\ Len(t.fields) = Len(d.fields)
  /\ \A i \in DOMAIN t.fields :
       \/ t.fields[i] = d.fields[i]
       \/ i = 1 /\ t.fields[1].t = "word" /\ ToLowercase(t.fields[1].w) = d.fields[1].w
       \/ i = 4 /\ t.fields[4].t = "hex" /\ t.fields[4].d = "num"
                /\ t.fields[4].v = d.fields[4].v

\* FromStr splits at either separator and trims every "0x", so it accepts
\* texts the grammar of spec 6 does not; whatever text it accepts, the
\* seal it returns is in range and is what the text says up to that form:
\* its own Display parses back to it, and differs from the accepted text
\* only in method case, "0x" prefixes and separators.
AcceptedIsCanonical ==
  (parsed # None /\ parsed.result.ok) =>
    /\ parsed.result.val \in RevealedSeals
    /\ FromStr(Display(parsed.result.val)) = parsed.result
    /\ SameUpToForm(parsed.text, Display(parsed.result.val))

\* The model agrees with the unit test outpoint_reveal_str: FromStr gives
\* each of its texts the result the test asserts, the round trips of a
\* seal with and without a txid and every error of every malformed text.
SealTestsAgree ==
  parsed # None =>
    \A v \in SealTests : parsed.text = v.text => parsed.result = v.result

\* Spec P6: a revealed seal the receiver accepts against the published
\* concealed seal is the owner's seal; no other seal conceals to it.
ConcealBinding ==
  Accepts(parsed) => parsed.result.val = seal

=============================================================================

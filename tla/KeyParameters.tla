--------------------------- MODULE KeyParameters ---------------------------
(***************************************************************************)
(* Which keys can be made and which operations can begin on them: the      *)
(* checks of key generation and import (src/common/src/tag.rs), the checks *)
(* of begin and the cipher, padding and signing modes built from the same  *)
(* parameters once the checks have passed (src/ta/src/operation/begin.rs), *)
(* and the length check of an HMAC verification (src/ta/src/operation.rs). *)
(*                                                                         *)
(* A tag given twice is refused everywhere and left out, as are the tags   *)
(* no check looks at.  "none" and 0 stand for a tag that is absent, except *)
(* in a padding or digest, where "none" is the value NONE and "absent"     *)
(* the missing tag.                                                        *)
(***************************************************************************)
EXTENDS Integers, FiniteSets

CONSTANTS
    Level,     \* the instance's security level: "tee" or "strongbox"
    Requests,  \* key generations and imports tried
    Params,    \* parameters of begin tried
    SigLens    \* lengths, in bytes, of the signatures given to a verification

Digests == {"none", "md5", "sha1", "sha224", "sha256", "sha384", "sha512"}

\* What a request and the parameters of begin consist of; lengths are in bits,
\* that of a nonce is in bytes.
ParametersAssumption ==
    /\ Requests \subseteq
         [alg : STRING, how : STRING, purposes : SUBSET STRING, blocks : SUBSET STRING,
          paddings : SUBSET STRING, digests : SUBSET Digests, mgfs : SUBSET STRING, min : Nat,
          size : Nat, actual : Nat, curve : STRING, type : STRING,
          data : [curve : STRING, type : STRING], tags : SUBSET STRING]
    /\ Params \subseteq [block : STRING, padding : STRING, digest : STRING, mgf : STRING,
                         mac : Nat, nonce : Nat]
    /\ SigLens \subseteq Nat

VARIABLES
    key,  \* the key that was made, or NoKey
    op    \* the operation that began: a mode, Refused, NoOp, or how it ended

vars == <<key, op>>

NoKey   == [alg |-> "none"]
NoOp    == [kind |-> "none"]
Refused == [kind |-> "refused"]   \* by the mode builder, after the checks passed

Init == key = NoKey /\ op = NoOp
-----------------------------------------------------------------------------
(***************************************************************************)
(* Making a key.                                                           *)
(***************************************************************************)
\* check_rsa_key_size.
RsaSizes == IF Level = "strongbox" THEN {2048} ELSE {512, 768, 1024, 2048, 3072, 4096}

AttestsAlone(P, others) == ~("attest" \in P /\ P \cap others # {})

\* check_rsa_params.
RsaPurposes(P) == "agree" \notin P /\ AttestsAlone(P, {"sign", "decrypt", "wrap"})

CurveSize(c) == CASE c = "p224" -> 224 [] c \in {"p256", "25519"} -> 256
                  [] c = "p384" -> 384 [] OTHER -> 521

\* check_ec_params: the purposes.
EcPurposes(c, P) ==
    /\ P \subseteq {"sign", "agree", "attest", "verify", "encrypt", "decrypt"}
    /\ P \cap {"encrypt", "decrypt"} # {} =>
         c = "p256" /\ "sign" \in P /\ P \cap {"attest", "agree"} = {}
    /\ AttestsAlone(P, {"sign", "agree"})
    /\ c = "25519" /\ "agree" \in P => P \cap {"sign", "attest"} = {}

\* check_ec_params: the curve and the size.
EcParams(c, r) ==
    /\ Level = "strongbox" => c = "p256"
    /\ r.size \in {0, CurveSize(c)}
    /\ EcPurposes(c, r.purposes)

\* check_ec_gen_params and check_ec_import_params.  The type of a Curve25519
\* key follows its purpose, or has to agree with it.
EcKey(r) ==
    LET c == IF r.how = "pkcs8" THEN r.data.curve ELSE r.curve
        agrees == "agree" \in r.purposes
        type == CASE c # "25519"       -> "nist"
                  [] r.how = "pkcs8"   -> r.data.type
                  [] agrees            -> "xdh"
                  [] OTHER             -> "eddsa"
    IN  /\ c # "none" /\ EcParams(c, r) /\ r.curve \in {"none", c}
        /\ r.how = "generate" /\ c = "25519" => r.purposes \cap {"sign", "attest", "agree"} # {}
        /\ r.how = "raw" => c = "25519"
        /\ c = "25519" => (type = "xdh" <=> agrees)
        /\ key' = [r EXCEPT !.curve = c, !.size = CurveSize(c), !.type = type]

\* check_mldsa_params; a raw import names the variant.
MlDsaParams(r) ==
    /\ Level # "strongbox"
    /\ r.purposes \subseteq {"sign", "attest", "verify"} /\ AttestsAlone(r.purposes, {"sign"})

\* Mutant of AesParams: short GCM tags are accepted.
MutAesParams(r) == "gcm" \in r.blocks => r.min # 0 /\ r.min % 8 = 0 /\ r.min <= 128

\* check_aes_params.
AesParams(r) == "gcm" \in r.blocks => r.min % 8 = 0 /\ r.min \in 96..128

AesSizes == IF Level = "strongbox" THEN {128, 256} ELSE {128, 192, 256}

\* check_hmac_params; exactly one digest.
HmacParams(r) ==
    /\ r.actual % 8 = 0 /\ r.actual \in 64..(IF Level = "strongbox" THEN 512 ELSE 1024)
    /\ Cardinality(r.digests) = 1 /\ "none" \notin r.digests
    /\ r.min % 8 = 0 /\ r.min \in 64..512

\* The size a generation names, or an import may leave out but not get wrong
\* (require_matching_key_size).
SizeGiven(r) == IF r.how = "generate" THEN r.size = r.actual ELSE r.size \in {0, r.actual}

Symmetric(r) == SizeGiven(r) /\ r.how \in {"generate", "raw"}

\* reject_incompatible_auth.
AuthTags(r) ==
    /\ "noauth" \in r.tags => r.tags \cap {"sid", "authtype"} = {}
    /\ "sid" \in r.tags => "authtype" \in r.tags

\* extract_key_characteristics.
Characteristics(r) ==
    /\ Level = "strongbox" => r.tags \cap {"maxuses", "rollback"} = {}
    /\ AuthTags(r)

\* extract_key_gen_characteristics and extract_key_import_characteristics.
MakeKey(r) ==
    /\ key = NoKey
    /\ Characteristics(r)
    /\ \/ /\ r.alg = "rsa" /\ SizeGiven(r) /\ r.how \in {"generate", "pkcs8"}
          /\ r.actual \in RsaSizes /\ RsaPurposes(r.purposes)
          /\ key' = [r EXCEPT !.size = r.actual]
       \/ r.alg = "ec" /\ EcKey(r)
       \/ r.alg = "mldsa" /\ MlDsaParams(r) /\ key' = r
       \/ /\ r.alg = "aes" /\ Symmetric(r) /\ r.actual \in AesSizes /\ AesParams(r)
          /\ key' = [r EXCEPT !.size = r.actual]
       \/ r.alg = "3des" /\ Symmetric(r) /\ r.actual = 168 /\ key' = [r EXCEPT !.size = 168]
       \/ r.alg = "hmac" /\ Symmetric(r) /\ HmacParams(r) /\ key' = [r EXCEPT !.size = r.actual]
    /\ UNCHANGED op
-----------------------------------------------------------------------------
(***************************************************************************)
(* The checks of begin.                                                    *)
(***************************************************************************)
\* digest_len, in bits; 0 where the code answers INCOMPATIBLE_DIGEST.
DigestLen(d) == CASE d = "md5" -> 128 [] d = "sha1" -> 160 [] d = "sha224" -> 224
                  [] d = "sha256" -> 256 [] d = "sha384" -> 384 [] d = "sha512" -> 512
                  [] OTHER -> 0

\* The pairs that check_begin_params lets through.
Purposes(alg) ==
    CASE alg \in {"aes", "3des"} -> {"encrypt", "decrypt"}
      [] alg = "hmac"            -> {"sign", "verify"}
      [] alg = "ec"              -> {"sign", "attest", "agree"}
      [] alg = "rsa"             -> {"sign", "decrypt", "attest"}
      [] alg = "mldsa"           -> {"sign", "attest"}

\* check_begin_rsa_params.
BeginRsa(k, purpose, p) ==
    LET sign == purpose = "sign"
        crypt == purpose = "decrypt"
    IN  /\ p.padding # "absent"
        /\ sign \/ (crypt /\ p.padding = "oaep") => p.digest # "absent"
        /\ sign /\ p.padding = "none" => p.digest = "none"
        /\ \/ p.padding = "none"
           \/ p.padding = "oaep" /\ crypt /\ p.digest # "none" /\ p.mgf # "none"
           \/ /\ p.padding = "pss" /\ sign /\ DigestLen(p.digest) # 0
              /\ k.size >= 2 * DigestLen(p.digest) + 9
           \/ p.padding = "pkcs1_encrypt" /\ crypt
           \/ p.padding = "pkcs1_sign" /\ sign

\* check_begin_ec_params and check_begin_mldsa_params.
BeginEc(k, purpose, p) ==
    purpose = "sign" => /\ p.digest \notin {"absent", "md5"}
                        /\ k.curve = "25519" => p.digest = "none"
BeginMlDsa(purpose, p) == purpose = "sign" => p.digest = "none"

\* reject_tags and reject_some_digest.
NoDigests(p) == p.mgf = "absent" /\ p.digest \in {"absent", "none"}

\* check_begin_aes_params.
BeginAes(k, p) ==
    /\ NoDigests(p) /\ p.padding # "absent"
    /\ p.block \in {"ecb", "cbc", "ctr", "gcm"}
    /\ p.block = "gcm" => /\ p.mac # 0 /\ p.mac % 8 = 0 /\ p.mac <= 128
                          /\ k.min # 0 /\ p.mac >= k.min
    /\ p.padding \in (IF p.block \in {"gcm", "ctr"} THEN {"none"} ELSE {"none", "pkcs7"})
    /\ p.nonce # 0 => p.nonce = (CASE p.block \in {"cbc", "ctr"} -> 16 [] p.block = "gcm" -> 12
                                   [] OTHER -> 0)

\* check_begin_3des_params: the padding is not looked at.
Begin3Des(p) ==
    /\ NoDigests(p) /\ p.padding # "absent"
    /\ p.block \in {"cbc", "ecb"}
    /\ p.nonce # 0 => p.block = "cbc" /\ p.nonce = 8

\* check_begin_hmac_params.
BeginHmac(k, purpose, p) ==
    /\ p.block = "none" /\ p.mgf = "absent" /\ p.padding \in {"absent", "none"}
    /\ p.digest # "absent"
    /\ purpose = "sign" => /\ p.mac # 0 /\ p.mac % 8 = 0 /\ DigestLen(p.digest) # 0
                           /\ p.mac <= DigestLen(p.digest) /\ k.min # 0 /\ p.mac >= k.min

\* What the key has to allow: BeginParamsToCheck, and the default MGF digest.
InCharacteristics(k, p) ==
    /\ k.alg \in {"aes", "3des"} /\ p.block # "none" => p.block \in k.blocks
    /\ k.alg \in {"rsa", "aes", "3des"} /\ p.padding # "absent" => p.padding \in k.paddings
    /\ k.alg \in {"rsa", "ec", "mldsa", "hmac"} /\ p.digest # "absent" => p.digest \in k.digests
    /\ k.alg = "rsa" => LET mgf == IF p.mgf = "absent" /\ k.mgfs # {} THEN "sha1" ELSE p.mgf
                        IN  mgf # "absent" => mgf \in k.mgfs

\* check_begin_params.
CheckBeginParams(k, purpose, p) ==
    /\ purpose \in Purposes(k.alg) /\ purpose \in k.purposes
    /\ "storage" \notin k.tags
    /\ p.nonce # 0 /\ purpose = "encrypt" => "callernonce" \in k.tags
    /\ CASE k.alg = "rsa"   -> BeginRsa(k, purpose, p)
         [] k.alg = "ec"    -> BeginEc(k, purpose, p)
         [] k.alg = "mldsa" -> BeginMlDsa(purpose, p)
         [] k.alg = "aes"   -> BeginAes(k, p)
         [] k.alg = "3des"  -> Begin3Des(p)
         [] k.alg = "hmac"  -> BeginHmac(k, purpose, p)
    /\ InCharacteristics(k, p)
-----------------------------------------------------------------------------
(***************************************************************************)
(* The modes.                                                              *)
(***************************************************************************)
Mgf(p) == IF p.mgf = "absent" THEN "sha1" ELSE p.mgf

\* rsa_decryption_mode and rsa_sign_mode.
RsaMode(purpose, p) ==
    CASE purpose = "decrypt" /\ p.padding \in {"none", "pkcs1_encrypt"} ->
           [kind |-> "rsa", padding |-> p.padding]
      [] purpose = "decrypt" /\ p.padding = "oaep" ->
           [kind |-> "rsa", padding |-> "oaep", digest |-> p.digest, mgf |-> Mgf(p)]
      [] purpose = "sign" /\ p.padding = "none" -> [kind |-> "rsa", padding |-> "none"]
      [] purpose = "sign" /\ p.padding \in {"pss", "pkcs1_sign"} ->
           [kind |-> "rsa", padding |-> p.padding, digest |-> p.digest]
      [] OTHER -> Refused

\* aes_mode and des_mode, with the nonce of the caller or a random one.
BlockMode(size, p) ==
    IF /\ p.block = "ecb" => p.nonce = 0
       /\ p.padding \in (IF p.block \in {"gcm", "ctr"} THEN {"none"} ELSE {"none", "pkcs7"})
       /\ p.nonce \in {0, IF p.block = "gcm" THEN 12 ELSE size}
       /\ p.block = "gcm" => p.mac % 8 = 0 /\ p.mac \div 8 \in 12..16
    THEN [kind |-> "block", block |-> p.block, padding |-> p.padding,
          mac |-> IF p.block = "gcm" THEN p.mac ELSE 0]
    ELSE Refused

\* Mutant of TagLengths: the digest in bytes, and still an exclusive bound.
MutTagLengths(k, digest) == [from |-> k.min \div 8, to |-> DigestLen(digest) \div 8]

\* The range from..to of tag lengths that a verification accepts, in bytes and
\* without its end.  The end is the length of the digest in bits.
TagLengths(k, digest) == [from |-> k.min \div 8, to |-> DigestLen(digest)]

\* The operation of begin_operation for each key material.
Mode(k, purpose, p) ==
    CASE k.alg = "aes"  -> BlockMode(16, p)
      [] k.alg = "3des" -> BlockMode(8, p)
      [] k.alg = "hmac" /\ purpose = "sign" ->
           [kind |-> "hmac", digest |-> p.digest, tag |-> p.mac \div 8]
      [] k.alg = "hmac" /\ purpose = "verify" /\ DigestLen(p.digest) # 0 ->
           [kind |-> "verify", digest |-> p.digest, lengths |-> TagLengths(k, p.digest)]
      [] k.alg = "rsa" /\ purpose # "attest" -> RsaMode(purpose, p)
      [] k.alg = "ec" /\ purpose # "attest" ->
           [kind |-> "ec", purpose |-> purpose, digest |-> p.digest, type |-> k.type]
      [] k.alg = "mldsa" /\ purpose = "sign" -> [kind |-> "mldsa"]
      [] OTHER -> Refused

Begin(purpose, p) ==
    /\ key # NoKey /\ op = NoOp
    /\ CheckBeginParams(key, purpose, p)
    /\ op' = Mode(key, purpose, p)
    /\ UNCHANGED key

\* finish of an HMAC verification: the length is looked up in the range, then
\* as much of the computed tag as the signature is long is compared with it.
FinishVerify(len) ==
    /\ op.kind = "verify"
    /\ op' = [kind |-> CASE len \notin op.lengths.from..(op.lengths.to - 1) -> "badlength"
                         [] 8 * len > DigestLen(op.digest) -> "outofrange"
                         [] OTHER -> "compared",
              digest |-> op.digest, len |-> len]
    /\ UNCHANGED key

Next ==
    \/ key = NoKey /\ \E r \in Requests : MakeKey(r)
    \/ key # NoKey /\ op = NoOp
       /\ \E purpose \in {"sign", "verify", "encrypt", "decrypt", "agree", "attest"}, p \in Params :
            Begin(purpose, p)
    \/ op.kind = "verify" /\ \E len \in SigLens : FinishVerify(len)

Spec == Init /\ [][Next]_vars
-----------------------------------------------------------------------------
(***************************************************************************)
(* Properties.                                                             *)
(***************************************************************************)
\* What the checks of begin accept on a key that could be made, the mode
\* builders accept too: a use is not counted for a begin that cannot work.
\* Two exceptions, both refused without harm: begin with an attestation key,
\* and the padding of 3DES, which only the builder looks at.
AcceptedBuilds ==
    op = Refused =>
      \/ "attest" \in key.purposes
      \/ key.alg = "3des" /\ ~(key.paddings \subseteq {"none", "pkcs7"})

\* A Curve25519 key is never used with the wrong half of its type: EdDSA
\* keys sign, XDH keys agree, however the key was made.
CurveFitsPurpose ==
    op.kind = "ec" /\ key.curve = "25519" => (op.type = "xdh" <=> op.purpose = "agree")

\* No tag that the key can make is too short or too long for its own
\* verification: the longest one, as long as the digest, is inside the range
\* although the range excludes its end.
TagsVerify ==
    op.kind = "badlength" =>
      \A p \in Params : CheckBeginParams(key, "sign", p) /\ p.digest = op.digest =>
          p.mac \div 8 # op.len

\* An operation that began can do its work: it can be built, it uses the half
\* of the key that its purpose needs, and what one operation of the key signs
\* another does not refuse for its length.  (That a verification refuses what
\* is longer than the digest is VerifyInRange, which the code does not keep.)
BeginSound == AcceptedBuilds /\ CurveFitsPurpose /\ TagsVerify

\* "Remember the acceptable tag lengths.": a signature of a length that begin
\* made acceptable can be compared with the tag that finish computes.
VerifyInRange == op.kind # "outofrange"
=============================================================================

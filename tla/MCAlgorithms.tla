---------------------------- MODULE MCAlgorithms ----------------------------
(***************************************************************************)
(* A small instance of Algorithms: lists of up to three operations of two  *)
(* owners, and the key requests and begin parameters below.                *)
(***************************************************************************)
EXTENDS Algorithms

\* The ages around each step of the malus.
MCTimes == {0, 5, 6, 35, 36, 40, 41}

NoRequest ==
    [alg |-> "none", how |-> "generate", purposes |-> {}, blocks |-> {}, paddings |-> {},
     digests |-> {}, mgfs |-> {}, min |-> 0, size |-> 0, actual |-> 0, curve |-> "none",
     type |-> "none", data |-> [curve |-> "none", type |-> "none"], tags |-> {}]

RsaRequests ==
    {[NoRequest EXCEPT !.alg = "rsa", !.how = how, !.purposes = purposes, !.paddings = paddings,
                       !.digests = {"none", "sha256"}, !.mgfs = mgfs, !.size = size, !.actual = 2048] :
       how \in {"generate", "pkcs8", "raw"}, purposes \in SUBSET {"sign", "decrypt", "attest", "wrap"},
       paddings \in {{"none"}, {"oaep", "pss"}, {"pkcs1_sign", "pkcs1_encrypt"}},
       mgfs \in {{}, {"sha1"}, {"sha256"}}, size \in {0, 1024, 2048}}

EcRequests ==
    {[NoRequest EXCEPT !.alg = "ec", !.how = how, !.purposes = purposes, !.digests = digests, !.size = size,
                       !.curve = curve, !.data = [curve |-> actual, type |-> type]] :
       how \in {"generate", "pkcs8", "raw"},
       purposes \in SUBSET {"sign", "verify", "agree", "attest", "encrypt"},
       digests \in {{"none"}, {"none", "sha256"}}, size \in {0, 256}, curve \in {"none", "p256", "25519"},
       actual \in {"p256", "25519"}, type \in {"nist", "eddsa", "xdh"}}

MldsaRequests ==
    {[NoRequest EXCEPT !.alg = "mldsa", !.how = how, !.purposes = purposes, !.digests = {"none"}] :
       how \in {"generate", "raw"}, purposes \in SUBSET {"sign", "verify", "attest", "agree"}}

BlockRequests ==
    {[NoRequest EXCEPT !.alg = alg, !.how = how, !.purposes = {"encrypt", "decrypt"}, !.blocks = blocks,
                       !.paddings = paddings, !.min = min, !.size = size, !.actual = size, !.tags = tags] :
       alg \in {"aes", "3des"}, how \in {"generate", "raw"}, blocks \in SUBSET {"ecb", "cbc", "ctr", "gcm"},
       paddings \in {{"none"}, {"none", "pkcs7"}, {"oaep"}}, min \in {0, 64, 96, 128},
       size \in {128, 168, 192}, tags \in {{}, {"callernonce"}, {"storage"}}}

HmacRequests ==
    {[NoRequest EXCEPT !.alg = "hmac", !.how = how, !.purposes = purposes, !.digests = digests,
                       !.min = min, !.size = size, !.actual = 128, !.tags = tags] :
       how \in {"generate", "raw"}, purposes \in SUBSET {"sign", "verify"},
       digests \in {{"none"}, {"sha1"}, {"sha224"}, {"sha256"}, {"sha512"}}, min \in {0, 64, 256}, size \in {0, 128},
       tags \in SUBSET {"sid", "authtype", "noauth", "rollback"}}

NoParams == [block |-> "none", padding |-> "absent", digest |-> "absent", mgf |-> "absent",
             mac |-> 0, nonce |-> 0]

BeginParams ==
    {[NoParams EXCEPT !.block = block, !.padding = padding, !.digest = digest, !.mac = mac, !.nonce = nonce] :
       block \in {"none", "ecb", "cbc", "ctr", "gcm"}, padding \in {"absent", "none", "pkcs7", "oaep"},
       digest \in {"absent", "sha256"}, mac \in {0, 64, 96, 100, 128, 160}, nonce \in {0, 8, 12, 16}}
    \cup
    {[NoParams EXCEPT !.padding = padding, !.digest = digest, !.mgf = mgf] :
       padding \in {"absent", "none", "oaep", "pss", "pkcs1_sign", "pkcs1_encrypt"},
       digest \in {"absent", "none", "md5", "sha1", "sha256", "sha512"},
       mgf \in {"absent", "none", "sha1", "sha256"}}
    \cup
    {[NoParams EXCEPT !.digest = digest, !.mac = mac] :
       digest \in {"none", "sha1", "sha224", "sha256", "sha512"}, mac \in {0, 64, 160, 224, 256, 264, 512}}

\* Around the shortest tag and the lengths of the digests.
Lengths == {7, 8, 20, 21, 28, 32, 33, 64, 65}

KeyRequests == RsaRequests \cup EcRequests \cup MldsaRequests \cup BlockRequests \cup HmacRequests

\* What the proofs assume of the constants.
ASSUME AlgorithmsAssumption == PruningAssumption /\ Rules!ParametersAssumption
=============================================================================

------------------------------- MODULE KeyRing -------------------------------
(***************************************************************************)
(* The certificate and key an environment signs with (config/keyring.py,   *)
(* config/settings.py, crypto/keys.py) as functions of what is configured  *)
(* and what the files hold.  SigningMaterial.load is what filing uses,     *)
(* verify is what the administrator is shown and startup logs.             *)
(*                                                                         *)
(* Abstraction.  A key pair is a number; a certificate or key file is how  *)
(* it is written, the algorithm, the pair it belongs to, and its dates or  *)
(* its passphrase, "none" that of an unlocked key or none configured.      *)
(***************************************************************************)
EXTENDS Integers

CONSTANTS NoPath, NoFile   \* a path that is not set; a path with no file behind it

\* What a configured path leads to: a directory or a file without permission
\* is unreadable; bare base64 is what the Iranian CA ships.
Forms == {"pem", "der", "base64", "junk", "unreadable"}
Algorithms == {"rsa", "ec", "ed25519"}

Certificate(form, alg, pair, from, to) == [form |-> form, alg |-> alg, pair |-> pair, from |-> from, to |-> to]
PrivateKey(form, alg, pair, lock) == [form |-> form, alg |-> alg, pair |-> pair, lock |-> lock]

\* signing_material: each half from the environment's own path, else the shared.
SigningMaterial(shared, own) ==
  [cert |-> IF own.cert = NoPath THEN shared.cert ELSE own.cert,
   key  |-> IF own.key  = NoPath THEN shared.key  ELSE own.key]

\* require: "ok" or what is missing.
Require(m) == CASE m.cert = NoPath -> "no certificate configured"
                [] m.cert # NoPath /\ m.key = NoPath -> "no private key configured"
                [] m.cert # NoPath /\ m.key # NoPath /\ NoFile \in {m.cert, m.key} -> "not present"
                [] OTHER -> "ok"

\* load_certificate: PEM, DER, or base64 once armoured; of any algorithm.
CertificateLoads(cert) == cert.form \in {"pem", "der", "base64"}

\* _load_private_key: PEM only, opened by exactly the passphrase it needs (one
\* given for an unlocked key is an error too), and RSA.
PrivateKeyLoads(key, phrase) == key.form = "pem" /\ key.lock = phrase /\ key.alg = "rsa"

InForce(cert, now) == cert.from <= now /\ now <= cert.to

\* _keys_match, and the same comparison in assert_usable.
KeysMatch(cert, key) == cert.alg = "rsa" /\ cert.pair = key.pair

\* load: what filing does with it.
Load(m, phrase, now) ==
  CASE Require(m) # "ok" -> "ConfigurationError"
    [] Require(m) = "ok" /\ ~ (CertificateLoads(m.cert) /\ PrivateKeyLoads(m.key, phrase)) -> "CertificateError"
    [] OTHER -> IF InForce(m.cert, now) /\ m.cert.alg = "rsa" /\ m.cert.pair = m.key.pair
                THEN "usable" ELSE "CertificateError"

\* A call returns a report, or it is left by an exception and tells nothing.
Report(ok, matches, shown, message) ==
  [returns |-> TRUE, ok |-> ok, matches |-> matches, shown |-> shown, message |-> message]
Raises(exception) == [returns |-> FALSE, exception |-> exception]

\* _certificate_summary asks the public key for its size; an Ed25519 one has none.
SummaryRaises(cert) == cert.alg = "ed25519"

\* A faulty version for a mutant: the dates are left to whoever files.
VerifyPair(m, now) ==
  IF KeysMatch(m.cert, m.key) THEN Report(TRUE, "yes", TRUE, "usable") ELSE Report(FALSE, "no", TRUE, "not a pair")

\* verify, once both files are read: the match before the dates.
VerifyBoth(m, now) ==
  CASE ~ KeysMatch(m.cert, m.key) -> Report(FALSE, "no", TRUE, "not a pair")
    [] KeysMatch(m.cert, m.key) /\ now < m.cert.from -> Report(FALSE, "yes", TRUE, "not yet valid")
    [] KeysMatch(m.cert, m.key) /\ now > m.cert.to -> Report(FALSE, "yes", TRUE, "expired")
    [] OTHER -> Report(TRUE, "yes", TRUE, "usable")

\* The certificate on its own first: it is shown though the key is locked.  Its
\* summary is asked for outside every try.
Verify(m, phrase, now) ==
  CASE Require(m) # "ok" -> Report(FALSE, "unknown", FALSE, Require(m))
    [] Require(m) = "ok" /\ ~ CertificateLoads(m.cert) -> Report(FALSE, "unknown", FALSE, "certificate unreadable")
    [] Require(m) = "ok" /\ CertificateLoads(m.cert) ->
         IF SummaryRaises(m.cert) THEN Raises("AttributeError")
         ELSE IF ~ PrivateKeyLoads(m.key, phrase) THEN Report(FALSE, "unknown", TRUE, "key unreadable")
         ELSE VerifyBoth(m, now)

-----------------------------------------------------------------------------
(* A configuration at a time: two pairs, one certificate date range, one    *)
(* passphrase, files of its own or the shared ones.                        *)

Certificates == {Certificate(f, a, 1, 2, 3) : f \in Forms, a \in Algorithms} \cup {NoFile}
PrivateKeys  == {PrivateKey(f, a, p, l) : f \in Forms, a \in Algorithms, p \in {1, 2}, l \in {"none", "s"}} \cup {NoFile}
Paths  == [cert : Certificates \cup {NoPath}, key : PrivateKeys \cup {NoPath}]
Shared == {[cert |-> NoPath, key |-> NoPath],
           [cert |-> Certificate("pem", "rsa", 1, 2, 3), key |-> PrivateKey("pem", "rsa", 1, "none")]}

VARIABLES
  shown,   \* how verify ended, and whether both halves were readable
  filing   \* what filing with the same files meets

keyVars == <<shown, filing>>

KeyInit == shown = NoPath /\ filing = NoPath

Inspect ==
  /\ shown = NoPath
  /\ \E shared \in Shared, own \in Paths, phrase \in {"none", "s"}, now \in 1 .. 4 :
       LET m == SigningMaterial(shared, own)
       IN /\ shown' = [report |-> Verify(m, phrase, now),
                       readable |-> /\ Require(m) = "ok"
                                    /\ CertificateLoads(m.cert) /\ PrivateKeyLoads(m.key, phrase)]
          /\ filing' = Load(m, phrase, now)

\* For every pair of files, own or shared, every passphrase and day: what the
\* administrator is told is what filing will meet.  A pair reported as good can
\* file, one that can file is reported as good, a mismatch is only reported of two
\* readable files that are no pair, and where verify raises and tells nothing,
\* filing is refused too.  A mismatch signs cleanly and is refused after the serial
\* is spent.
VerifyAgreesWithLoad ==
  shown # NoPath =>
    IF shown.report.returns
    THEN /\ shown.report.ok <=> filing = "usable"
         /\ shown.report.matches = "no" => shown.readable /\ filing = "CertificateError"
    ELSE filing = "CertificateError"

=============================================================================

------------------------- MODULE KeylimeConfigNames -------------------------
(***************************************************************************)
(* The names and constants of the configuration (src/src/common.rs): the  *)
(* Text abstraction of strings, the constants build() falls back to, the  *)
(* sections, keys and environment variables it reads.  They depend on no  *)
(* CONSTANT of KeylimeConfig, so the TLC models can write their values    *)
(* with them directly.                                                    *)
(***************************************************************************)
EXTENDS Naturals, Sequences, TLC

Txt(w) == [w |-> w, up |-> FALSE]      \* a text written in lower case
UpTxt(w) == [w |-> w, up |-> TRUE]     \* the same word in upper case
Empty == Txt("")
Texts == [w : STRING, up : BOOLEAN]

\* Constants of common.rs.
DEFAULT_CONFIG == "/etc/keylime.conf"
DEFAULT_CA_PATH == "cv_ca/cacert.crt"
WORK_DIR == "/var/lib/keylime"
TPM_DATA == "tpmdata.json"
REV_ACTIONS == ""
REV_ACTIONS_DIR == "/usr/libexec/keylime"
ALLOW_PAYLOAD_REV_ACTIONS == TRUE
MTLS_ENABLED == TRUE
ALLOW_INSECURE_PAYLOAD == FALSE

Sections == {"cloud_agent", "general"}
EnvVars == {"KEYLIME_CONFIG", "CLOUDAGENT_IP", "CLOUDAGENT_PORT",
            "REGISTRAR_IP", "REGISTRAR_PORT", "KEYLIME_AGENT_CONTACT_IP",
            "KEYLIME_AGENT_CONTACT_PORT", "KEYLIME_DIR", "REVOCATION_IP",
            "REVOCATION_PORT"}
GeneralKeys == {"receive_revocation_ip", "receive_revocation_port"}
Keys == GeneralKeys \cup
        {"cloudagent_ip", "cloudagent_port", "registrar_ip", "registrar_port",
         "agent_uuid", "agent_contact_ip", "agent_contact_port",
         "tpm_hash_alg", "tpm_encryption_alg", "tpm_signing_alg",
         "listen_notifications", "listen_notfications", "revocation_cert",
         "secure_size", "payload_script", "dec_payload_file", "enc_keyname",
         "extract_payload_zip", "keylime_dir", "keylime_ca",
         "revocation_actions", "revocation_actions_dir",
         "allow_payload_revocation_actions", "run_as", "mtls_cert_enabled",
         "enable_insecure_payload"}

\* The algorithm names HashAlgorithm/EncryptionAlgorithm/SignAlgorithm
\* ::try_from accept (algorithms.rs, outside src/): case-sensitive.
HashAlgs == {"sha1", "sha256", "sha384", "sha512", "sm3_256"}
EncAlgs == {"rsa", "ecc"}
SignAlgs == {"rsassa", "rsapss", "ecdsa", "ecdaa", "ecschnorr"}

\* Decimal texts and the number they denote; any other word does not parse.
Numerals == ("0" :> 0) @@ ("9002" :> 9002) @@ ("70000" :> 70000)

\* The simple (undashed) form of a UUID; the canonical form is the id itself.
Simple(id) == id \o "-simple"

=============================================================================

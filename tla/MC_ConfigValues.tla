--------------------------- MODULE MC_ConfigValues ---------------------------
(***************************************************************************)
(* Values shared by the TLC models of the configuration: a good value for *)
(* each key and the identity records the working directories hold.       *)
(***************************************************************************)
EXTENDS KeylimeConfigNames

\* A good value for every key; the legacy key is left out (absent).
GoodFileWith(absent) ==
    [k \in Keys |->
       CASE k = "agent_uuid"    -> Txt("u1")
         [] k = "tpm_hash_alg"  -> Txt("sha256")
         [] k = "tpm_encryption_alg" -> Txt("rsa")
         [] k = "tpm_signing_alg" -> Txt("rsassa")
         [] k = "agent_contact_port" -> Txt("9002")
         [] k \in {"listen_notifications", "extract_payload_zip",
                   "allow_payload_revocation_actions", "mtls_cert_enabled"}
                                -> Txt("true")
         [] k = "enable_insecure_payload" -> Txt("false")
         [] k = "keylime_ca"    -> Txt("default")
         [] k = "keylime_dir"   -> Txt("/srv/keylime")
         [] k = "listen_notfications" -> absent
         [] OTHER               -> Txt("file")]

\* What <d>/tpmdata.json holds in the models' directories.
MCTpmFiles == (WORK_DIR :> "record") @@ ("/srv/keylime" :> "corrupt")
                                    @@ ("/opt/agent" :> "record")

=============================================================================

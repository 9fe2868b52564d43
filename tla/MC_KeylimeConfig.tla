------------------------- MODULE MC_KeylimeConfig --------------------------
(***************************************************************************)
(* Instances of KeylimeConfig for TLC.  Each run lets the operator vary a  *)
(* few settings over the values that exercise their branches in build(),  *)
(* and keeps every other setting at one good value.                       *)
(***************************************************************************)
EXTENDS KeylimeConfig, MC_ConfigValues

ALT_CONFIG == "/tmp/testing.conf"

GoodFile == GoodFileWith(Absent)
OneGood == [k \in Keys |-> {GoodFile[k]}]
NoEnv == [v \in EnvVars |-> {Unset}]

MCUuidIds == {"u1", "u2"}
(* Run "precedence": environment against file, sections and file location. *)

PrecEnvDomain ==
    [v \in EnvVars |->
       CASE v = "KEYLIME_CONFIG" -> {Unset, Empty, Txt(ALT_CONFIG)}
         [] v = "KEYLIME_DIR"    -> {Unset, Empty, Txt("/opt/agent")}
         [] v \in {"CLOUDAGENT_IP", "REGISTRAR_PORT",
                   "KEYLIME_AGENT_CONTACT_IP"} -> {Unset, Empty, Txt("env")}
         [] OTHER                -> {Unset}]
PrecFileDomain ==
    [OneGood EXCEPT
       !["cloudagent_ip"] = {Txt("file"), Absent},
       !["registrar_port"] = {Txt("file"), Absent},
       !["agent_contact_ip"] = {Absent, Txt("file")},
       !["keylime_dir"] = {Txt("/srv/keylime"), Absent, Empty},
       !["keylime_ca"] = {Txt("default"), Txt("/etc/ca.crt")}]
PrecSectionSets == {Sections, {"cloud_agent"}}
PrecConfSets == {{DEFAULT_CONFIG}, {ALT_CONFIG}}

(* Run "values": the text each setting is parsed from. *)

ValEnvDomain == NoEnv
ValFileDomain ==
    [OneGood EXCEPT
       !["agent_uuid"] = {Txt("u1"), UpTxt("u2"), Txt("u2-simple"),
                          Txt("openstack"), UpTxt("openstack"),
                          Txt("hash_ek"), Txt("generate"), Txt("junk")},
       !["listen_notifications"] = {Txt("true"), UpTxt("false"), Absent},
       !["listen_notfications"] = {Absent, Txt("false"), Txt("yes")},
       !["allow_payload_revocation_actions"] = {Absent, UpTxt("false"),
                                                Txt("yes")},
       !["mtls_cert_enabled"] = {Txt("true"), Absent},
       !["run_as"] = {Txt("keylime:tss"), Absent},
       !["tpm_hash_alg"] = {Txt("sha256"), UpTxt("sha256")},
       !["agent_contact_port"] = {Txt("9002"), Absent, Txt("x")}]
ValSectionSets == {Sections}
ValConfSets == {{DEFAULT_CONFIG}}

(* Runs that check the code against what the spec and its own messages say. *)

BoolFileDomain ==
    [OneGood EXCEPT
       !["allow_payload_revocation_actions"] = {Txt("true"), Txt("yes")},
       !["mtls_cert_enabled"] = {Txt("true"), Txt("no")},
       !["enable_insecure_payload"] = {Txt("false"), Txt("1")}]
RunAsFileDomain ==
    [OneGood EXCEPT !["run_as"] = {Txt("keylime:tss"), Absent, Empty}]
RevEnvDomain ==
    [NoEnv EXCEPT !["REVOCATION_IP"] = {Unset, Txt("env")},
                  !["REVOCATION_PORT"] = {Unset, Txt("env")}]
PortFileDomain ==
    [OneGood EXCEPT !["agent_contact_port"] = {Txt("9002"), Absent, Txt("x"),
                                               Txt("0"), Txt("70000")}]

=============================================================================

------------------------ MODULE MC_ConfigBuildSteps ------------------------
(***************************************************************************)
(* ConfigBuildSteps for TLC.  The file may move the working directory, be  *)
(* given another CA path, lose a required key or its cloud_agent section, *)
(* or disappear, and the effective uid and KEYLIME_DIR vary; the other    *)
(* keys keep one good value, which lets a build run to the end.          *)
(***************************************************************************)
EXTENDS ConfigBuildSteps, MC_ConfigValues

\* The values below are written with KeylimeConfigNames, not through the
\* instance Atomic: a constant's value that goes through an instance which
\* substitutes that constant sends TLC's coverage analysis round in a loop.

MCUuidIds == {"u1", "u2"}
StepEnvDomain ==
    [v \in EnvVars |-> IF v = "KEYLIME_DIR" THEN {Unset, Txt("/opt/agent")}
                                           ELSE {Unset}]
StepFileDomain ==
    [k \in Keys |->
       CASE k = "keylime_dir"  -> {Txt("/srv/keylime"), Absent}
         [] k = "keylime_ca"   -> {Txt("default"), Txt("/etc/ca.crt")}
         [] k = "registrar_ip" -> {Txt("file"), Absent}
         [] OTHER              -> {GoodFileWith(Absent)[k]}]
StepSectionSets == {Sections, {"general"}}
StepConfSets == {{DEFAULT_CONFIG}, {}}

\* The file always present and whole: only values change under a build.
WholeSectionSets == {Sections}
WholeConfSets == {{DEFAULT_CONFIG}}

=============================================================================

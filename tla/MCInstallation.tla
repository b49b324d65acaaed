--------------------------- MODULE MCInstallation ---------------------------
\* Small instances of Installation.
EXTENDS Installation

Tag(minor, patch, revision, four) ==
  [major |-> 2, minor |-> minor, patch |-> patch, revision |-> revision, four |-> four]

\* 2.1.62 is a refresh of 2.1.6, so 2.1.7 comes after it, and then 2.1.7.1.
MCReleases == <<Tag(1, 62, 0, FALSE), Tag(1, 7, 0, FALSE), Tag(1, 7, 1, TRUE)>>

Host(manager, place, track, token, config, remote, state) ==
  [manager |-> manager, place |-> place, track |-> track, token |-> token,
   config |-> config, remote |-> remote, state |-> state]

MCHosts ==
  {Host("systemd", "default", "stable", "saved", "arg", "unset", "none"),
   Host("systemd", "default", "stable", "saved", "arg", "unset", "off"),
   Host("procd", "default", "snapshot", "given", "none", "unset", "none"),
   Host("openrc", "default", "stable", "saved", "none", "unset", "off"),
   Host("upstart", "default", "stable", "given", "arg", "nossh", "none"),
   Host("systemd", "custom", "stable", "given", "none", "on", "none"),
   Host("systemd", "container", "snapshot", "given", "none", "off", "none")}

\* The configuration is named by the environment of the service.
MCEnvHosts == {Host("systemd", "default", "stable", "given", "env", "unset", "none")}
=============================================================================

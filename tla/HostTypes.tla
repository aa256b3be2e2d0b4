------------------------------ MODULE HostTypes ------------------------------
(***************************************************************************)
(* The virtual machines Nebu reports and the daemon each one is to run.    *)
(* The role of a machine is read off its hostname: the configured prefixes *)
(* are tried in a fixed order and the first that matches decides.          *)
(* A hostname and a prefix are sequences of name parts.                    *)
(***************************************************************************)
EXTENDS Sequences, FiniteSets, SequencesExt

CONSTANTS
  VM,            \* the virtual machines
  Hostname,      \* [VM -> Seq(parts)], VirtualMachine::getHostname()
  ConfigPrefix,  \* mongo.config.hostprefix
  RouterPrefix,  \* mongo.router.hostprefix
  DataPrefix     \* mongo.data.hostprefix

ASSUME VMAssumption == IsFiniteSet(VM)

\* DaemonManager's getTypeFromHostname: hostname.find(prefix) == 0.
getTypeFromHostname(hostname) ==
  IF IsPrefix(ConfigPrefix, hostname) THEN "CONFIG_SERVER"
  ELSE IF IsPrefix(RouterPrefix, hostname) THEN "QUERY_ROUTER"
  ELSE IF IsPrefix(DataPrefix, hostname) THEN "DATA_SERVER"
  ELSE "UNKNOWN"

OfType(type) == {vm \in VM : getTypeFromHostname(Hostname[vm]) = type}

ConfigServers == OfType("CONFIG_SERVER")
QueryRouters  == OfType("QUERY_ROUTER")
DataServers   == OfType("DATA_SERVER")
==============================================================================

---------------------------- MODULE OriginAdmission ----------------------------
(***************************************************************************)
(* open_validated_origin: how the daemon decides, at startup, that a block *)
(* device is the origin it was given.                                      *)
(*                                                                          *)
(* The sealed guest manifest names the partition, its parent disk and the  *)
(* hash of the host's manifest; the host's manifest carries the policy.    *)
(* Both are read while other programs may replace or rewrite them.  The    *)
(* device is opened by name and probed while udev may rename devices, a    *)
(* partition table may be rewritten and swap may be switched on and off.   *)
(***************************************************************************)
EXTENDS Naturals, Sequences

CONSTANTS
  Versions,    \* the sealed configurations: each has its own identity and policy
  Partitions,  \* the block devices that may carry the origin's name
  Parent,      \* of each partition, the disk it is on
  Home,        \* of each version, the partition whose numbers it was sealed with
  RootDevices, \* the root filesystem's device and its disk
  MaxChanges   \* bound: how often other programs change something

ASSUME OriginAdmissionAssumption ==
  /\ DOMAIN Parent = Partitions /\ Home \in [Versions -> Partitions]
  /\ MaxChanges \in Nat

VARIABLES
  guestFile, \* /etc/ramshared/origin.conf: its inode and the version of each field
  hostFile,  \* ramshared-origin-manifest.json, the same
  link,      \* the partition that carries each version's by-partuuid name
  table,     \* the identity (PARTUUID, PTUUID, swap UUID) found on each partition
  oaSwaps,     \* the partitions that are active swap
  changes,   \* how many changes other programs have made
  at,        \* where the daemon stands
  inode,     \* the inode of the manifest being read
  guest,     \* the fields of the guest manifest as read, in order
  host,      \* the fields of the host manifest as read
  opened,    \* the partition opened: {} or one
  before,    \* the critical devices of the first snapshot
  probed     \* the identities the probes of the opened partition returned

world == <<guestFile, hostFile, link, table, oaSwaps, changes>>
oaVars == <<world, at, inode, guest, host, opened, before, probed>>

GuestFields == <<"hash", "identity", "policy", "device">>
HostFields == <<"identity", "policy">>
Whole(fields, v) == [i \in DOMAIN fields |-> v]

OaInit ==
  \E v \in Versions :
    /\ guestFile = [inode |-> 0, body |-> Whole(GuestFields, v)]
    /\ hostFile = [inode |-> 0, body |-> Whole(HostFields, v)]
    /\ link = Home /\ table \in [Partitions -> Versions] /\ oaSwaps = {} /\ changes = 0
    /\ at = "guest" /\ inode = 0 /\ guest = <<>> /\ host = <<>>
    /\ opened = {} /\ before = {} /\ probed = <<>>

\* Resolved through sysfs from the device's number, not from its name.
ParentDevice(p) == Parent[p]

(***************************************************************************)
(* collect_critical_device_numbers: the root device and every active swap, *)
(* each with its parent disk.                                              *)
(***************************************************************************)
Critical == RootDevices \cup oaSwaps \cup {ParentDevice(p) : p \in oaSwaps}

(***************************************************************************)
(* Other programs.  A manifest is replaced by a new file, or a field of it *)
(* is rewritten in place without a change of size.                         *)
(***************************************************************************)
Changes == changes < MaxChanges /\ changes' = changes + 1
DaemonIdle == UNCHANGED <<at, inode, guest, host, opened, before, probed>>

GuestChanges ==
  /\ Changes /\ DaemonIdle
  /\ \/ \E v \in Versions :
          guestFile' = [inode |-> guestFile.inode + 1, body |-> Whole(GuestFields, v)]
     \/ \E i \in DOMAIN GuestFields, v \in Versions : guestFile' = [guestFile EXCEPT !.body[i] = v]
  /\ UNCHANGED <<hostFile, link, table, oaSwaps>>

HostChanges ==
  /\ Changes /\ DaemonIdle
  /\ \/ \E v \in Versions :
          hostFile' = [inode |-> hostFile.inode + 1, body |-> Whole(HostFields, v)]
     \/ \E i \in DOMAIN HostFields, v \in Versions : hostFile' = [hostFile EXCEPT !.body[i] = v]
  /\ UNCHANGED <<guestFile, link, table, oaSwaps>>

DeviceChanges ==
  /\ Changes /\ DaemonIdle
  /\ \/ \E v \in Versions, p \in Partitions :
          link' = [link EXCEPT ![v] = p] /\ UNCHANGED <<table, oaSwaps>>
     \/ \E p \in Partitions, v \in Versions :
          table' = [table EXCEPT ![p] = v] /\ UNCHANGED <<link, oaSwaps>>
     \/ \E p \in Partitions :
          /\ oaSwaps' = IF p \in oaSwaps THEN oaSwaps \ {p} ELSE oaSwaps \cup {p}
          /\ UNCHANGED <<link, table>>
  /\ UNCHANGED <<guestFile, hostFile>>

(***************************************************************************)
(* read_bounded_manifest_file: open, compare the opened file with the name,*)
(* read, compare again.                                                    *)
(***************************************************************************)
Refuse == at' = "refused" /\ UNCHANGED <<world, inode, guest, host, opened, before, probed>>

OpenGuest ==
  /\ at = "guest" /\ at' = "readGuest" /\ inode' = guestFile.inode
  /\ UNCHANGED <<world, guest, host, opened, before, probed>>

ReadGuest ==
  /\ at = "readGuest" /\ Len(guest) < Len(GuestFields)
  /\ guest' = Append(guest, guestFile.body[Len(guest) + 1])
  /\ UNCHANGED <<world, at, inode, host, opened, before, probed>>

GuestRead ==
  /\ at = "readGuest" /\ Len(guest) = Len(GuestFields)
  /\ IF guestFile.inode = inode
     THEN at' = "host" /\ UNCHANGED <<world, inode, guest, host, opened, before, probed>>
     ELSE Refuse

OpenHost ==
  /\ at = "host" /\ at' = "readHost" /\ inode' = hostFile.inode
  /\ UNCHANGED <<world, guest, host, opened, before, probed>>

ReadHost ==
  /\ at = "readHost" /\ Len(host) < Len(HostFields)
  /\ host' = Append(host, hostFile.body[Len(host) + 1])
  /\ UNCHANGED <<world, at, inode, guest, opened, before, probed>>

\* validate_host_origin_manifest_bytes: the sealed hash is the hash of exactly
\* these bytes, and identity and policy agree field by field.
HostAgrees ==
  /\ host = Whole(HostFields, guest[1])
  /\ guest[2] = host[1] /\ guest[3] = host[2]

HostRead ==
  /\ at = "readHost" /\ Len(host) = Len(HostFields)
  /\ IF hostFile.inode = inode /\ HostAgrees
     THEN at' = "open" /\ UNCHANGED <<world, inode, guest, host, opened, before, probed>>
     ELSE Refuse

(***************************************************************************)
(* open_validated_origin                                                   *)
(***************************************************************************)

OpenOrigin ==
  /\ at = "open" /\ at' = "snapshot" /\ opened' = {link[guest[2]]}
  /\ UNCHANGED <<world, inode, guest, host, before, probed>>

FirstSnapshot ==
  /\ at = "snapshot" /\ at' = "probe" /\ before' = Critical
  /\ UNCHANGED <<world, inode, guest, host, opened, probed>>

\* blkid on the opened descriptors: PARTUUID and PTUUID, then UUID and TYPE.
Probe ==
  /\ at = "probe" /\ Len(probed) < 2
  /\ \E p \in opened : probed' = Append(probed, table[p])
  /\ UNCHANGED <<world, at, inode, guest, host, opened, before>>

NamesChecked ==
  /\ at = "probe" /\ Len(probed) = 2
  /\ IF opened = {link[guest[2]]}
     THEN at' = "decide" /\ UNCHANGED <<world, inode, guest, host, opened, before, probed>>
     ELSE Refuse

\* Mutant: the first snapshot decides.
AdmissibleOnce(p) ==
  /\ p = Home[guest[4]] /\ \A i \in 1..2 : probed[i] = guest[2]
  /\ {p, ParentDevice(p)} \cap before = {}

\* validate_stable_critical_device_snapshot and validate_origin_manifest_identity.
Admissible(p) ==
  /\ before = Critical
  /\ p = Home[guest[4]] /\ \A i \in 1..2 : probed[i] = guest[2]
  /\ {p, ParentDevice(p)} \cap before = {}

Decide ==
  /\ at = "decide"
  /\ IF \A p \in opened : Admissible(p)
     THEN at' = "accepted" /\ UNCHANGED <<world, inode, guest, host, opened, before, probed>>
     ELSE Refuse

OaNext ==
  \/ GuestChanges \/ HostChanges \/ DeviceChanges
  \/ OpenGuest \/ ReadGuest \/ GuestRead \/ OpenHost \/ ReadHost \/ HostRead
  \/ OpenOrigin \/ FirstSnapshot \/ Probe \/ NamesChecked \/ Decide

OaSpec == OaInit /\ [][OaNext]_oaVars

-----------------------------------------------------------------------------
\* The type invariant of the module.
OaTypeOK ==
  /\ at \in {"guest", "readGuest", "host", "readHost", "open", "snapshot", "probe", "decide",
             "accepted", "refused"}
  /\ guest \in UNION {[1..n -> Versions] : n \in 0..Len(GuestFields)}
  /\ host \in UNION {[1..n -> Versions] : n \in 0..Len(HostFields)}
  /\ opened \subseteq Partitions /\ oaSwaps \subseteq Partitions
  /\ probed \in UNION {[1..n -> Versions] : n \in 0..2}
  /\ changes \in 0..MaxChanges

\* Whatever is replaced or rewritten while the manifests are read and the device
\* is probed, an accepted origin carries the identity and is served with the
\* policy of one and the same sealed configuration ("host origin configuration
\* SHA-256 is not enforced end to end" is the refusal).
AcceptedIsOneVersion ==
  at = "accepted" =>
    \E v \in Versions :
      /\ guest[1] = v /\ guest[2] = v /\ guest[3] = v
      /\ host = Whole(HostFields, v) /\ probed = <<v, v>>

\* At the moment it is accepted the origin is not the root device, an active swap
\* or on the disk of either ("origin aliases the current root, active swap, or
\* one of their parent devices").
AcceptedIsNotCritical ==
  [][at # "accepted" /\ at' = "accepted" => \A p \in opened : {p, ParentDevice(p)} \cap Critical = {}]_oaVars

\* The promises together.
OaContract == [](OaTypeOK /\ AcceptedIsOneVersion) /\ AcceptedIsNotCritical
=============================================================================

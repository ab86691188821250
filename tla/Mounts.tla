------------------------------- MODULE Mounts -------------------------------
(***************************************************************************)
(* The tables of devices and mount points (ext4.c), and what mounting and  *)
(* unmounting do to a device and to its superblock (ext4_fs.c).  The state *)
(* is a record m with the fields                                           *)
(*   dev    s_bdevices: name and device of each slot                       *)
(*   mp     s_mp: name, mounted, device, read_only, mount_count and locks; *)
(*          a slot keeps its name when it is unmounted                     *)
(*   bd     the devices: ph_refctr, the slot whose cache and file system   *)
(*          are bound to it, and on the disk the superblock's state and    *)
(*          mount count                                                    *)
(*   r, at  the result of the last call, the slot ext4_get_mount returned  *)
(*   odd    the odd situations that were met                               *)
(***************************************************************************)
EXTENDS Integers, Sequences, FiniteSetsExt

CONSTANTS
  Device,       \* block devices
  DevSlots,     \* CONFIG_EXT4_BLOCKDEVS_COUNT
  MountSlots,   \* CONFIG_EXT4_MOUNTPOINTS_COUNT
  MountName,    \* names of mount points
  Under,        \* the mount points that are prefixes of a path
  Kind          \* of a device: "good", "bad" or, with features that force it, "ro"

NoDevice == "none"

NoMount == [name |-> "", mounted |-> FALSE, bd |-> NoDevice, ro |-> FALSE, count |-> 0, locks |-> FALSE]

Mark(m, what) == [m EXCEPT !.odd = @ \cup {what}]

First(slots) == IF slots = {} THEN 0 ELSE Min(slots)

(***************************************************************************)
(* Devices.                                                                *)
(***************************************************************************)
NoDev == [name |-> "", bd |-> NoDevice]

ext4_device_register(m, bd, name) ==
  IF \E i \in 1..DevSlots : m.dev[i].name = name THEN [m EXCEPT !.r = "EEXIST"]
  ELSE LET i == First({j \in 1..DevSlots : m.dev[j].bd = NoDevice})
       IN IF i = 0 THEN [m EXCEPT !.r = "ENOSPC"]
          ELSE [m EXCEPT !.dev[i] = [name |-> name, bd |-> bd], !.r = "EOK"]

ext4_device_unregister(m, name) ==
  LET i == First({j \in 1..DevSlots : m.dev[j].name = name})
  IN IF i = 0 THEN [m EXCEPT !.r = "ENOENT"] ELSE [m EXCEPT !.dev[i] = NoDev, !.r = "EOK"]

ext4_device_unregister_all(m) == [m EXCEPT !.dev = [i \in 1..DevSlots |-> NoDev], !.r = "EOK"]

(***************************************************************************)
(* Mounting.  The superblock on the disk says that the file system has     *)
(* errors while it is mounted; the new mount count is not written until    *)
(* it is unmounted.                                                        *)
(***************************************************************************)
ext4_block_init(m, bd) == [m EXCEPT !.bd[bd].ref = @ + 1]

ext4_block_fini(m, bd) == [m EXCEPT !.bd[bd].ref = Max({@ - 1, 0})]

ext4_sb_check(bd) == Kind[bd] # "bad"

ext4_fs_check_features(bd, ro) == ro \/ Kind[bd] = "ro"

Superblock(m, i, bd, ro) ==
  [m EXCEPT !.mp[i].ro = ro, !.mp[i].count = m.bd[bd].count + IF ro THEN 0 ELSE 1,
            !.bd[bd].state = IF ro THEN @ ELSE "error", !.r = "EOK"]

ext4_fs_init(m, i, bd, ro) ==
  IF ~ext4_sb_check(bd) THEN [m EXCEPT !.mp[i].bd = bd, !.mp[i].ro = ro, !.r = "ENOTSUP"]
  ELSE Superblock([m EXCEPT !.mp[i].bd = bd], i, bd, ext4_fs_check_features(bd, ro))

\* Mutant: the device of a failed mount stays open.
failed_stays_open(m, i, bd) ==
  IF m.r # "EOK" THEN m ELSE [m EXCEPT !.bd[bd].slot = i, !.mp[i].mounted = TRUE]

\* A device that is mounted twice has the cache and the superblock of the
\* last mount.
Bind(m, i, bd) ==
  IF m.r # "EOK" THEN ext4_block_fini(m, bd)
  ELSE [IF m.bd[bd].slot # 0 THEN Mark(m, "device mounted twice") ELSE m EXCEPT
          !.bd[bd].slot = i, !.mp[i].mounted = TRUE]

MountIn(m, i, bd, name, ro) == Bind(ext4_fs_init(ext4_block_init([m EXCEPT !.mp[i].name = name], bd), i, bd, ro), i, bd)

\* The first slot that is free or has this name.
MountDevice(m, bd, name, ro) ==
  LET i == First({j \in 1..MountSlots : ~m.mp[j].mounted \/ m.mp[j].name = name})
  IN CASE i = 0 -> [m EXCEPT !.r = "ENOMEM"]
       [] i # 0 /\ m.mp[i].mounted -> [m EXCEPT !.r = "EOK"]
       [] OTHER -> MountIn(IF \E j \in 1..MountSlots : m.mp[j].mounted /\ m.mp[j].name = name
                           THEN Mark(m, "name mounted twice") ELSE m, i, bd, name, ro)

ext4_mount(m, dev_name, name, ro) ==
  LET i == First({j \in 1..DevSlots : m.dev[j].name = dev_name})
  IN IF i = 0 THEN [m EXCEPT !.r = "ENODEV"] ELSE MountDevice(m, m.dev[i].bd, name, ro)

(***************************************************************************)
(* Unmounting: the slot with this name, mounted or not.                    *)
(***************************************************************************)
ext4_fs_fini(m, i) ==
  IF m.mp[i].ro THEN m
  ELSE [m EXCEPT !.bd[m.mp[i].bd].state = "valid", !.bd[m.mp[i].bd].count = m.mp[i].count]

Unbind(m, i) ==
  ext4_block_fini([m EXCEPT !.mp[i].mounted = FALSE, !.bd[m.mp[i].bd].slot = 0, !.r = "EOK"], m.mp[i].bd)

UnmountSlot(m, i) == Unbind(ext4_fs_fini(IF m.mp[i].mounted THEN m ELSE Mark(m, "unmounted twice"), i), i)

ext4_umount(m, name) ==
  LET i == First({j \in 1..MountSlots : m.mp[j].name = name})
  IN IF i = 0 THEN [m EXCEPT !.r = "ENODEV"] ELSE UnmountSlot(m, i)

(***************************************************************************)
(* Finding the mount point of a path: the first whose name is a prefix.    *)
(***************************************************************************)
ext4_get_mount(m, path) == First({i \in 1..MountSlots : m.mp[i].mounted /\ m.mp[i].name \in Under[path]})

ext4_mount_point_stats(m, path) ==
  [m EXCEPT !.at = ext4_get_mount(m, path), !.r = IF ext4_get_mount(m, path) = 0 THEN "ENOENT" ELSE "EOK"]

ext4_mount_setup_locks(m, name) ==
  LET i == First({j \in 1..MountSlots : m.mp[j].name = name})
  IN IF i = 0 THEN [m EXCEPT !.r = "ENOENT"] ELSE [m EXCEPT !.mp[i].locks = TRUE, !.r = "EOK"]

(***************************************************************************)
(* A restart of the machine: the tables are empty again.                   *)
(***************************************************************************)
Boot(m) ==
  [m EXCEPT !.dev = [i \in 1..DevSlots |-> NoDev], !.mp = [i \in 1..MountSlots |-> NoMount],
            !.bd = [b \in Device |-> [@[b] EXCEPT !.ref = 0, !.slot = 0]], !.r = "EOK", !.at = 0]

NothingMounted ==
  [dev |-> [i \in 1..DevSlots |-> NoDev], mp |-> [i \in 1..MountSlots |-> NoMount],
   bd |-> [b \in Device |-> [ref |-> 0, slot |-> 0, state |-> "valid", count |-> 0]],
   r |-> "EOK", at |-> 0, odd |-> {}]
=============================================================================

------------------------------ MODULE Settings ------------------------------
(***************************************************************************)
(* The stored settings: main/nvs_store.c, the backup of config_web.c, the    *)
(* order of the start in main.c, and the tabs of ui_settings.c that edit     *)
(* them. One record of a tab stands for those of MQTT, clock and VPN: its    *)
(* first field has a default, its last one is known to newer firmware only. *)
(* Beside it the device list in its three layouts and the list of networks. *)
(***************************************************************************)
EXTENDS Integers, Sequences, FiniteSets

CONSTANTS
  Values,                \* what a field can be set to; 0 stands for "not set"
  Usual,                 \* the default of the first field
  Wlans,                 \* networks
  RecSize, MaxDev,       \* bytes of a device record by layout, MB_MAX_DEVICES
  MaxSteps               \* bound on saves, restores, restarts and mishaps

ASSUME SettingsAssumption ==
  /\ Values \subseteq Nat \ {0} /\ Usual \in Values
  /\ RecSize \in [4..6 -> Nat \ {0}] /\ {MaxDev, MaxSteps} \subseteq Nat \ {0}

VARIABLES
  fware, netUp,          \* the firmware that runs, whether wifi_mgr_init() went well
  inFlash,                \* the record in NVS, << >> when there is none
  cfg, tab, typed,       \* the module's copy, what the tab shows, ghost: fields typed into it
  devKeys, devices,      \* device lists in NVS by layout, what the workers use of them
  netKey, nets,          \* saved networks in NVS and in the RAM of wifi_mgr
  backup,                \* the backup file
  chosen, inUse,         \* ghost: what the user set, and of that what this run knows
  owned, served,         \* ghost: the same of the device list, owned by layout
  forgotten,             \* ghost: layouts whose list the user lost unseen
  ownedNets,             \* ghost: the networks the user saved
  steps                  \* what MaxSteps counts
tabVars == << inFlash, cfg, tab, typed, chosen, inUse >>
devVars == << devKeys, devices, owned, served, forgotten >>
netVars == << netKey, nets, ownedNets >>
setVars == << fware, netUp, tabVars, devVars, netVars, backup, steps >>

Known == [old |-> 2, new |-> 3]
Firmwares == DOMAIN Known
Layout == [old |-> 5, new |-> 6]       \* and the newest list each of them knows
own == Layout[fware]
NoList == [size |-> 0, count |-> 0]
NoFile == [rec |-> << >>, devs |-> NoList, nets |-> {}]
Unset == [i \in 1..3 |-> 0]
Stepped == steps < MaxSteps /\ steps' = steps + 1

----------------------------------------------------------------------------
(* get_blob_prefix(): a shorter record leaves the later fields at 0, of a    *)
(* longer one the part this firmware knows is kept.                        *)
ReadExact(rec, n) == IF Len(rec) > n THEN [i \in 1..n |-> 0] ELSE [i \in 1..n |-> IF i \in DOMAIN rec THEN rec[i] ELSE 0]
ReadBlob(rec, n) == [i \in 1..n |-> IF i \in DOMAIN rec THEN rec[i] ELSE 0]

(* The setters: one blob each, written and committed whole. What is written *)
(* to the list of one firmware is that of a later one which has none yet.   *)
Current(l, n) == [size |-> RecSize[l], count |-> n]
PutRecord(rec) == inFlash' = rec
PutDevices(n) == devKeys' = [devKeys EXCEPT ![own] = Current(own, n)]
PutNets(w) == netKey' = w
Heirs == { l \in {5, 6} : l = own \/ (l > own /\ devKeys[l] = NoList) }
Owns(n) == owned' = [l \in {5, 6} |-> IF l \in Heirs THEN n ELSE owned[l]]

(* normalize_cfg(): the default of what is not set, in RAM only.            *)
Normalized(c) == [c EXCEPT ![1] = IF @ = 0 THEN Usual ELSE @]

(* modbus_tcp_cfg_decode(): the layout is told from the length alone; a list *)
(* that fits none the firmware knows counts as empty wherever it is read.   *)
Fits(bytes, top) == { l \in 4..top : bytes % RecSize[l] = 0 }
Newest(s) == CHOOSE l \in s : \A m \in s : m <= l
Decoded(list, top) ==
  LET bytes == list.size * list.count
      layout == RecSize[Newest(Fits(bytes, top))]
  IN IF list.count = 0 \/ Fits(bytes, top) = {} THEN 0
     ELSE IF layout = list.size THEN list.count ELSE bytes \div layout + 100    \* another list

(* The length tells the layout as long as no full number of records of one  *)
(* layout is as long as some records of a later one, or of any the firmware *)
(* knows if it does not know the first: so with the 42, 66 and 68 bytes and *)
(* the MB_MAX_DEVICES 8 of the code.                                       *)
LayoutsApart ==
  \A top \in {5, 6}, l, m \in 4..6, n \in 1..MaxDev :
    m <= top /\ l \notin m..top => (RecSize[l] * n) % RecSize[m] # 0

(* load_cfg_into(): the list of the firmware's own layout, else the newest  *)
(* older one that has devices, which it writes once as its own; whether     *)
(* that write goes well nobody looks at.                                   *)
Old(k, top) == { l \in 4..top-1 : Decoded(k[l], top) > 0 }
Listed(k, top) ==
  IF k[top] # NoList THEN Decoded(k[top], top)
  ELSE IF Old(k, top) = {} THEN 0 ELSE Decoded(k[Newest(Old(k, top))], top)
Migrated(k, top) ==
  IF k[top] = NoList /\ Old(k, top) # {} THEN [k EXCEPT ![top] = Current(top, Listed(k, top))] ELSE k

----------------------------------------------------------------------------
(* app_main(): every module loads its record before the tabs are built; no  *)
(* network, no list of devices, no migration and no saved networks.        *)
SetUps(f, up, wrote) ==
  /\ fware' = f /\ netUp' = up
  /\ cfg' = Normalized(ReadBlob(inFlash, Known[f])) /\ tab' = cfg' /\ typed' = {}
  /\ inUse' = [i \in 1..Known[f] |-> chosen[i]]
  /\ devKeys' = IF up /\ wrote THEN Migrated(devKeys, Layout[f]) ELSE devKeys
  /\ IF up THEN devices' = Listed(devKeys, Layout[f]) /\ served' = owned[Layout[f]] /\ nets' = netKey
           ELSE devices' = 0 /\ served' = 0 /\ nets' = {}
(* The first start of a firmware on a device with a list in any layout.     *)
SetInit ==
  /\ fware \in Firmwares /\ netUp \in BOOLEAN /\ inFlash = << >>
  /\ cfg = Normalized(ReadBlob(inFlash, Known[fware])) /\ tab = cfg /\ typed = {} /\ chosen = Unset /\ inUse = [i \in 1..Known[fware] |-> 0]
  /\ \E layout \in 4..6, n \in 1..MaxDev, wrote \in BOOLEAN :
       LET found == [l \in 4..6 |-> IF l = layout THEN Current(l, n) ELSE NoList]
       IN /\ devKeys = IF netUp /\ wrote THEN Migrated(found, own) ELSE found
          /\ devices = (IF netUp THEN Listed(found, own) ELSE 0)
          /\ owned = [l \in {5, 6} |-> IF layout <= l THEN n ELSE 0]
  /\ served = (IF netUp THEN owned[own] ELSE 0) /\ forgotten = {}
  /\ \E w \in SUBSET Wlans : netKey = w /\ nets = (IF netUp THEN w ELSE {}) /\ ownedNets = w
  /\ backup = NoFile /\ steps = 0
Restart(f, up, wrote) ==
  /\ Stepped /\ SetUps(f, up, wrote)
  /\ UNCHANGED << inFlash, chosen, owned, forgotten, netKey, ownedNets, backup >>

(* nvs_store_init(): a damaged partition is erased, settings and all.       *)
Damaged ==
  /\ Stepped /\ netUp' = TRUE /\ fware' = fware /\ inFlash' = << >> /\ chosen' = Unset /\ inUse' = [i \in 1..Known[fware] |-> 0]
  /\ cfg' = Normalized(ReadBlob(<< >>, Known[fware])) /\ tab' = cfg' /\ typed' = {}
  /\ devKeys' = [l \in 4..6 |-> NoList] /\ devices' = 0 /\ forgotten' = {}
  /\ owned' = [l \in {5, 6} |-> 0] /\ served' = 0
  /\ netKey' = {} /\ nets' = {} /\ ownedNets' = {} /\ UNCHANGED backup

(* mqtt_save_cb(), ntp_save_cb(), vpn_save_cb() and the set_cfg() behind     *)
(* them: the whole record as the tab shows it; a failed write changes no   *)
(* copy. A longer record becomes a short one.                              *)
SaveTab(i, v, written) ==
  /\ Stepped /\ i \in DOMAIN tab /\ tab' = [tab EXCEPT ![i] = v]
  /\ IF written
     THEN /\ PutRecord(tab') /\ cfg' = Normalized(tab')
          /\ inUse' = [j \in DOMAIN tab |-> IF j \in typed \cup {i} THEN tab'[j] ELSE inUse[j]] /\ typed' = {}
          /\ chosen' = [j \in 1..3 |-> IF j \in DOMAIN inUse THEN inUse'[j] ELSE 0]
     ELSE typed' = typed \cup {i} /\ UNCHANGED << inFlash, cfg, inUse, chosen >>
  /\ UNCHANGED << fware, netUp, devVars, netVars, backup >>

(* modbus_tcp_get_devices(), edit, modbus_tcp_set_devices(): the page reads  *)
(* the list of its own layout, not the one the workers use, and on success  *)
(* they load what it wrote. So an older list nobody has moved is lost to    *)
(* the first save; and one emptied by an older firmware is passed over for  *)
(* a still older one.                                                      *)
EditDevices(more) ==
  /\ Stepped
  /\ LET step == IF more THEN 1 ELSE -1
         n == Decoded(devKeys[own], own) + step
         unread == devKeys[own] = NoList /\ Old(devKeys, own) # {}
     IN /\ n \in 0..MaxDev /\ PutDevices(n) /\ Owns(owned[own] + step)
        /\ forgotten' = forgotten \cup { l \in Heirs : unread \/ own \in forgotten \/ (n = 0 /\ l # own) }
        /\ IF netUp THEN devices' = n /\ served' = owned'[own] ELSE UNCHANGED << devices, served >>
  /\ UNCHANGED << fware, netUp, tabVars, netVars, backup >>

(* wifi_mgr_add_cred(), save_creds(): the list in RAM with the new network. *)
AddNet(w) ==
  /\ Stepped /\ nets' = nets \cup {w} /\ PutNets(nets') /\ ownedNets' = ownedNets \cup {w}
  /\ UNCHANGED << fware, netUp, tabVars, devVars, backup >>
RemoveNet(w) ==
  /\ Stepped /\ w \in nets /\ nets' = nets \ {w} /\ PutNets(nets') /\ ownedNets' = ownedNets \ {w}
  /\ UNCHANGED << fware, netUp, tabVars, devVars, backup >>

----------------------------------------------------------------------------
(* export_handler(): what is stored, each record as this firmware reads it. *)
Export ==
  /\ Stepped /\ netUp
  /\ backup' = [rec |-> IF inFlash = << >> THEN << >> ELSE ReadBlob(inFlash, Known[fware]), devs |-> devKeys[own], nets |-> netKey]
  /\ UNCHANGED << fware, netUp, tabVars, devVars, netVars >>

(* A file kept from an earlier firmware, with its layout of devices.        *)
OldFile(layout, n) ==
  /\ Stepped /\ backup' = [NoFile EXCEPT !.devs = [size |-> RecSize[layout], count |-> n]]
  /\ UNCHANGED << fware, netUp, tabVars, devVars, netVars >>

(* import_handler(): record by record into NVS, nothing into the copies      *)
(* that run; a record of another length is skipped, so is a device list     *)
(* that fits no layout, and any whose write fails.                         *)
RightLength(rec) == Len(rec) = Known[fware]
Import(fails) ==
  /\ Stepped /\ netUp /\ backup # NoFile
  /\ IF RightLength(backup.rec) /\ "tab" \notin fails
     THEN PutRecord(backup.rec) /\ chosen' = [j \in 1..3 |-> IF j \in DOMAIN backup.rec THEN backup.rec[j]
                                                            ELSE IF j > Known[fware] THEN 0 ELSE chosen[j]]
     ELSE UNCHANGED << inFlash, chosen >>
  /\ IF Decoded(backup.devs, own) > 0 /\ "devs" \notin fails
     THEN /\ PutDevices(Decoded(backup.devs, own)) /\ Owns(backup.devs.count) /\ forgotten' = forgotten \ Heirs
          /\ served' = IF own \in forgotten THEN devices ELSE served
     ELSE UNCHANGED << devKeys, owned, served, forgotten >>
  /\ IF backup.nets # {} /\ "nets" \notin fails
     THEN PutNets(backup.nets) /\ ownedNets' = backup.nets ELSE UNCHANGED << netKey, ownedNets >>
  /\ UNCHANGED << fware, netUp, cfg, tab, typed, inUse, devices, nets, backup >>

SetNext ==
  \/ \E f \in Firmwares, up, wrote \in BOOLEAN : Restart(f, up, wrote)
  \/ Damaged
  \/ \E i \in 1..3, v \in Values \cup {0}, written \in BOOLEAN : SaveTab(i, v, written)
  \/ \E more \in BOOLEAN : EditDevices(more)
  \/ \E w \in Wlans : AddNet(w) \/ RemoveNet(w)
  \/ Export
  \/ \E layout \in {4, 5}, n \in 1..MaxDev : OldFile(layout, n)
  \/ \E fails \in SUBSET {"tab", "devs", "nets"} : Import(fails)
SetSpec == SetInit /\ [][SetNext]_setVars

----------------------------------------------------------------------------
(* nvs_store.c:126-144, modbus_tcp.c:163-185, config_web.c:246-255: over       *)
(* updates, rollbacks, restores, failed writes and starts without a network *)
(* a module works with every field its firmware knows as the user last set  *)
(* it. The list of devices, stored and used, is the user's in whatever      *)
(* layout it was written and whether or not it could be moved, unless it    *)
(* was lost unseen as EditDevices says.                                    *)
SettingsKept ==
  /\ \A i \in DOMAIN cfg : cfg[i] = IF i = 1 /\ inUse[i] = 0 THEN cfg[1] ELSE inUse[i]
  /\ own \notin forgotten => Listed(devKeys, own) = owned[own] /\ devices = served
=============================================================================

------------------------------- MODULE Devmgr -------------------------------
(* The device manager of source/requirements.cxx: two maps, device_queue()   *)
(* and driver_queue(), that every thread of the address space reads and      *)
(* writes through the devmgr_* functions.  A device is kept as its parsed    *)
(* JSON (parameters::maps_), of which two keys matter here: "config", which  *)
(* stands for everything its owner wrote (name, compat, config/...), and     *)
(* "dri_id", which driver::bind adds.  Of a driver only the name matters.    *)
EXTENDS Integers

CONSTANTS DevIds,     \* ids devmgr_create_device may return
          DrvIds,     \* ids devmgr_create_driver may return
          Names,      \* driver names
          Settings,   \* what an owner writes into a device's JSON
          Absent,     \* a key the map does not hold
          None,       \* nullptr, or an entry the map does not hold
          UniqueIds   \* TRUE: rand() draws no id that is in use

ASSUME DevmgrAssumption ==
  /\ DevIds \subseteq Nat
  /\ DrvIds \subseteq Nat
  /\ Absent \notin Settings \cup DrvIds
  /\ None \notin Names
  /\ None \notin [config : Settings \cup {Absent}, dri_id : DrvIds \cup {Absent}]
  /\ UniqueIds \in BOOLEAN

VARIABLES reg,        \* device_queue()
          drvReg      \* driver_queue()

devmgrVars == <<reg, drvReg>>

(***************************************************************************)
(* parameters: a map from keys to values.                                  *)
(***************************************************************************)
Config == [config : Settings \cup {Absent}, dri_id : DrvIds \cup {Absent}]

EmptyConfig == [config |-> Absent, dri_id |-> Absent]

(* Faulty variant: from_json empties the map first. *)
MergeReplaces(old, new) == new

(* from_json sets the keys it finds and leaves the others alone. *)
Merge(old, new) ==
  [config |-> IF new.config = Absent THEN old.config ELSE new.config,
   dri_id |-> IF new.dri_id = Absent THEN old.dri_id ELSE new.dri_id]

(* What an owner's own device object serialises to: it never holds "dri_id". *)
OwnerJson(s) == [config |-> s, dri_id |-> Absent]

(* Faulty variant: the key is read without has(). *)
get_bind_id_unchecked(cfg) == cfg.dri_id

get_bind_id(cfg) == IF cfg.dri_id = Absent THEN 0 ELSE cfg.dri_id

set_bind_id(cfg, id) == [cfg EXCEPT !.dri_id = id]

DevmgrInit ==
  /\ reg = [d \in DevIds |-> None]
  /\ drvReg = [k \in DrvIds |-> None]

(* The id is whatever rand() returns; an entry that has it is replaced. *)
devmgr_create_device(d, json) ==
  /\ UniqueIds => reg[d] = None
  /\ reg' = [reg EXCEPT ![d] = Merge(EmptyConfig, json)]
  /\ UNCHANGED drvReg

devmgr_update_device(d, json) ==
  /\ reg' = IF reg[d] = None THEN reg ELSE [reg EXCEPT ![d] = Merge(reg[d], json)]
  /\ UNCHANGED drvReg

devmgr_remove_device(d) ==
  /\ reg' = [reg EXCEPT ![d] = None]
  /\ UNCHANGED drvReg

(* The copy driver::query_device works on: a nullptr parses to an empty map. *)
ParsedDevice(d) == IF reg[d] = None THEN EmptyConfig ELSE Merge(EmptyConfig, reg[d])

devmgr_create_driver(k, name) ==
  /\ UniqueIds => drvReg[k] = None
  /\ drvReg' = [drvReg EXCEPT ![k] = name]
  /\ UNCHANGED reg

(* driver::devmgr_update writes back the name the entry already has. *)
devmgr_update_driver(k, name) ==
  /\ drvReg' = IF drvReg[k] = None THEN drvReg ELSE [drvReg EXCEPT ![k] = name]
  /\ UNCHANGED reg

devmgr_query_driver(k) == IF k \in DrvIds THEN drvReg[k] ELSE None
=============================================================================

---------------------------- MODULE PlatformProps ----------------------------
(* What Platform.tla is checked for. *)
EXTENDS Platform

(***************************************************************************)
(* Every variable holds a value of its type.                               *)
(***************************************************************************)
UserPcs == {"idle", "search_device", "query_device", "fill_device",
            "get_bind_id", "search_driver", "query_driver", "fill_driver",
            "send", "wait"}

DevmgrTypeOK ==
  /\ reg \in [DevIds -> Config \cup {None}]
  /\ drvReg \in [DrvIds -> Names \cup {None}]

ServerTypeOK ==
  /\ ipc \in BOOLEAN
  /\ dpc \in [Drivers -> {"init", "set_id", "update", "syscalls", "unregistered"}]
  /\ newId \in [Drivers -> DrvIds \cup {0}]
  /\ drvId \in [Drivers -> DrvIds \cup {0}]
  /\ nreg \in [Drivers -> 0..9]
  /\ handlers \in [Names -> [Methods -> Drivers \cup {None}]]
  /\ list \in [Drivers -> [DevIds -> Config \cup {None}]]

LoopTypeOK ==
  /\ lpc \in {"new", "register", "idle", "bind_query", "bind_update", "bind_add"}
  /\ cur \in Clients \cup {None}
  /\ ldri \in Drivers \cup {None}
  /\ snap \in Config
  /\ chan \in [Clients -> Requests \cup {None}]
  /\ reply \in [Clients -> Eno \cup {None}]

UserTypeOK ==
  /\ devCache \in [DevIds -> Config \cup {None}]
  /\ drvCache \in [DrvIds -> Names \cup {None}]
  /\ pc \in [Clients -> UserPcs]
  /\ op \in [Clients -> Ops \cup {None}]
  /\ dev \in [Clients -> DevIds \cup {None}]
  /\ drv \in [Clients -> DrvIds \cup {0, ENO_NOTEXIST}]
  /\ json \in [Clients -> Config \cup Names \cup {None}]
  /\ ret \in [Clients -> Eno \cup DevIds \cup {None}]
  /\ calls \in [Clients -> 0..MaxCalls]

TypeOK == DevmgrTypeOK /\ ServerTypeOK /\ LoopTypeOK /\ UserTypeOK

(***************************************************************************)
(* The binding a device carries: registry, caches, list and requests agree *)
(***************************************************************************)

(* Driver r has d, or its bind has published d and only add_device is left. *)
HoldsOrAdding(r, d) ==
  \/ list[r][d] # None
  \/ lpc = "bind_add" /\ ldri = r /\ chan[cur].dev = d

(* Driver id k, looked up for device d, leads to a driver that holds d. *)
IdLeadsToHolder(k, d) ==
  k # 0 /\ \E r \in Drivers : drvId[r] = k /\ HoldsOrAdding(r, d)

RegistryBindings ==
  \A d \in DevIds : reg[d] # None /\ reg[d].dri_id # Absent
                      => IdLeadsToHolder(reg[d].dri_id, d)

CacheBindings ==
  \A d \in DevIds : devCache[d] # None /\ devCache[d].dri_id # Absent
                      => IdLeadsToHolder(devCache[d].dri_id, d)

ThreadBindings ==
  \A c \in Clients : pc[c] # "idle" /\ op[c] # "bind" /\ drv[c] \in DrvIds \ {0}
                       => IdLeadsToHolder(drv[c], dev[c])

(* driver::bind publishes dri_id before add_device, user threads cache and   *)
(* use it from then on without asking again, and unbind leaves it there: a   *)
(* dri_id, in the registry, in the cache or in the hands of a user thread,   *)
(* always names a driver that holds the device, or is about to.              *)
NoDanglingBinding == RegistryBindings /\ CacheBindings /\ ThreadBindings

(* The payoff: when the loop thread takes a request for a device, other than *)
(* bind, the driver it reaches has that device; the ENO_NOTEXIST of          *)
(* driver::open and the others is never what a routed call gets.             *)
RoutedCallFindsDevice ==
  \A c \in Clients :
    lpc = "idle" /\ chan[c] # None /\ chan[c].method # "bind" /\ find(chan[c]) # None
      => list[find(chan[c])][chan[c].dev] # None

(* driver::bind checks a copy of the device and adds that same copy, while   *)
(* other threads rewrite or remove the original: a driver never lists a      *)
(* device whose settings it did not accept.                                  *)
ListedDevicesMatch ==
  \A r \in Drivers, d \in DevIds :
    list[r][d] # None => list[r][d].config \in Matches[r]

(* A handler is in the table only for a driver of that name whose id is      *)
(* published, and a request for another driver never reaches it.             *)
HandlersOfNamedDriver ==
  \A n \in Names, m \in Methods :
    handlers[n][m] # None => /\ NameOf[handlers[n][m]] = n
                             /\ drvId[handlers[n][m]] # 0

(* An owner updates its device with JSON that has no dri_id, at any moment   *)
(* of a bind.  from_json merges, so no update takes a binding away.          *)
BindingSurvivesUpdates ==
  [][\A d \in DevIds :
       reg[d] # None /\ reg'[d] # None /\ reg[d].dri_id # Absent
         => reg'[d].dri_id # Absent]_vars

(* Every dev_* call comes back: no step waits for something that a step      *)
(* behind it must do, although devmgr, drivers and users share one loop      *)
(* thread and driver::to_json waits for that thread to start.                *)
CallsReturn == \A c \in Clients : pc[c] # "idle" ~> pc[c] = "idle"

(***************************************************************************)
(* What comments, tests and the interface's documentation say, and the     *)
(* code does not do.                                                       *)
(***************************************************************************)

(* get_driver_id returns the id of the driver the device is bound to.  The   *)
(* device cache is filled on first use and never again.                      *)
DriverIdIsCurrent ==
  [][\A c \in Clients :
       pc[c] = "get_bind_id" /\ pc'[c] = "search_driver" /\ reg[dev[c]] # None
         => drv'[c] = get_bind_id(reg[dev[c]])]_vars
=============================================================================

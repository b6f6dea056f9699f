------------------------------- MODULE Driver -------------------------------
(* The driver side of the platform: the threads that run a driver's entry    *)
(* and register it (driver.cxx), the syscall table kv_, and the one loop     *)
(* thread (syscall.cxx) that serves every remote call of every driver.       *)
(* The rpc channel is two cells per caller: chan, the request on its way or  *)
(* being served, and reply, the answer.  A caller has one call outstanding.  *)
EXTENDS Devmgr, Sequences

CONSTANTS Clients,    \* user threads
          Drivers,    \* driver objects
          NameOf,     \* config key "name" of a driver
          Matches,    \* the settings a driver's compat and bind_ accept
          Endless     \* those its match_compat does not come back from

ASSUME DriverAssumption ==
  /\ NameOf \in [Drivers -> Names]
  /\ Matches \in [Drivers -> SUBSET Settings]
  /\ Endless \in [Drivers -> SUBSET Settings]
  /\ \A r \in Drivers : Matches[r] \cap Endless[r] = {}
  /\ None \notin Drivers

VARIABLES ipc,        \* local_ipc_.ch is set
          dpc,        \* where a driver's entry thread is in devmgr_register
          newId,      \* its local id, the result of devmgr_create_driver
          drvId,      \* driver::get_id()
          nreg,       \* how many of its syscalls register_syscall has added
          handlers,   \* syscall::kv_
          list,       \* driver::device_list_
          lpc,        \* where the loop thread is
          cur,        \* the caller it serves
          ldri,       \* the driver whose handler it runs
          snap,       \* driver::bind's copy of the device
          chan, reply \* the rpc channel

serverVars == <<ipc, dpc, newId, drvId, nreg, handlers, list>>
loopVars == <<lpc, cur, ldri, snap>>
driverVars == <<serverVars, loopVars, chan, reply>>

ENO_OK == 0
ENO_INVALID == -1
ENO_NOPERMIT == -2
ENO_NOTEXIST == -4
ENO_NOSYSCALL == -5
Eno == {ENO_OK, ENO_INVALID, ENO_NOPERMIT, ENO_NOTEXIST, ENO_NOSYSCALL}

(* The order in which register_syscall adds the handlers. *)
MethodOrder == <<"deinit", "bind", "unbind", "open", "close",
                 "transfer", "write", "read", "ioctl">>
Methods == {"deinit", "bind", "unbind", "open", "close",
            "transfer", "write", "read", "ioctl"}

(* A virtual function of the concrete driver succeeds or refuses; the base   *)
(* class hands its result on.                                                *)
HookResults == {ENO_OK, ENO_NOPERMIT}

Requests == [name : Names, method : Methods, dev : DevIds]

DriverInit ==
  /\ ipc = FALSE
  /\ dpc = [r \in Drivers |-> "init"]
  /\ newId = [r \in Drivers |-> 0]
  /\ drvId = [r \in Drivers |-> 0]
  /\ nreg = [r \in Drivers |-> 0]
  /\ handlers = [n \in Names |-> [m \in Methods |-> None]]
  /\ list = [r \in Drivers |-> [d \in DevIds |-> None]]
  /\ lpc = "new"
  /\ cur = None
  /\ ldri = None
  /\ snap = EmptyConfig
  /\ chan = [c \in Clients |-> None]
  /\ reply = [c \in Clients |-> None]

(***************************************************************************)
(* Registration: driver::init -> devmgr_register, on the entry thread.     *)
(***************************************************************************)

(* to_json waits for the local ipc, then devmgr_create_driver draws an id. *)
CreateDriver(r) ==
  /\ dpc[r] = "init"
  /\ ipc
  /\ \E k \in DrvIds :
       /\ devmgr_create_driver(k, NameOf[r])
       /\ newId' = [newId EXCEPT ![r] = k]
       /\ dpc' = [dpc EXCEPT ![r] = IF k = 0 THEN "unregistered" ELSE "set_id"]
  /\ UNCHANGED <<ipc, drvId, nreg, handlers, list, loopVars, chan, reply>>

SetId(r) ==
  /\ dpc[r] = "set_id"
  /\ drvId' = [drvId EXCEPT ![r] = newId[r]]
  /\ dpc' = [dpc EXCEPT ![r] = "update"]
  /\ UNCHANGED <<devmgrVars, ipc, newId, nreg, handlers, list, loopVars, chan, reply>>

UpdateDriver(r) ==
  /\ dpc[r] = "update"
  /\ devmgr_update_driver(drvId[r], NameOf[r])
  /\ dpc' = [dpc EXCEPT ![r] = "syscalls"]
  /\ UNCHANGED <<ipc, newId, drvId, nreg, handlers, list, loopVars, chan, reply>>

(* Faulty variant: the syscalls are added before the id is set. *)
AddSyscallEarly(r) ==
  /\ dpc[r] \in {"set_id", "syscalls"}
  /\ nreg[r] < Len(MethodOrder)
  /\ nreg' = [nreg EXCEPT ![r] = nreg[r] + 1]
  /\ handlers' = [handlers EXCEPT ![NameOf[r]][MethodOrder[nreg[r] + 1]] = r]
  /\ UNCHANGED <<devmgrVars, ipc, dpc, newId, drvId, list, loopVars, chan, reply>>

(* One kv_[hash(name-method)] = handler; a driver of the same name loses its. *)
(* Every driver of the repository is made with a name: the prefix            *)
(* "unknow-name-" of one without is not modelled.                            *)
AddSyscall(r) ==
  /\ dpc[r] = "syscalls"
  /\ nreg[r] < Len(MethodOrder)
  /\ nreg' = [nreg EXCEPT ![r] = nreg[r] + 1]
  /\ handlers' = [handlers EXCEPT ![NameOf[r]][MethodOrder[nreg[r] + 1]] = r]
  /\ UNCHANGED <<devmgrVars, ipc, dpc, newId, drvId, list, loopVars, chan, reply>>

EntryThread(r) == CreateDriver(r) \/ SetId(r) \/ UpdateDriver(r) \/ AddSyscall(r)

(***************************************************************************)
(* The loop thread: syscall_ipc_handler and its callback.                  *)
(***************************************************************************)
SetLocalIpc ==
  /\ lpc = "new"
  /\ ipc' = TRUE
  /\ lpc' = "register"
  /\ UNCHANGED <<devmgrVars, dpc, newId, drvId, nreg, handlers, list,
                 cur, ldri, snap, chan, reply>>

RegisterCallback ==
  /\ lpc = "register"
  /\ lpc' = "idle"
  /\ UNCHANGED <<devmgrVars, serverVars, cur, ldri, snap, chan, reply>>

(* Faulty variant: the hash leaves the driver's name out. *)
findByMethod(q) ==
  IF \E n \in Names : handlers[n][q.method] # None
  THEN handlers[CHOOSE n \in Names : handlers[n][q.method] # None][q.method]
  ELSE None

(* The search by crc32 of name-method; two of these are taken to differ.     *)
find(q) == handlers[q.name][q.method]

(* rpc_reply: the caller has its answer and the loop takes the next message. *)
Answer(c, res) ==
  /\ chan' = [chan EXCEPT ![c] = None]
  /\ reply' = [reply EXCEPT ![c] = res]

(* Faulty variant: an unknown call is dropped without rpc_reply. *)
DropUnknown(c) ==
  /\ lpc = "idle"
  /\ chan[c] # None
  /\ find(chan[c]) = None
  /\ chan' = [chan EXCEPT ![c] = None]
  /\ UNCHANGED <<devmgrVars, serverVars, loopVars, reply>>

(* find() misses: dummy_syscall. *)
RejectUnknown(c) ==
  /\ lpc = "idle"
  /\ chan[c] # None
  /\ find(chan[c]) = None
  /\ Answer(c, ENO_NOSYSCALL)
  /\ UNCHANGED <<devmgrVars, serverVars, loopVars>>

(* unbind, open, close, transfer, write, read and ioctl: get_device takes    *)
(* the device out of its slot, the virtual function runs, put_device puts it *)
(* back; nothing but the loop thread sees the list in between.               *)
ServeDevice(c) ==
  /\ lpc = "idle"
  /\ chan[c] # None
  /\ chan[c].method # "bind"
  /\ find(chan[c]) # None
  /\ IF list[find(chan[c])][chan[c].dev] = None
     THEN Answer(c, ENO_NOTEXIST)
     ELSE \E res \in HookResults : Answer(c, res)
  /\ UNCHANGED <<devmgrVars, serverVars, loopVars>>

BeginBind(c) ==
  /\ lpc = "idle"
  /\ chan[c] # None
  /\ chan[c].method = "bind"
  /\ find(chan[c]) # None
  /\ cur' = c
  /\ ldri' = find(chan[c])
  /\ lpc' = "bind_query"
  /\ UNCHANGED <<devmgrVars, serverVars, snap, chan, reply>>

EndBind(res) ==
  /\ Answer(cur, res)
  /\ lpc' = "idle"
  /\ cur' = None
  /\ ldri' = None
  /\ snap' = EmptyConfig

(* Faulty variant: the device is marked and published before bind_ refuses. *)
RefuseBindLate ==
  /\ lpc = "bind_query"
  /\ devmgr_update_device(chan[cur].dev,
                          set_bind_id(ParsedDevice(chan[cur].dev), drvId[ldri]))
  /\ EndBind(ENO_NOPERMIT)
  /\ UNCHANGED serverVars

(* query_device, the compat check and bind_ fail: the call ends.  A driver   *)
(* with alternatives in its compat of which none fits neither refuses nor    *)
(* accepts (MatchCompat.tla).                                                *)
RefuseBind ==
  /\ lpc = "bind_query"
  /\ \/ ParsedDevice(chan[cur].dev).config \notin Matches[ldri] \cup Endless[ldri]
        /\ EndBind(ENO_INVALID)
     \/ ParsedDevice(chan[cur].dev).config \in Matches[ldri] /\ EndBind(ENO_NOPERMIT)
  /\ UNCHANGED <<devmgrVars, serverVars>>

(* bind_ accepts the copy, and set_bind_id marks it. *)
AcceptBind ==
  /\ lpc = "bind_query"
  /\ ParsedDevice(chan[cur].dev).config \in Matches[ldri]
  /\ snap' = set_bind_id(ParsedDevice(chan[cur].dev), drvId[ldri])
  /\ lpc' = "bind_update"
  /\ UNCHANGED <<devmgrVars, serverVars, cur, ldri, chan, reply>>

(* update_device: the whole copy is written back, its result ignored. *)
UpdateBoundDevice ==
  /\ lpc = "bind_update"
  /\ devmgr_update_device(chan[cur].dev, snap)
  /\ lpc' = "bind_add"
  /\ UNCHANGED <<serverVars, cur, ldri, snap, chan, reply>>

(* Faulty variant: the test of has_device is the wrong way round. *)
AddBoundDeviceInverted ==
  /\ lpc = "bind_add"
  /\ list' = IF list[ldri][chan[cur].dev] # None
             THEN [list EXCEPT ![ldri][chan[cur].dev] = snap]
             ELSE list
  /\ EndBind(ENO_OK)
  /\ UNCHANGED <<devmgrVars, ipc, dpc, newId, drvId, nreg, handlers>>

(* Faulty variant: the device is queried again instead of moved into the list. *)
AddRequeriedDevice ==
  /\ lpc = "bind_add"
  /\ list' = [list EXCEPT ![ldri][chan[cur].dev] = ParsedDevice(chan[cur].dev)]
  /\ EndBind(ENO_OK)
  /\ UNCHANGED <<devmgrVars, ipc, dpc, newId, drvId, nreg, handlers>>

(* add_device: a device that is already in the list is left as it is. *)
AddBoundDevice ==
  /\ lpc = "bind_add"
  /\ list' = IF list[ldri][chan[cur].dev] = None
             THEN [list EXCEPT ![ldri][chan[cur].dev] = snap]
             ELSE list
  /\ EndBind(ENO_OK)
  /\ UNCHANGED <<devmgrVars, ipc, dpc, newId, drvId, nreg, handlers>>

LoopStarts == SetLocalIpc \/ RegisterCallback
LoopTakes(c) == RejectUnknown(c) \/ ServeDevice(c) \/ BeginBind(c)
LoopBinds == RefuseBind \/ AcceptBind \/ UpdateBoundDevice \/ AddBoundDevice
=============================================================================

------------------------------ MODULE Platform ------------------------------
(* The whole call path of the platform: user threads run the dev_* calls of  *)
(* api-internal.cxx, which look devices and drivers up in the two caches of  *)
(* internal_query, ask the device manager on a miss, and call the driver     *)
(* through the rpc channel; Driver.tla is the other end of the channel.      *)
(* The caches belong to the process, not to a thread, and nothing locks them.*)
EXTENDS Driver

CONSTANTS UserOps,    \* the calls user threads make
          MaxCalls    \* bound: calls per user thread

ManagerOps == {"create", "update", "remove"}
DeviceOps == {"unbind", "open", "close", "transfer", "write", "read", "ioctl"}
Ops == ManagerOps \cup DeviceOps \cup {"bind"}

ASSUME PlatformAssumption ==
  /\ UserOps \subseteq Ops
  /\ MaxCalls \in Nat
  /\ None \notin Clients

VARIABLES devCache,   \* internal_query::device_map
          drvCache,   \* internal_query::driver_map
          pc,         \* where a user thread is in its call
          op, dev,    \* its call and the device_id argument
          drv,        \* its local driver_id
          json,       \* the string devmgr_query_* gave it, parsed
          ret,        \* what its last call returned
          calls       \* how many calls it has made

cacheVars == <<devCache, drvCache>>
userVars == <<pc, op, dev, drv, json, ret, calls>>
vars == <<devmgrVars, driverVars, cacheVars, userVars>>

Init ==
  /\ DevmgrInit
  /\ DriverInit
  /\ devCache = [d \in DevIds |-> None]
  /\ drvCache = [k \in DrvIds |-> None]
  /\ pc = [c \in Clients |-> "idle"]
  /\ op = [c \in Clients |-> None]
  /\ dev = [c \in Clients |-> None]
  /\ drv = [c \in Clients |-> 0]
  /\ json = [c \in Clients |-> None]
  /\ ret = [c \in Clients |-> None]
  /\ calls = [c \in Clients |-> 0]

(***************************************************************************)
(* Calls that only touch the device manager return at once.                *)
(***************************************************************************)
ManagerCall(c, o, d) ==
  /\ o \in UserOps
  /\ pc[c] = "idle"
  /\ calls[c] < MaxCalls
  /\ calls' = [calls EXCEPT ![c] = calls[c] + 1]
  /\ op' = [op EXCEPT ![c] = o]
  /\ dev' = [dev EXCEPT ![c] = d]
  /\ UNCHANGED <<driverVars, cacheVars, pc, drv, json>>

CreateDevice(c) ==
  \E d \in DevIds, s \in Settings :
    /\ ManagerCall(c, "create", d)
    /\ devmgr_create_device(d, OwnerJson(s))
    /\ ret' = [ret EXCEPT ![c] = d]

UpdateDevice(c) ==
  \E d \in DevIds, s \in Settings :
    /\ ManagerCall(c, "update", d)
    /\ devmgr_update_device(d, OwnerJson(s))
    /\ ret' = [ret EXCEPT ![c] = IF reg[d] = None THEN ENO_NOTEXIST ELSE ENO_OK]

RemoveDevice(c) ==
  \E d \in DevIds :
    /\ ManagerCall(c, "remove", d)
    /\ devmgr_remove_device(d)
    /\ ret' = [ret EXCEPT ![c] = ENO_OK]

(***************************************************************************)
(* The dev_* calls.                                                        *)
(***************************************************************************)
Start(c, o, d, k, at) ==
  /\ o \in UserOps
  /\ pc[c] = "idle"
  /\ calls[c] < MaxCalls
  /\ calls' = [calls EXCEPT ![c] = calls[c] + 1]
  /\ pc' = [pc EXCEPT ![c] = at]
  /\ op' = [op EXCEPT ![c] = o]
  /\ dev' = [dev EXCEPT ![c] = d]
  /\ drv' = [drv EXCEPT ![c] = k]
  /\ ret' = [ret EXCEPT ![c] = None]
  /\ UNCHANGED <<devmgrVars, driverVars, cacheVars, json>>

(* The caller took driver_id from driver::get_id(), once that was not 0. *)
dev_bind(c) ==
  \E d \in DevIds, r \in Drivers :
    /\ drvId[r] # 0
    /\ Start(c, "bind", d, drvId[r], "search_driver")

dev_call(c) ==
  \E o \in DeviceOps, d \in DevIds : Start(c, o, d, 0, "search_device")

Goto(c, at) == pc' = [pc EXCEPT ![c] = at]

Return(c, res) ==
  /\ pc' = [pc EXCEPT ![c] = "idle"]
  /\ ret' = [ret EXCEPT ![c] = res]
  /\ drv' = [drv EXCEPT ![c] = 0]
  /\ json' = [json EXCEPT ![c] = None]

search_device(c) ==
  /\ pc[c] = "search_device"
  /\ Goto(c, IF devCache[dev[c]] = None THEN "query_device" ELSE "get_bind_id")
  /\ UNCHANGED <<devmgrVars, driverVars, cacheVars, op, dev, drv, json, ret, calls>>

(* On nullptr get_driver_id returns the error itself as the driver's id. *)
query_device(c) ==
  /\ pc[c] = "query_device"
  /\ IF reg[dev[c]] = None
     THEN /\ drv' = [drv EXCEPT ![c] = ENO_NOTEXIST]
          /\ Goto(c, "search_driver")
          /\ UNCHANGED json
     ELSE /\ json' = [json EXCEPT ![c] = reg[dev[c]]]
          /\ Goto(c, "fill_device")
          /\ UNCHANGED drv
  /\ UNCHANGED <<devmgrVars, driverVars, cacheVars, op, dev, ret, calls>>

fill_device(c) ==
  /\ pc[c] = "fill_device"
  /\ devCache' = [devCache EXCEPT ![dev[c]] = Merge(EmptyConfig, json[c])]
  /\ json' = [json EXCEPT ![c] = None]
  /\ Goto(c, "get_bind_id")
  /\ UNCHANGED <<devmgrVars, driverVars, drvCache, op, dev, drv, ret, calls>>

(* Only dev_unbind tests the id for 0. *)
get_driver_id(c) ==
  /\ pc[c] = "get_bind_id"
  /\ IF op[c] = "unbind" /\ get_bind_id(devCache[dev[c]]) = 0
     THEN Return(c, ENO_NOTEXIST)
     ELSE /\ drv' = [drv EXCEPT ![c] = get_bind_id(devCache[dev[c]])]
          /\ Goto(c, "search_driver")
          /\ UNCHANGED <<json, ret>>
  /\ UNCHANGED <<devmgrVars, driverVars, cacheVars, op, dev, calls>>

search_driver(c) ==
  /\ pc[c] = "search_driver"
  /\ Goto(c, IF drv[c] \in DrvIds /\ drvCache[drv[c]] # None
             THEN "send" ELSE "query_driver")
  /\ UNCHANGED <<devmgrVars, driverVars, cacheVars, op, dev, drv, json, ret, calls>>

query_driver(c) ==
  /\ pc[c] = "query_driver"
  /\ IF devmgr_query_driver(drv[c]) = None
     THEN Return(c, ENO_NOTEXIST)
     ELSE /\ json' = [json EXCEPT ![c] = devmgr_query_driver(drv[c])]
          /\ Goto(c, "fill_driver")
          /\ UNCHANGED <<drv, ret>>
  /\ UNCHANGED <<devmgrVars, driverVars, cacheVars, op, dev, calls>>

fill_driver(c) ==
  /\ pc[c] = "fill_driver"
  /\ drvCache' = [drvCache EXCEPT ![drv[c]] = json[c]]
  /\ json' = [json EXCEPT ![c] = None]
  /\ Goto(c, "send")
  /\ UNCHANGED <<devmgrVars, driverVars, devCache, op, dev, drv, ret, calls>>

(* The method a stub of driver_dummy packs: dev_transfer packs "close". *)
MethodOf(o) == IF o = "transfer" THEN "close" ELSE o

send(c) ==
  /\ pc[c] = "send"
  /\ chan' = [chan EXCEPT ![c] = [name |-> drvCache[drv[c]],
                                  method |-> MethodOf(op[c]),
                                  dev |-> dev[c]]]
  /\ Goto(c, "wait")
  /\ UNCHANGED <<devmgrVars, serverVars, loopVars, reply, cacheVars,
                 op, dev, drv, json, ret, calls>>

receive(c) ==
  /\ pc[c] = "wait"
  /\ reply[c] # None
  /\ reply' = [reply EXCEPT ![c] = None]
  /\ Return(c, reply[c])
  /\ UNCHANGED <<devmgrVars, serverVars, loopVars, chan, cacheVars, op, dev, calls>>

Call(c) == CreateDevice(c) \/ UpdateDevice(c) \/ RemoveDevice(c)
           \/ dev_bind(c) \/ dev_call(c)

Proceed(c) == search_device(c) \/ query_device(c) \/ fill_device(c)
              \/ get_driver_id(c) \/ search_driver(c) \/ query_driver(c)
              \/ fill_driver(c) \/ send(c) \/ receive(c)

(***************************************************************************)
(* The system.                                                             *)
(***************************************************************************)
EntryStep == /\ \E r \in Drivers : EntryThread(r)
             /\ UNCHANGED <<cacheVars, userVars>>
TakeStep(c) == LoopTakes(c) /\ UNCHANGED <<cacheVars, userVars>>
LoopStep == (LoopStarts \/ LoopBinds) /\ UNCHANGED <<cacheVars, userVars>>
UserStep(c) == Call(c) \/ Proceed(c)

Next == \/ EntryStep
        \/ LoopStep
        \/ \E c \in Clients : TakeStep(c) \/ UserStep(c)

Spec == Init /\ [][Next]_vars

(* A thread that can run does run.  Calls are made or not, as users like.    *)
(* The channel hands messages over in order, so no message waits forever.    *)
Fairness ==
  /\ WF_vars(LoopStep)
  /\ \A r \in Drivers : WF_vars(EntryThread(r) /\ UNCHANGED <<cacheVars, userVars>>)
  /\ \A c \in Clients : WF_vars(Proceed(c)) /\ SF_vars(TakeStep(c))

FairSpec == Spec /\ Fairness
=============================================================================

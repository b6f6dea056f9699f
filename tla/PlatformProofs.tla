--------------------------- MODULE PlatformProofs ---------------------------
(* Proofs about Platform.tla for any users, drivers, devices and settings.   *)
EXTENDS PlatformProps, TLAPS

(***************************************************************************)
(* What the locals of a thread hold at each of its places.                 *)
(***************************************************************************)
UserShape ==
  \A c \in Clients :
    /\ pc[c] # "idle" => op[c] \in DeviceOps \cup {"bind"} /\ dev[c] \in DevIds
    /\ pc[c] \in {"search_device", "query_device", "fill_device", "get_bind_id"}
         => op[c] \in DeviceOps
    /\ pc[c] = "fill_device" => json[c] \in Config
    /\ pc[c] = "get_bind_id" => devCache[dev[c]] # None
    /\ pc[c] = "fill_driver" => json[c] \in Names /\ drv[c] \in DrvIds
    /\ pc[c] \in {"send", "wait"} => drv[c] \in DrvIds /\ drvCache[drv[c]] # None
    /\ chan[c] # None => pc[c] = "wait"
    /\ reply[c] # None => pc[c] = "wait" /\ chan[c] = None

ServerShape ==
  /\ \A r \in Drivers : /\ dpc[r] = "set_id" => newId[r] # 0
                        /\ dpc[r] \in {"update", "syscalls"} => drvId[r] # 0
  /\ HandlersOfNamedDriver

(* BeginBind found the handler, so the driver has its id: it is what bind    *)
(* writes into the device.                                                   *)
LoopShape ==
  lpc \in {"bind_query", "bind_update", "bind_add"}
    => /\ cur \in Clients /\ chan[cur] # None /\ chan[cur].method = "bind"
       /\ ldri \in Drivers /\ drvId[ldri] # 0

TypeInv == TypeOK /\ UserShape /\ ServerShape /\ LoopShape

LEMMA MethodOrderType ==
  /\ Len(MethodOrder) = 9
  /\ \A i \in 1..9 : MethodOrder[i] \in Methods
BY DEF MethodOrder, Methods

LEMMA MergeType ==
  ASSUME NEW old \in Config, NEW new \in Config
  PROVE  Merge(old, new) \in Config
BY DEF Merge, Config

LEMMA OwnerJsonType ==
  ASSUME NEW s \in Settings
  PROVE  OwnerJson(s) \in Config
BY DEF OwnerJson, Config

LEMMA EmptyConfigType == EmptyConfig \in Config
BY DEF EmptyConfig, Config

LEMMA TypeInit == Init => TypeInv
<1> SUFFICES ASSUME Init PROVE TypeInv
  OBVIOUS
<1> USE DEF Init, DevmgrInit, DriverInit
<1>1. DevmgrTypeOK
  BY DEF DevmgrTypeOK
<1>2. ServerTypeOK
  <2>1. ipc \in BOOLEAN
    OBVIOUS
  <2>2. handlers \in [Names -> [Methods -> Drivers \cup {None}]]
    OBVIOUS
  <2>3. list \in [Drivers -> [DevIds -> Config \cup {None}]]
    OBVIOUS
  <2>4. dpc \in [Drivers -> {"init", "set_id", "update", "syscalls", "unregistered"}]
    OBVIOUS
  <2>5. /\ newId \in [Drivers -> DrvIds \cup {0}]
        /\ drvId \in [Drivers -> DrvIds \cup {0}]
        /\ nreg \in [Drivers -> 0..9]
    OBVIOUS
  <2>6. QED
    BY <2>1, <2>2, <2>3, <2>4, <2>5, Zenon DEF ServerTypeOK
<1>3. LoopTypeOK
  BY EmptyConfigType DEF LoopTypeOK
<1>4. UserTypeOK
  BY PlatformAssumption DEF UserTypeOK, UserPcs
<1>5. UserShape /\ ServerShape /\ LoopShape
  BY DEF UserShape, ServerShape, LoopShape, HandlersOfNamedDriver
<1>6. QED
  BY <1>1, <1>2, <1>3, <1>4, <1>5 DEF TypeInv, TypeOK

(***************************************************************************)
(* Steps of the entry threads and of the loop thread leave users alone.    *)
(***************************************************************************)
LEMMA UsersUntouched ==
  ASSUME TypeInv, UNCHANGED <<cacheVars, userVars>>,
         \A c \in Clients : \/ chan'[c] = chan[c] /\ reply'[c] = reply[c]
                            \/ chan[c] # None /\ chan'[c] = None
  PROVE  UserTypeOK' /\ UserShape'
<1> USE DEF TypeInv, TypeOK, cacheVars, userVars
<1>1. UserTypeOK'
  BY DEF UserTypeOK
<1>2. UserShape'
  BY DEF UserShape
<1>3. QED
  BY <1>1, <1>2

LEMMA TypeEntry ==
  ASSUME TypeInv, NEW r \in Drivers, EntryThread(r), UNCHANGED <<cacheVars, userVars>>
  PROVE  TypeInv'
<1> USE DEF TypeInv, TypeOK
<1>1. /\ UNCHANGED <<loopVars, chan, reply>>
      /\ \/ drvId' = drvId
         \/ dpc[r] = "set_id" /\ drvId' = [drvId EXCEPT ![r] = newId[r]]
  BY DEF EntryThread, CreateDriver, SetId, UpdateDriver, AddSyscall, loopVars
<1>2. UserTypeOK' /\ UserShape'
  BY <1>1, UsersUntouched
<1>3. LoopTypeOK'
  BY <1>1 DEF LoopTypeOK, loopVars
<1>4. LoopShape'
  BY <1>1 DEF LoopShape, LoopTypeOK, ServerShape, ServerTypeOK, loopVars
<1>5. CASE CreateDriver(r)
  <2> USE <1>5 DEF CreateDriver, devmgr_create_driver
  <2>1. DevmgrTypeOK'
    BY DriverAssumption DEF DevmgrTypeOK
  <2>2. ServerTypeOK'
    BY DEF ServerTypeOK
  <2>3. ServerShape'
    BY DEF ServerShape, HandlersOfNamedDriver, ServerTypeOK
  <2>4. QED
    BY <1>2, <1>3, <1>4, <2>1, <2>2, <2>3
<1>6. CASE SetId(r)
  <2> USE <1>6 DEF SetId, devmgrVars
  <2>1. DevmgrTypeOK' /\ ServerTypeOK'
    BY DEF DevmgrTypeOK, ServerTypeOK
  <2>2. ServerShape'
    BY DEF ServerShape, HandlersOfNamedDriver, ServerTypeOK
  <2>3. QED
    BY <1>2, <1>3, <1>4, <2>1, <2>2
<1>7. CASE UpdateDriver(r)
  <2> USE <1>7 DEF UpdateDriver, devmgr_update_driver
  <2>1. DevmgrTypeOK' /\ ServerTypeOK'
    BY DriverAssumption DEF DevmgrTypeOK, ServerTypeOK
  <2>2. ServerShape'
    BY DEF ServerShape, HandlersOfNamedDriver, ServerTypeOK
  <2>3. QED
    BY <1>2, <1>3, <1>4, <2>1, <2>2
<1>8. CASE AddSyscall(r)
  <2> USE <1>8 DEF AddSyscall, devmgrVars
  <2>1. nreg[r] + 1 \in 1..9 /\ MethodOrder[nreg[r] + 1] \in Methods
    BY MethodOrderType DEF ServerTypeOK
  <2>2. handlers' \in [Names -> [Methods -> Drivers \cup {None}]]
    BY <2>1, DriverAssumption DEF ServerTypeOK
  <2>3. nreg' \in [Drivers -> 0..9]
    BY <2>1 DEF ServerTypeOK
  <2>4. DevmgrTypeOK' /\ ServerTypeOK'
    BY <2>2, <2>3, Zenon DEF DevmgrTypeOK, ServerTypeOK
  <2>5. HandlersOfNamedDriver'
    <3> SUFFICES ASSUME NEW n \in Names, NEW m \in Methods, handlers'[n][m] # None
                 PROVE  NameOf[handlers'[n][m]] = n /\ drvId[handlers'[n][m]] # 0
      BY DEF HandlersOfNamedDriver
    <3>1. CASE n = NameOf[r] /\ m = MethodOrder[nreg[r] + 1]
      BY <2>1, <3>1 DEF ServerTypeOK, ServerShape
    <3>2. CASE ~(n = NameOf[r] /\ m = MethodOrder[nreg[r] + 1])
      BY <2>1, <3>2 DEF ServerTypeOK, ServerShape, HandlersOfNamedDriver
    <3>3. QED
      BY <3>1, <3>2
  <2>6. ServerShape'
    BY <2>5 DEF ServerShape
  <2>7. QED
    BY <1>2, <1>3, <1>4, <2>4, <2>6
<1>9. QED
  BY <1>5, <1>6, <1>7, <1>8 DEF EntryThread

LEMMA TypeTake ==
  ASSUME TypeInv, NEW c \in Clients, TakeStep(c)
  PROVE  TypeInv'
<1> USE DEF TypeInv, TypeOK, TakeStep
<1>1. /\ UNCHANGED <<devmgrVars, serverVars, cacheVars, userVars>>
      /\ \/ chan' = chan /\ reply' = reply
         \/ /\ chan[c] # None /\ chan' = [chan EXCEPT ![c] = None]
            /\ \E res \in Eno : reply' = [reply EXCEPT ![c] = res]
      /\ lpc = "idle"
  BY DEF Eno, HookResults, LoopTakes, RejectUnknown, ServeDevice, BeginBind, Answer
<1>2. UserTypeOK' /\ UserShape'
  BY <1>1, UsersUntouched DEF LoopTypeOK
<1>3. DevmgrTypeOK' /\ ServerTypeOK' /\ ServerShape'
  BY <1>1 DEF DevmgrTypeOK, ServerTypeOK, ServerShape, HandlersOfNamedDriver, devmgrVars, serverVars
<1>4. CASE RejectUnknown(c) \/ ServeDevice(c)
  <2>1. UNCHANGED loopVars /\ \E res \in Eno : Answer(c, res)
    BY <1>4 DEF RejectUnknown, ServeDevice, HookResults, Eno
  <2>2. LoopTypeOK' /\ LoopShape'
    BY <1>1, <2>1 DEF Answer, LoopTypeOK, LoopShape, loopVars
  <2>3. QED
    BY <1>2, <1>3, <2>2
<1>5. CASE BeginBind(c)
  <2>1. chan[c] \in Requests
    BY <1>5 DEF BeginBind, LoopTypeOK
  <2>2. find(chan[c]) \in Drivers /\ drvId[find(chan[c])] # 0
    BY <1>5, <2>1
    DEF BeginBind, find, ServerTypeOK, ServerShape, HandlersOfNamedDriver, Requests
  <2>3. LoopTypeOK' /\ LoopShape'
    BY <1>5, <2>2 DEF BeginBind, LoopTypeOK, LoopShape, serverVars
  <2>4. QED
    BY <1>2, <1>3, <2>3
<1>6. QED
  BY <1>4, <1>5 DEF LoopTakes

LEMMA ParsedDeviceType ==
  ASSUME TypeInv, NEW d \in DevIds
  PROVE  ParsedDevice(d) \in Config
BY EmptyConfigType, MergeType DEF ParsedDevice, TypeInv, TypeOK, DevmgrTypeOK

LEMMA SetBindIdType ==
  ASSUME NEW cfg \in Config, NEW k \in DrvIds
  PROVE  /\ set_bind_id(cfg, k) \in Config
         /\ set_bind_id(cfg, k).dri_id = k
         /\ set_bind_id(cfg, k).config = cfg.config
BY DEF set_bind_id, Config

LEMMA TypeLoop ==
  ASSUME TypeInv, LoopStep
  PROVE  TypeInv'
<1> USE DEF TypeInv, TypeOK, LoopStep
<1>1. /\ UNCHANGED <<cacheVars, userVars, dpc, newId, drvId, handlers, nreg>>
      /\ \/ chan' = chan /\ reply' = reply
         \/ /\ cur \in Clients /\ chan[cur] # None /\ chan' = [chan EXCEPT ![cur] = None]
            /\ \E res \in Eno : reply' = [reply EXCEPT ![cur] = res]
  BY DEF Eno, LoopStarts, LoopBinds, SetLocalIpc, RegisterCallback, RefuseBind, AcceptBind,
         UpdateBoundDevice, AddBoundDevice, EndBind, Answer, serverVars, LoopShape
<1>2. UserTypeOK' /\ UserShape'
  BY <1>1, UsersUntouched DEF LoopTypeOK
<1>3. ServerShape'
  BY <1>1 DEF ServerShape, HandlersOfNamedDriver
<1>4. CASE SetLocalIpc \/ RegisterCallback
  <2>1. ipc' \in BOOLEAN
    BY <1>4, Zenon DEF SetLocalIpc, RegisterCallback, ServerTypeOK, serverVars
  <2>2. UNCHANGED <<devmgrVars, list, cur, ldri, snap, chan, reply>> /\ lpc' \in {"register", "idle"}
    BY <1>4 DEF SetLocalIpc, RegisterCallback, serverVars
  <2>3. DevmgrTypeOK' /\ LoopTypeOK' /\ LoopShape'
    BY <2>2 DEF DevmgrTypeOK, LoopTypeOK, LoopShape, devmgrVars
  <2>4. ServerTypeOK'
    BY <1>1, <2>1, <2>2, Zenon DEF ServerTypeOK
  <2>5. QED
    BY <1>2, <1>3, <2>3, <2>4
<1>5. CASE RefuseBind
  <2>1. UNCHANGED <<devmgrVars, serverVars>> /\ \E res \in Eno : EndBind(res)
    BY <1>5 DEF RefuseBind, Eno
  <2>2. LoopTypeOK' /\ LoopShape'
    BY <2>1, EmptyConfigType DEF EndBind, Answer, LoopTypeOK, LoopShape
  <2>3. DevmgrTypeOK' /\ ServerTypeOK'
    BY <2>1 DEF DevmgrTypeOK, ServerTypeOK, devmgrVars, serverVars
  <2>4. QED
    BY <1>2, <1>3, <2>2, <2>3
<1>6. CASE LoopBinds /\ ~RefuseBind
  <2>1. /\ chan[cur] \in Requests /\ chan[cur].dev \in DevIds /\ cur \in Clients
        /\ ldri \in Drivers /\ drvId[ldri] \in DrvIds
    BY <1>6 DEF LoopBinds, AcceptBind, UpdateBoundDevice, AddBoundDevice,
                LoopTypeOK, LoopShape, Requests, ServerTypeOK
  <2>2. CASE AcceptBind
    <3>1. snap' \in Config
      BY <2>1, <2>2, ParsedDeviceType, SetBindIdType DEF AcceptBind
    <3>2. LoopTypeOK' /\ LoopShape'
      BY <2>2, <3>1 DEF AcceptBind, LoopTypeOK, LoopShape, serverVars
    <3>3. DevmgrTypeOK' /\ ServerTypeOK'
      BY <2>2 DEF AcceptBind, DevmgrTypeOK, ServerTypeOK, devmgrVars, serverVars
    <3>4. QED
      BY <1>2, <1>3, <3>2, <3>3
  <2>3. CASE UpdateBoundDevice
    <3>1. reg' \in [DevIds -> Config \cup {None}] /\ drvReg' = drvReg
      BY <2>1, <2>3, MergeType
      DEF UpdateBoundDevice, devmgr_update_device, DevmgrTypeOK, LoopTypeOK
    <3>2. LoopTypeOK' /\ LoopShape'
      BY <2>3 DEF UpdateBoundDevice, LoopTypeOK, LoopShape, serverVars
    <3>3. DevmgrTypeOK' /\ ServerTypeOK'
      BY <2>3, <3>1 DEF UpdateBoundDevice, DevmgrTypeOK, ServerTypeOK, serverVars
    <3>4. QED
      BY <1>2, <1>3, <3>2, <3>3
  <2>4. CASE AddBoundDevice
    <3>1. list' \in [Drivers -> [DevIds -> Config \cup {None}]]
      BY <2>1, <2>4 DEF AddBoundDevice, ServerTypeOK, LoopTypeOK
    <3>2. LoopTypeOK' /\ LoopShape'
      BY <2>4, EmptyConfigType DEF AddBoundDevice, EndBind, Answer, Eno, LoopTypeOK, LoopShape
    <3>3. DevmgrTypeOK' /\ ServerTypeOK'
      BY <2>4, <3>1 DEF AddBoundDevice, DevmgrTypeOK, ServerTypeOK, devmgrVars
    <3>4. QED
      BY <1>2, <1>3, <3>2, <3>3
  <2>5. QED
    BY <1>6, <2>2, <2>3, <2>4 DEF LoopBinds
<1>7. QED
  BY <1>4, <1>5, <1>6 DEF LoopStarts

(***************************************************************************)
(* Steps of user threads leave the server alone, but for the channel.      *)
(***************************************************************************)
LEMMA ServerUntouched ==
  ASSUME TypeInv, UNCHANGED <<serverVars, loopVars>>,
         \A x \in Clients : chan[x] # None => chan'[x] = chan[x]
  PROVE  ServerTypeOK' /\ ServerShape' /\ LoopShape'
<1> USE DEF TypeInv, TypeOK, serverVars, loopVars
<1>1. ServerTypeOK'
  BY DEF ServerTypeOK
<1>2. ServerShape'
  BY DEF ServerShape, HandlersOfNamedDriver
<1>3. LoopShape'
  BY DEF LoopShape
<1>4. QED
  BY <1>1, <1>2, <1>3

LEMMA TypeCall ==
  ASSUME TypeInv, NEW c \in Clients, Call(c)
  PROVE  TypeInv'
<1> USE DEF TypeInv, TypeOK
<1>1. UNCHANGED <<driverVars, cacheVars, drvReg, json>>
  BY DEF Call, CreateDevice, UpdateDevice, RemoveDevice, dev_bind, dev_call, ManagerCall, Start,
         devmgr_create_device, devmgr_update_device, devmgr_remove_device, devmgrVars
<1>2. ServerTypeOK' /\ ServerShape' /\ LoopShape' /\ LoopTypeOK'
  BY <1>1, ServerUntouched DEF driverVars, LoopTypeOK, loopVars
<1>3. ASSUME NEW o \in ManagerOps, NEW d \in DevIds, ManagerCall(c, o, d),
             NEW x \in Eno \cup DevIds, ret' = [ret EXCEPT ![c] = x]
      PROVE  UserTypeOK' /\ UserShape'
  <2>1. UserTypeOK'
    BY <1>3, PlatformAssumption DEF ManagerCall, Ops, cacheVars, UserTypeOK
  <2>2. UserShape'
    BY <1>3 DEF ManagerCall, cacheVars, driverVars, UserTypeOK, UserShape
  <2>3. QED
    BY <2>1, <2>2
<1>4. CASE CreateDevice(c)
  <2>1. PICK d \in DevIds, s \in Settings :
           /\ ManagerCall(c, "create", d)
           /\ devmgr_create_device(d, OwnerJson(s))
           /\ ret' = [ret EXCEPT ![c] = d]
    BY <1>4 DEF CreateDevice
  <2>2. DevmgrTypeOK'
    BY <2>1, EmptyConfigType, OwnerJsonType, MergeType DEF devmgr_create_device, DevmgrTypeOK
  <2>3. QED
    BY <1>2, <1>3, <2>1, <2>2 DEF ManagerOps
<1>5. CASE UpdateDevice(c)
  <2>1. PICK d \in DevIds, s \in Settings :
           /\ ManagerCall(c, "update", d)
           /\ devmgr_update_device(d, OwnerJson(s))
           /\ ret' = [ret EXCEPT ![c] = IF reg[d] = None THEN ENO_NOTEXIST ELSE ENO_OK]
    BY <1>5 DEF UpdateDevice
  <2>2. DevmgrTypeOK'
    BY <2>1, OwnerJsonType, MergeType DEF devmgr_update_device, DevmgrTypeOK
  <2>3. QED
    BY <1>2, <1>3, <2>1, <2>2 DEF ManagerOps, Eno
<1>6. CASE RemoveDevice(c)
  <2>1. PICK d \in DevIds :
           /\ ManagerCall(c, "remove", d)
           /\ devmgr_remove_device(d)
           /\ ret' = [ret EXCEPT ![c] = ENO_OK]
    BY <1>6 DEF RemoveDevice
  <2>2. DevmgrTypeOK'
    BY <2>1 DEF devmgr_remove_device, DevmgrTypeOK
  <2>3. QED
    BY <1>2, <1>3, <2>1, <2>2 DEF ManagerOps, Eno
<1>7. ASSUME NEW o \in DeviceOps \cup {"bind"}, NEW d \in DevIds, NEW k \in DrvIds \cup {0},
             NEW at \in {"search_driver", "search_device"}, Start(c, o, d, k, at),
             at = "search_device" => o \in DeviceOps
      PROVE  DevmgrTypeOK' /\ UserTypeOK' /\ UserShape'
  <2> USE <1>7 DEF Start
  <2>1. DevmgrTypeOK'
    BY DEF DevmgrTypeOK, devmgrVars
  <2>2. UserTypeOK'
    BY PlatformAssumption DEF Ops, UserPcs, cacheVars, UserTypeOK
  <2>3. UserShape'
    BY DEF cacheVars, driverVars, UserTypeOK, UserShape
  <2>4. QED
    BY <2>1, <2>2, <2>3
<1>8. CASE dev_bind(c) \/ dev_call(c)
  <2>1. \/ \E d \in DevIds, r \in Drivers : Start(c, "bind", d, drvId[r], "search_driver")
        \/ \E o \in DeviceOps, d \in DevIds : Start(c, o, d, 0, "search_device")
    BY <1>8 DEF dev_bind, dev_call
  <2>2. DevmgrTypeOK' /\ UserTypeOK' /\ UserShape'
    BY <2>1, <1>7 DEF ServerTypeOK
  <2>3. QED
    BY <1>2, <2>2
<1>9. QED
  BY <1>4, <1>5, <1>6, <1>8 DEF Call

LEMMA TypeProceed ==
  ASSUME TypeInv, NEW c \in Clients, Proceed(c)
  PROVE  TypeInv'
<1> USE DEF TypeInv, TypeOK, Goto
<1>1. /\ UNCHANGED <<devmgrVars, serverVars, loopVars, op, dev, calls>>
      /\ chan' = chan \/ send(c)
      /\ pc[c] \in {"search_device", "query_device", "fill_device", "get_bind_id",
                    "search_driver", "query_driver", "fill_driver", "send", "wait"}
  BY DEF Proceed, search_device, query_device, fill_device, get_driver_id, search_driver,
         query_driver, fill_driver, send, receive, driverVars
<1>2. DevmgrTypeOK'
  BY <1>1 DEF DevmgrTypeOK, devmgrVars
<1>3. ServerTypeOK' /\ ServerShape' /\ LoopShape'
  <2>1. \A x \in Clients : chan[x] # None => chan'[x] = chan[x]
    BY <1>1 DEF send, UserShape, LoopTypeOK
  <2>2. QED
    BY <1>1, <2>1, ServerUntouched
<1>4. op[c] \in DeviceOps \cup {"bind"} /\ dev[c] \in DevIds
  BY <1>1 DEF UserShape
<1> USE <1>4
<1>5. CASE search_device(c)
  <2> USE <1>5 DEF search_device
  <2>1. UserTypeOK' /\ LoopTypeOK'
    BY DEF UserTypeOK, UserPcs, LoopTypeOK, cacheVars, driverVars, loopVars
  <2>2. UserShape'
    BY DEF UserTypeOK, UserShape, cacheVars, driverVars
  <2>3. QED
    BY <1>2, <1>3, <2>1, <2>2
<1>6. CASE query_device(c)
  <2> USE <1>6 DEF query_device
  <2>1. json' \in [Clients -> Config \cup Names \cup {None}]
    BY DEF UserTypeOK, DevmgrTypeOK
  <2>2. drv' \in [Clients -> DrvIds \cup {0, ENO_NOTEXIST}]
    BY DEF UserTypeOK
  <2>3. pc' \in [Clients -> UserPcs]
    BY DEF UserTypeOK, UserPcs
  <2>4. UserTypeOK' /\ LoopTypeOK'
    BY <2>1, <2>2, <2>3, Zenon DEF UserTypeOK, LoopTypeOK, cacheVars, driverVars, loopVars
  <2>5. UserShape'
    BY DEF UserTypeOK, UserShape, cacheVars, driverVars, DevmgrTypeOK
  <2>6. QED
    BY <1>2, <1>3, <2>4, <2>5
<1>7. CASE fill_device(c)
  <2> USE <1>7 DEF fill_device
  <2>1. Merge(EmptyConfig, json[c]) \in Config /\ Merge(EmptyConfig, json[c]) # None
    BY EmptyConfigType, MergeType, DevmgrAssumption DEF UserShape, Config
  <2>2. UserTypeOK' /\ LoopTypeOK'
    BY <2>1 DEF UserTypeOK, UserPcs, LoopTypeOK, driverVars, loopVars
  <2>3. UserShape'
    BY <2>1 DEF UserTypeOK, UserShape, driverVars
  <2>4. QED
    BY <1>2, <1>3, <2>2, <2>3
<1>8. CASE get_driver_id(c)
  <2> USE <1>8 DEF get_driver_id
  <2>1. get_bind_id(devCache[dev[c]]) \in DrvIds \cup {0}
    BY DEF get_bind_id, UserShape, UserTypeOK, Config
  <2>2. drv' \in [Clients -> DrvIds \cup {0, ENO_NOTEXIST}]
    BY <2>1 DEF UserTypeOK, Return
  <2>3. ret' \in [Clients -> Eno \cup DevIds \cup {None}]
    BY DEF UserTypeOK, Return, Eno
  <2>4. json' \in [Clients -> Config \cup Names \cup {None}]
    BY DEF UserTypeOK, Return
  <2>5. pc' \in [Clients -> UserPcs]
    BY DEF UserTypeOK, UserPcs, Return
  <2>6. UserTypeOK' /\ LoopTypeOK'
    BY <2>2, <2>3, <2>4, <2>5, Zenon DEF UserTypeOK, LoopTypeOK, cacheVars, driverVars, loopVars
  <2>7. UserShape'
    BY DEF UserTypeOK, UserShape, Return, cacheVars, driverVars
  <2>8. QED
    BY <1>2, <1>3, <2>6, <2>7
<1>9. CASE search_driver(c)
  <2> USE <1>9 DEF search_driver
  <2>1. UserTypeOK' /\ LoopTypeOK'
    BY DEF UserTypeOK, UserPcs, LoopTypeOK, cacheVars, driverVars, loopVars
  <2>2. UserShape'
    BY DEF UserTypeOK, UserShape, cacheVars, driverVars
  <2>3. QED
    BY <1>2, <1>3, <2>1, <2>2
<1>10. CASE query_driver(c)
  <2> USE <1>10 DEF query_driver, devmgr_query_driver
  <2>1. json' \in [Clients -> Config \cup Names \cup {None}]
    BY DEF UserTypeOK, DevmgrTypeOK, Return
  <2>2. drv' \in [Clients -> DrvIds \cup {0, ENO_NOTEXIST}]
    BY DEF UserTypeOK, Return
  <2>3. ret' \in [Clients -> Eno \cup DevIds \cup {None}]
    BY DEF UserTypeOK, Return, Eno
  <2>4. pc' \in [Clients -> UserPcs]
    BY DEF UserTypeOK, UserPcs, Return
  <2>5. UserTypeOK' /\ LoopTypeOK'
    BY <2>1, <2>2, <2>3, <2>4, Zenon DEF UserTypeOK, LoopTypeOK, cacheVars, driverVars, loopVars
  <2>6. UserShape'
    BY DEF UserTypeOK, UserShape, Return, cacheVars, driverVars, DevmgrTypeOK
  <2>7. QED
    BY <1>2, <1>3, <2>5, <2>6
<1>11. CASE fill_driver(c)
  <2> USE <1>11 DEF fill_driver
  <2>1. json[c] \in Names /\ json[c] # None /\ drv[c] \in DrvIds
    BY DevmgrAssumption DEF UserShape
  <2>2. UserTypeOK' /\ LoopTypeOK'
    BY <2>1 DEF UserTypeOK, UserPcs, LoopTypeOK, driverVars, loopVars
  <2>3. UserShape'
    BY <2>1 DEF UserTypeOK, UserShape, driverVars
  <2>4. QED
    BY <1>2, <1>3, <2>2, <2>3
<1>12. CASE send(c)
  <2> USE <1>12 DEF send
  <2>1. drvCache[drv[c]] \in Names /\ MethodOf(op[c]) \in Methods
    BY DEF MethodOf, Methods, DeviceOps, UserTypeOK, UserShape
  <2>2. UserTypeOK'
    BY DEF UserPcs, UserTypeOK, cacheVars
  <2>3. LoopTypeOK'
    BY <2>1 DEF Requests, LoopTypeOK, loopVars
  <2>4. UserShape'
    BY DEF UserTypeOK, LoopTypeOK, UserShape, cacheVars
  <2>5. QED
    BY <1>2, <1>3, <2>2, <2>3, <2>4
<1>13. CASE receive(c)
  <2> USE <1>13 DEF receive, Return
  <2>1. UserTypeOK'
    BY DEF UserTypeOK, UserPcs, LoopTypeOK, cacheVars
  <2>2. LoopTypeOK'
    BY DEF LoopTypeOK, loopVars
  <2>3. UserShape'
    BY DEF UserTypeOK, LoopTypeOK, UserShape, cacheVars
  <2>4. QED
    BY <1>2, <1>3, <2>1, <2>2, <2>3
<1>14. QED
  BY <1>5, <1>6, <1>7, <1>8, <1>9, <1>10, <1>11, <1>12, <1>13 DEF Proceed

LEMMA TypeNext == TypeInv /\ [Next]_vars => TypeInv'
<1> SUFFICES ASSUME TypeInv, [Next]_vars PROVE TypeInv'
  OBVIOUS
<1>1. CASE EntryStep
  BY <1>1, TypeEntry DEF EntryStep
<1>2. CASE LoopStep
  BY <1>2, TypeLoop
<1>3. CASE \E c \in Clients : TakeStep(c) \/ UserStep(c)
  BY <1>3, TypeTake, TypeCall, TypeProceed DEF UserStep
<1>4. CASE UNCHANGED vars
  BY <1>4
  DEF vars, devmgrVars, driverVars, serverVars, loopVars, cacheVars, userVars, TypeInv, TypeOK,
      DevmgrTypeOK, ServerTypeOK, LoopTypeOK, UserTypeOK, UserShape, ServerShape, LoopShape,
      HandlersOfNamedDriver
<1>5. QED
  BY <1>1, <1>2, <1>3, <1>4 DEF Next

(* No interleaving of users, entry threads and the loop thread puts a value  *)
(* of the wrong kind anywhere: in particular no thread parses, caches or     *)
(* sends what another thread's call left behind.                             *)
THEOREM PlatformTypeOK == Spec => []TypeOK
<1>1. TypeInv => TypeOK
  BY DEF TypeInv
<1>2. QED
  BY TypeInit, TypeNext, <1>1, PTL DEF Spec

(* The syscall table names a driver only under its own name and only once    *)
(* its id is published, whatever the entry threads of other drivers do.      *)
THEOREM PlatformHandlers == Spec => []HandlersOfNamedDriver
<1>1. TypeInv => HandlersOfNamedDriver
  BY DEF TypeInv, ServerShape
<1>2. QED
  BY TypeInit, TypeNext, <1>1, PTL DEF Spec

(***************************************************************************)
(* Routing: a binding always leads to its holder, and a routed call finds  *)
(* its device, when the device manager's ids do not repeat and no two      *)
(* drivers share a name (without either the code itself mixes drivers up). *)
(***************************************************************************)

DistinctDrivers ==
  /\ UniqueIds
  /\ \A q, r \in Drivers : NameOf[q] = NameOf[r] => q = r

(***************************************************************************)
(* The inductive invariant.                                                *)
(***************************************************************************)

(* An id belongs to one driver, which is also what the registry says. *)
IdsAreOwned ==
  /\ \A r \in Drivers :
       dpc[r] # "init" => newId[r] \in DrvIds /\ drvReg[newId[r]] = NameOf[r]
  /\ \A r \in Drivers :
       drvId[r] # 0 => dpc[r] # "init" /\ drvId[r] = newId[r]
  /\ \A k \in DrvIds :
       drvReg[k] # None => \E r \in Drivers : dpc[r] # "init" /\ newId[r] = k

(* The driver cache and the copy on its way into it are never stale: an      *)
(* entry of the registry is not replaced and keeps its name.                 *)
DriverCacheCurrent ==
  /\ \A k \in DrvIds : drvCache[k] # None => drvCache[k] = drvReg[k]
  /\ \A c \in Clients : pc[c] = "fill_driver" => json[c] = drvReg[drv[c]]

RequestsMatchCalls ==
  \A c \in Clients :
    chan[c] # None => /\ chan[c].name = drvReg[drv[c]]
                      /\ chan[c].method = MethodOf(op[c])
                      /\ chan[c].dev = dev[c]

(* What driver::bind carries from one of its steps to the next. *)
BindCarries ==
  lpc \in {"bind_update", "bind_add"}
    => snap.dri_id = drvId[ldri] /\ snap.config \in Matches[ldri]

(* The device JSON a thread holds between query_device and fill_device. *)
CopiesLeadToHolders ==
  \A c \in Clients :
    pc[c] = "fill_device" /\ json[c].dri_id # Absent
      => IdLeadsToHolder(json[c].dri_id, dev[c])

RoutingInv ==
  /\ IdsAreOwned
  /\ DriverCacheCurrent
  /\ RequestsMatchCalls
  /\ BindCarries
  /\ CopiesLeadToHolders
  /\ NoDanglingBinding
  /\ ListedDevicesMatch

(***************************************************************************)
(* What no step takes back.                                                *)
(***************************************************************************)
Persists ==
  /\ \A r \in Drivers : drvId[r] # 0 => drvId'[r] = drvId[r]
  /\ \A r \in Drivers, d \in DevIds : list[r][d] # None => list'[r][d] # None
  /\ \A k \in DrvIds : drvReg[k] # None => drvReg'[k] = drvReg[k]
  /\ lpc = "bind_add" =>
       \/ lpc' = lpc /\ ldri' = ldri /\ cur' = cur /\ chan'[cur] = chan[cur]
       \/ list'[ldri][chan[cur].dev] # None

LEMMA EntryPersists ==
  ASSUME TypeInv, IdsAreOwned, UniqueIds, NEW r \in Drivers, EntryThread(r)
  PROVE  Persists
<1> USE DEF TypeInv, TypeOK
<1>1. UNCHANGED <<list, lpc, ldri, cur, chan>>
  BY DEF EntryThread, CreateDriver, SetId, UpdateDriver, AddSyscall, loopVars
<1>2. \A q \in Drivers : drvId[q] # 0 => drvId'[q] = drvId[q]
  BY DEF EntryThread, CreateDriver, SetId, UpdateDriver, AddSyscall, IdsAreOwned, ServerTypeOK
<1>3. \A k \in DrvIds : drvReg[k] # None => drvReg'[k] = drvReg[k]
  <2>1. CASE CreateDriver(r)
    BY <2>1 DEF CreateDriver, devmgr_create_driver, DevmgrTypeOK
  <2>2. CASE UpdateDriver(r)
    <3>1. drvId[r] # 0
      BY <2>2 DEF UpdateDriver, ServerShape
    <3>2. drvReg[drvId[r]] = NameOf[r]
      BY <3>1 DEF IdsAreOwned
    <3>3. QED
      BY <2>2, <3>2 DEF UpdateDriver, devmgr_update_driver, DevmgrTypeOK
  <2>3. CASE SetId(r) \/ AddSyscall(r)
    BY <2>3 DEF SetId, AddSyscall, devmgrVars
  <2>4. QED
    BY <2>1, <2>2, <2>3 DEF EntryThread
<1>4. QED
  BY <1>1, <1>2, <1>3 DEF Persists

LEMMA LoopPersists ==
  ASSUME TypeInv, LoopStep
  PROVE  Persists
<1> USE DEF TypeInv, TypeOK, LoopStep
<1>1. UNCHANGED <<drvId, drvReg>>
  BY DEF LoopStarts, LoopBinds, SetLocalIpc, RegisterCallback, RefuseBind, AcceptBind,
         UpdateBoundDevice, AddBoundDevice, devmgr_update_device, devmgrVars, serverVars
<1>2. CASE AddBoundDevice
  <2>1. /\ chan[cur] \in Requests /\ chan[cur].dev \in DevIds /\ ldri \in Drivers
        /\ snap # None
    BY <1>2, DevmgrAssumption DEF AddBoundDevice, LoopTypeOK, LoopShape, Requests, Config
  <2>2. /\ \A r \in Drivers, d \in DevIds : list[r][d] # None => list'[r][d] # None
        /\ list'[ldri][chan[cur].dev] # None
    BY <1>2, <2>1 DEF AddBoundDevice, ServerTypeOK
  <2>3. QED
    BY <1>1, <2>2 DEF Persists
<1>3. CASE ~AddBoundDevice
  <2>1. UNCHANGED list /\ lpc # "bind_add"
    BY <1>3 DEF LoopStarts, LoopBinds, SetLocalIpc, RegisterCallback, RefuseBind, AcceptBind,
                UpdateBoundDevice, serverVars
  <2>2. QED
    BY <1>1, <2>1 DEF Persists
<1>4. QED
  BY <1>2, <1>3

LEMMA UserPersists ==
  ASSUME TypeInv, UNCHANGED <<drvReg, serverVars, loopVars>>,
         \A x \in Clients : chan[x] # None => chan'[x] = chan[x]
  PROVE  Persists
BY DEF Persists, serverVars, loopVars, TypeInv, LoopShape

LEMMA HolderPersists ==
  ASSUME TypeInv, Persists, NEW k, NEW d \in DevIds, IdLeadsToHolder(k, d)
  PROVE  IdLeadsToHolder(k, d)'
<1>1. PICK r \in Drivers : drvId[r] = k /\ HoldsOrAdding(r, d)
  BY DEF IdLeadsToHolder
<1>2. k # 0 /\ drvId'[r] = k
  BY <1>1 DEF IdLeadsToHolder, Persists
<1>3. HoldsOrAdding(r, d)'
  BY <1>1 DEF HoldsOrAdding, Persists
<1>4. QED
  BY <1>2, <1>3 DEF IdLeadsToHolder

(***************************************************************************)
(* Each actor keeps the invariant.                                         *)
(***************************************************************************)
LEMMA UsersKeep ==
  ASSUME TypeInv, RoutingInv, Persists, UNCHANGED <<cacheVars, userVars>>,
         \A c \in Clients : chan'[c] = chan[c] \/ chan'[c] = None
  PROVE  DriverCacheCurrent' /\ RequestsMatchCalls' /\ CopiesLeadToHolders'
         /\ CacheBindings' /\ ThreadBindings'
<1> USE DEF cacheVars, userVars
<1>1. DriverCacheCurrent'
  <2>1. \A k \in DrvIds : drvCache'[k] # None => drvCache'[k] = drvReg'[k]
    BY DEF RoutingInv, DriverCacheCurrent, Persists
  <2>2. \A c \in Clients : pc[c] = "fill_driver" => drv[c] \in DrvIds /\ json[c] # None
    BY DevmgrAssumption DEF TypeInv, UserShape
  <2>3. \A c \in Clients : pc'[c] = "fill_driver" => json'[c] = drvReg'[drv'[c]]
    BY <2>2 DEF RoutingInv, DriverCacheCurrent, Persists
  <2>4. QED
    BY <2>1, <2>3 DEF DriverCacheCurrent
<1>2. RequestsMatchCalls'
  BY DEF RoutingInv, RequestsMatchCalls, DriverCacheCurrent, Persists, TypeInv, UserShape
<1>3. CopiesLeadToHolders'
  BY HolderPersists DEF RoutingInv, CopiesLeadToHolders, TypeInv, UserShape
<1>4. CacheBindings'
  BY HolderPersists DEF RoutingInv, NoDanglingBinding, CacheBindings
<1>5. ThreadBindings'
  BY HolderPersists DEF RoutingInv, NoDanglingBinding, ThreadBindings, TypeInv, UserShape
<1>6. QED
  BY <1>1, <1>2, <1>3, <1>4, <1>5

LEMMA ServerKeeps ==
  ASSUME TypeInv, RoutingInv, UNCHANGED <<drvReg, serverVars, loopVars>>
  PROVE  IdsAreOwned' /\ BindCarries' /\ ListedDevicesMatch'
<1> USE DEF serverVars, loopVars
<1>1. IdsAreOwned'
  BY DEF RoutingInv, IdsAreOwned
<1>2. BindCarries' /\ ListedDevicesMatch'
  BY DEF RoutingInv, BindCarries, ListedDevicesMatch
<1>3. QED
  BY <1>1, <1>2

LEMMA RoutingEntry ==
  ASSUME TypeInv, RoutingInv, DistinctDrivers,
         NEW r \in Drivers, EntryThread(r), UNCHANGED <<cacheVars, userVars>>
  PROVE  RoutingInv'
<1> USE DEF TypeInv, TypeOK
<1>1. Persists
  BY EntryPersists DEF RoutingInv, DistinctDrivers
<1>2. UNCHANGED <<reg, list, lpc, ldri, snap, chan>>
  BY DEF EntryThread, CreateDriver, SetId, UpdateDriver, AddSyscall, loopVars,
         devmgr_create_driver, devmgr_update_driver, devmgrVars
<1>3. /\ DriverCacheCurrent' /\ RequestsMatchCalls' /\ CopiesLeadToHolders'
      /\ CacheBindings' /\ ThreadBindings'
  BY <1>1, <1>2, UsersKeep
<1>4. RegistryBindings'
  BY <1>1, <1>2, HolderPersists DEF RoutingInv, NoDanglingBinding, RegistryBindings
<1>5. BindCarries' /\ ListedDevicesMatch'
  BY <1>1, <1>2
  DEF RoutingInv, BindCarries, ListedDevicesMatch, Persists, LoopShape, LoopTypeOK
<1>6. IdsAreOwned'
  <2>1. CASE CreateDriver(r)
    <3>1. PICK k \in DrvIds :
            /\ devmgr_create_driver(k, NameOf[r])
            /\ newId' = [newId EXCEPT ![r] = k]
            /\ dpc' = [dpc EXCEPT ![r] = IF k = 0 THEN "unregistered" ELSE "set_id"]
      BY <2>1 DEF CreateDriver
    <3>2. drvReg[k] = None /\ drvReg' = [drvReg EXCEPT ![k] = NameOf[r]]
      BY <3>1 DEF devmgr_create_driver, DistinctDrivers
    <3>3. \A q \in Drivers \ {r} : newId'[q] = newId[q] /\ dpc'[q] = dpc[q]
      BY <3>1 DEF ServerTypeOK
    <3>4. newId'[r] = k /\ dpc'[r] # "init" /\ dpc[r] = "init" /\ drvId' = drvId
      BY <2>1, <3>1 DEF ServerTypeOK, CreateDriver
    <3>5. NameOf[r] # None /\ \A q \in Drivers : NameOf[q] # None
      BY DriverAssumption, DevmgrAssumption
    <3>6. QED
      BY <3>2, <3>3, <3>4, <3>5 DEF IdsAreOwned, RoutingInv, DevmgrTypeOK
  <2>2. CASE SetId(r)
    BY <2>2 DEF SetId, devmgrVars, IdsAreOwned, RoutingInv, ServerTypeOK
  <2>3. CASE UpdateDriver(r)
    <3>1. \A k \in DrvIds : drvReg[k] = None => drvReg'[k] = None
      BY <2>3 DEF UpdateDriver, devmgr_update_driver, DevmgrTypeOK
    <3>2. /\ UNCHANGED <<newId, drvId>> /\ dpc' = [dpc EXCEPT ![r] = "syscalls"]
          /\ dpc[r] = "update"
      BY <2>3 DEF UpdateDriver
    <3>3. \A q \in Drivers : dpc'[q] # "init" <=> dpc[q] # "init"
      BY <3>2 DEF ServerTypeOK
    <3>4. \A q \in Drivers : NameOf[q] # None
      BY DriverAssumption, DevmgrAssumption
    <3>5. QED
      BY <1>1, <3>1, <3>2, <3>3, <3>4 DEF IdsAreOwned, RoutingInv, Persists
  <2>4. CASE AddSyscall(r)
    BY <2>4 DEF AddSyscall, devmgrVars, IdsAreOwned, RoutingInv
  <2>5. QED
    BY <2>1, <2>2, <2>3, <2>4 DEF EntryThread
<1>7. QED
  BY <1>3, <1>4, <1>5, <1>6 DEF RoutingInv, NoDanglingBinding

LEMMA RoutingTake ==
  ASSUME TypeInv, RoutingInv, NEW c \in Clients, TakeStep(c)
  PROVE  RoutingInv'
<1>1. /\ UNCHANGED <<devmgrVars, serverVars, cacheVars, userVars>>
      /\ \A x \in Clients : chan'[x] = chan[x] \/ chan'[x] = None
      /\ lpc = "idle" /\ lpc' \in {"idle", "bind_query"}
  BY DEF TakeStep, LoopTakes, RejectUnknown, ServeDevice, BeginBind, Answer, loopVars,
         TypeInv, TypeOK, LoopTypeOK
<1>2. Persists
  BY <1>1 DEF Persists, devmgrVars, serverVars
<1>3. /\ DriverCacheCurrent' /\ RequestsMatchCalls' /\ CopiesLeadToHolders'
      /\ CacheBindings' /\ ThreadBindings'
  BY <1>1, <1>2, UsersKeep
<1>4. RegistryBindings'
  BY <1>1, <1>2, HolderPersists DEF RoutingInv, NoDanglingBinding, RegistryBindings, devmgrVars
<1>5. IdsAreOwned' /\ ListedDevicesMatch'
  BY <1>1 DEF RoutingInv, IdsAreOwned, ListedDevicesMatch, devmgrVars, serverVars
<1>6. BindCarries'
  BY <1>1 DEF BindCarries
<1>7. QED
  BY <1>3, <1>4, <1>5, <1>6 DEF RoutingInv, NoDanglingBinding

LEMMA RoutingLoop ==
  ASSUME TypeInv, TypeInv', RoutingInv, LoopStep
  PROVE  RoutingInv'
<1>1. Persists
  BY LoopPersists
<1>2. /\ UNCHANGED <<cacheVars, userVars, drvReg, dpc, newId, drvId>>
      /\ \A x \in Clients : chan'[x] = chan[x] \/ chan'[x] = None
  BY DEF LoopStep, LoopStarts, LoopBinds, SetLocalIpc, RegisterCallback, RefuseBind, AcceptBind,
         UpdateBoundDevice, AddBoundDevice, EndBind, Answer, devmgr_update_device,
         devmgrVars, serverVars, TypeInv, TypeOK, LoopTypeOK
<1>3. /\ DriverCacheCurrent' /\ RequestsMatchCalls' /\ CopiesLeadToHolders'
      /\ CacheBindings' /\ ThreadBindings'
  BY <1>1, <1>2, UsersKeep
<1>4. IdsAreOwned'
  BY <1>2 DEF RoutingInv, IdsAreOwned
<1>5. RegistryBindings' /\ BindCarries' /\ ListedDevicesMatch'
  <2>1. CASE SetLocalIpc \/ RegisterCallback \/ RefuseBind
    <3>1. UNCHANGED <<reg, list>> /\ lpc' \in {"register", "idle"}
      BY <2>1 DEF SetLocalIpc, RegisterCallback, RefuseBind, EndBind, devmgrVars, serverVars
    <3>2. QED
      BY <1>1, <3>1, HolderPersists
      DEF RoutingInv, NoDanglingBinding, RegistryBindings, BindCarries, ListedDevicesMatch
  <2>2. CASE LoopBinds /\ ~RefuseBind
    <3>1. /\ chan[cur] \in Requests /\ chan[cur].dev \in DevIds /\ cur \in Clients
          /\ ldri \in Drivers /\ drvId[ldri] \in DrvIds \ {0}
      BY <2>2 DEF LoopBinds, AcceptBind, UpdateBoundDevice, AddBoundDevice,
                  TypeInv, TypeOK, LoopTypeOK, LoopShape, Requests, ServerTypeOK
    <3>2. CASE AcceptBind
      <4>1. UNCHANGED <<reg, list, ldri>>
        BY <3>2 DEF AcceptBind, devmgrVars, serverVars
      <4>2. /\ snap'.dri_id = drvId[ldri]
            /\ snap'.config = ParsedDevice(chan[cur].dev).config
        BY <3>1, <3>2, ParsedDeviceType, SetBindIdType DEF AcceptBind
      <4>3. QED
        BY <1>1, <1>2, <3>2, <4>1, <4>2, HolderPersists
        DEF AcceptBind, RoutingInv, NoDanglingBinding, RegistryBindings, BindCarries,
            ListedDevicesMatch
    <3>3. CASE UpdateBoundDevice
      <4>1. BindCarries' /\ ListedDevicesMatch'
        BY <3>3
        DEF UpdateBoundDevice, serverVars, RoutingInv, BindCarries, ListedDevicesMatch
      <4>2. RegistryBindings'
        <5> SUFFICES ASSUME NEW d \in DevIds, reg'[d] # None, reg'[d].dri_id # Absent
                     PROVE  IdLeadsToHolder(reg[d].dri_id, d)'
          BY DEF RegistryBindings
        <5>1. CASE d = chan[cur].dev
          <6>1. reg'[d] = Merge(reg[d], snap)
            BY <3>3, <5>1
            DEF UpdateBoundDevice, devmgr_update_device, TypeInv, TypeOK, DevmgrTypeOK
          <6>2. snap.dri_id = drvId[ldri] /\ drvId[ldri] # Absent
            BY <3>1, <3>3, DevmgrAssumption DEF UpdateBoundDevice, RoutingInv, BindCarries
          <6>3. reg'[d].dri_id = drvId[ldri]
            BY <6>1, <6>2 DEF Merge
          <6>4. HoldsOrAdding(ldri, d)' /\ ldri' = ldri
            BY <3>3, <5>1 DEF UpdateBoundDevice, HoldsOrAdding
          <6>5. QED
            BY <1>2, <3>1, <6>3, <6>4 DEF IdLeadsToHolder
        <5>2. CASE d # chan[cur].dev
          <6>1. reg'[d] = reg[d]
            BY <3>1, <3>3, <5>2
            DEF UpdateBoundDevice, devmgr_update_device, TypeInv, TypeOK, DevmgrTypeOK
          <6>2. QED
            BY <1>1, <6>1, HolderPersists DEF RoutingInv, NoDanglingBinding, RegistryBindings
        <5>3. QED
          BY <5>1, <5>2
      <4>3. QED
        BY <4>1, <4>2
    <3>4. CASE AddBoundDevice
      <4>1. UNCHANGED reg /\ lpc' = "idle"
        BY <3>4 DEF AddBoundDevice, EndBind, devmgrVars
      <4>2. RegistryBindings' /\ BindCarries'
        BY <1>1, <4>1, HolderPersists
        DEF RoutingInv, NoDanglingBinding, RegistryBindings, BindCarries
      <4>3. ListedDevicesMatch'
        BY <3>1, <3>4
        DEF AddBoundDevice, RoutingInv, BindCarries, ListedDevicesMatch, TypeInv, TypeOK,
            ServerTypeOK
      <4>4. QED
        BY <4>2, <4>3
    <3>5. QED
      BY <2>2, <3>2, <3>3, <3>4 DEF LoopBinds
  <2>3. QED
    BY <2>1, <2>2 DEF LoopStep, LoopStarts, LoopBinds
<1>6. QED
  BY <1>3, <1>4, <1>5 DEF RoutingInv, NoDanglingBinding

LEMMA RoutingCall ==
  ASSUME TypeInv, TypeInv', RoutingInv, DistinctDrivers, NEW c \in Clients, Call(c)
  PROVE  RoutingInv'
<1> USE DEF TypeInv, TypeOK
<1>1. UNCHANGED <<driverVars, cacheVars, drvReg, json>>
  BY DEF Call, CreateDevice, UpdateDevice, RemoveDevice, dev_bind, dev_call, ManagerCall, Start,
         devmgr_create_device, devmgr_update_device, devmgr_remove_device, devmgrVars
<1>2. Persists
  BY <1>1, UserPersists DEF driverVars
<1>3. IdsAreOwned' /\ BindCarries' /\ ListedDevicesMatch'
  BY <1>1, ServerKeeps DEF driverVars
<1>4. /\ pc[c] = "idle" /\ pc'[c] \in {"idle", "search_driver", "search_device"}
      /\ \A x \in Clients \ {c} : /\ pc'[x] = pc[x] /\ op'[x] = op[x]
                                  /\ dev'[x] = dev[x] /\ drv'[x] = drv[x]
      /\ pc'[c] # "idle" /\ op'[c] # "bind" => drv'[c] = 0
  BY DEF Call, CreateDevice, UpdateDevice, RemoveDevice, dev_bind, dev_call, ManagerCall, Start,
         DeviceOps, UserTypeOK
<1>5. DriverCacheCurrent'
  BY <1>1, <1>4 DEF RoutingInv, DriverCacheCurrent, cacheVars
<1>6. RequestsMatchCalls'
  BY <1>1, <1>4 DEF RoutingInv, RequestsMatchCalls, UserShape, driverVars
<1>7. CopiesLeadToHolders'
  BY <1>1, <1>2, <1>4, HolderPersists DEF RoutingInv, CopiesLeadToHolders, UserShape
<1>8. CacheBindings'
  BY <1>1, <1>2, HolderPersists DEF RoutingInv, NoDanglingBinding, CacheBindings, cacheVars
<1>9. ThreadBindings'
  BY <1>2, <1>4, HolderPersists DEF RoutingInv, NoDanglingBinding, ThreadBindings, UserShape
<1>10. RegistryBindings'
  <2> SUFFICES ASSUME NEW d \in DevIds, reg'[d] # None, reg'[d].dri_id # Absent
               PROVE  reg[d] # None /\ reg[d].dri_id # Absent /\ reg'[d].dri_id = reg[d].dri_id
    BY <1>2, HolderPersists DEF RoutingInv, NoDanglingBinding, RegistryBindings
  <2>1. CASE dev_bind(c) \/ dev_call(c)
    BY <2>1 DEF dev_bind, dev_call, Start, devmgrVars
  <2>2. CASE CreateDevice(c)
    BY <2>2 DEF CreateDevice, devmgr_create_device, Merge, OwnerJson, EmptyConfig, DevmgrTypeOK
  <2>3. CASE UpdateDevice(c)
    BY <2>3 DEF UpdateDevice, devmgr_update_device, Merge, OwnerJson, DevmgrTypeOK
  <2>4. CASE RemoveDevice(c)
    BY <2>4 DEF RemoveDevice, devmgr_remove_device, DevmgrTypeOK
  <2>5. QED
    BY <2>1, <2>2, <2>3, <2>4 DEF Call
<1>11. QED
  BY <1>3, <1>5, <1>6, <1>7, <1>8, <1>9, <1>10 DEF RoutingInv, NoDanglingBinding

LEMMA RoutingProceed ==
  ASSUME TypeInv, TypeInv', RoutingInv, NEW c \in Clients, Proceed(c)
  PROVE  RoutingInv'
<1> USE DEF TypeInv, TypeOK
<1>1. /\ UNCHANGED <<devmgrVars, serverVars, loopVars, op, dev, calls>>
      /\ chan' = chan \/ send(c)
      /\ pc[c] # "idle" /\ op[c] \in Ops /\ dev[c] \in DevIds
      /\ \A x \in Clients \ {c} : pc'[x] = pc[x] /\ drv'[x] = drv[x] /\ json'[x] = json[x]
  BY DEF Proceed, search_device, query_device, fill_device, get_driver_id, search_driver,
         query_driver, fill_driver, send, receive, driverVars, Goto, Return, UserTypeOK, UserShape,
         Ops
<1>2. \A x \in Clients : chan[x] # None => chan'[x] = chan[x]
  BY <1>1 DEF send, UserShape, LoopTypeOK
<1>3. Persists
  BY <1>1, <1>2, UserPersists DEF devmgrVars
<1>4. IdsAreOwned' /\ BindCarries' /\ ListedDevicesMatch'
  BY <1>1, ServerKeeps DEF devmgrVars
<1>5. RegistryBindings'
  BY <1>1, <1>3, HolderPersists DEF RoutingInv, NoDanglingBinding, RegistryBindings, devmgrVars
<1>6. DriverCacheCurrent'
  <2>1. \A k \in DrvIds : drvCache'[k] # None => drvCache'[k] = drvReg[k]
    <3>1. CASE fill_driver(c)
      BY <3>1 DEF fill_driver, RoutingInv, DriverCacheCurrent, UserTypeOK
    <3>2. CASE ~fill_driver(c)
      <4>1. drvCache' = drvCache
        BY <3>2 DEF Proceed, search_device, query_device, fill_device, get_driver_id,
                    search_driver, query_driver, send, receive, cacheVars
      <4>2. QED
        BY <4>1 DEF RoutingInv, DriverCacheCurrent
    <3>3. QED
      BY <3>1, <3>2
  <2>2. pc'[c] = "fill_driver" => json'[c] = drvReg[drv'[c]]
    <3>1. CASE query_driver(c)
      BY <3>1
      DEF query_driver, devmgr_query_driver, Goto, Return, UserTypeOK
    <3>2. CASE ~query_driver(c)
      BY <3>2 DEF Proceed, search_device, query_device, fill_device, get_driver_id,
                  search_driver, fill_driver, send, receive, Goto, Return, UserTypeOK
    <3>3. QED
      BY <3>1, <3>2
  <2>3. QED
    BY <1>1, <2>1, <2>2 DEF RoutingInv, DriverCacheCurrent, devmgrVars
<1>7. RequestsMatchCalls'
  <2> SUFFICES ASSUME NEW x \in Clients, chan'[x] # None
               PROVE  /\ chan'[x].name = drvReg[drv'[x]]
                      /\ chan'[x].method = MethodOf(op[x])
                      /\ chan'[x].dev = dev[x]
    BY <1>1 DEF RequestsMatchCalls, MethodOf, devmgrVars
  <2>1. CASE send(c) /\ x = c
    BY <2>1 DEF send, RoutingInv, DriverCacheCurrent, UserShape, LoopTypeOK
  <2>2. CASE ~(send(c) /\ x = c)
    <3>1. chan[x] # None /\ chan'[x] = chan[x]
      BY <1>1, <2>2 DEF send, LoopTypeOK
    <3>2. drv'[x] = drv[x]
      <4>1. CASE x # c
        BY <1>1, <4>1
      <4>2. CASE x = c
        BY <3>1, <4>2 DEF UserShape, Proceed, search_device, query_device, fill_device,
           get_driver_id, search_driver, query_driver, fill_driver, send, receive
      <4>3. QED
        BY <4>1, <4>2
    <3>3. QED
      BY <3>1, <3>2 DEF RoutingInv, RequestsMatchCalls
  <2>3. QED
    BY <2>1, <2>2
<1>8. CopiesLeadToHolders'
  <2>1. pc'[c] = "fill_device" /\ json'[c].dri_id # Absent
          => IdLeadsToHolder(json[c].dri_id, dev[c])'
    <3>1. CASE query_device(c)
      <4>1. pc'[c] = "fill_device" => json'[c] = reg[dev[c]] /\ reg[dev[c]] # None
        BY <3>1 DEF query_device, Goto, UserTypeOK
      <4>2. QED
        BY <1>1, <1>5, <4>1 DEF RegistryBindings, devmgrVars
    <3>2. CASE ~query_device(c)
      BY <3>2 DEF Proceed, search_device, fill_device, get_driver_id, query_driver,
                  search_driver, fill_driver, send, receive, Goto, Return, UserTypeOK
    <3>3. QED
      BY <3>1, <3>2
  <2>2. ASSUME NEW x \in Clients \ {c}, pc'[x] = "fill_device", json'[x].dri_id # Absent
        PROVE  IdLeadsToHolder(json[x].dri_id, dev[x])'
    <3>1. IdLeadsToHolder(json[x].dri_id, dev[x]) /\ dev[x] \in DevIds
      BY <1>1, <2>2 DEF RoutingInv, CopiesLeadToHolders, UserShape
    <3>2. QED
      BY <1>1, <1>3, <3>1, HolderPersists
  <2>3. QED
    BY <2>1, <2>2 DEF CopiesLeadToHolders
<1>9. CacheBindings'
  <2> SUFFICES ASSUME NEW d \in DevIds, devCache'[d] # None, devCache'[d].dri_id # Absent
               PROVE  IdLeadsToHolder(devCache[d].dri_id, d)'
    BY DEF CacheBindings
  <2>1. CASE fill_device(c) /\ d = dev[c]
    <3>1. devCache'[d].dri_id = json[c].dri_id
      BY <2>1 DEF fill_device, Merge, EmptyConfig, UserTypeOK
    <3>2. IdLeadsToHolder(json[c].dri_id, dev[c])
      BY <2>1, <3>1 DEF fill_device, RoutingInv, CopiesLeadToHolders
    <3>3. QED
      BY <1>1, <1>3, <2>1, <3>1, <3>2, HolderPersists
  <2>2. CASE ~(fill_device(c) /\ d = dev[c])
    <3>1. devCache'[d] = devCache[d]
      BY <2>2 DEF Proceed, search_device, query_device, fill_device, get_driver_id,
                  search_driver, query_driver, fill_driver, send, receive, cacheVars, UserTypeOK
    <3>2. QED
      BY <1>3, <3>1, HolderPersists DEF RoutingInv, NoDanglingBinding, CacheBindings
  <2>3. QED
    BY <2>1, <2>2
<1>10. ThreadBindings'
  <2>1. pc'[c] # "idle" /\ op[c] # "bind" /\ drv'[c] \in DrvIds \ {0}
          => IdLeadsToHolder(drv'[c], dev[c])
    <3>1. CASE get_driver_id(c)
      <4>1. pc'[c] # "idle" => drv'[c] = get_bind_id(devCache[dev[c]])
        BY <3>1 DEF get_driver_id, Goto, Return, UserTypeOK
      <4>2. devCache[dev[c]] # None
        BY <3>1 DEF get_driver_id, UserShape
      <4>3. QED
        BY <1>1, <4>1, <4>2
        DEF get_bind_id, RoutingInv, NoDanglingBinding, CacheBindings
    <3>2. CASE query_device(c)
      <4>1. drv'[c] = drv[c] \/ drv'[c] = ENO_NOTEXIST
        BY <3>2 DEF query_device, UserTypeOK
      <4>2. ENO_NOTEXIST \notin DrvIds
        BY DevmgrAssumption DEF ENO_NOTEXIST
      <4>3. QED
        BY <1>1, <4>1, <4>2 DEF RoutingInv, NoDanglingBinding, ThreadBindings
    <3>3. CASE ~get_driver_id(c) /\ ~query_device(c)
      <4>1. drv'[c] = drv[c] \/ pc'[c] = "idle"
        BY <3>3 DEF Proceed, search_device, fill_device, search_driver, query_driver, fill_driver,
                    send, receive, Return, UserTypeOK
      <4>2. QED
        BY <1>1, <4>1 DEF RoutingInv, NoDanglingBinding, ThreadBindings
    <3>4. QED
      BY <3>1, <3>2, <3>3
  <2>2. ASSUME NEW x \in Clients, pc'[x] # "idle", op'[x] # "bind", drv'[x] \in DrvIds \ {0}
        PROVE  IdLeadsToHolder(drv[x], dev[x])'
    <3>1. IdLeadsToHolder(drv'[x], dev[x]) /\ dev[x] \in DevIds
      BY <1>1, <2>1, <2>2 DEF RoutingInv, NoDanglingBinding, ThreadBindings, UserShape
    <3>2. QED
      BY <1>1, <1>3, <3>1, HolderPersists
  <2>3. QED
    BY <2>2 DEF ThreadBindings
<1>11. QED
  BY <1>4, <1>5, <1>6, <1>7, <1>8, <1>9, <1>10 DEF RoutingInv, NoDanglingBinding

LEMMA RoutingInit == Init => RoutingInv
BY DEF Init, DevmgrInit, DriverInit, RoutingInv, IdsAreOwned, DriverCacheCurrent,
       RequestsMatchCalls, BindCarries, CopiesLeadToHolders, NoDanglingBinding, RegistryBindings,
       CacheBindings, ThreadBindings, ListedDevicesMatch

LEMMA RoutingNext ==
  ASSUME TypeInv, RoutingInv, DistinctDrivers, [Next]_vars
  PROVE  RoutingInv'
<1>1. TypeInv'
  BY TypeNext
<1>2. CASE EntryStep
  BY <1>2, RoutingEntry DEF EntryStep
<1>3. CASE LoopStep
  BY <1>1, <1>3, RoutingLoop
<1>4. CASE \E c \in Clients : TakeStep(c) \/ UserStep(c)
  BY <1>1, <1>4, RoutingTake, RoutingCall, RoutingProceed DEF UserStep
<1>5. CASE UNCHANGED vars
  <2> USE <1>5 DEF vars, devmgrVars, driverVars, serverVars, loopVars, cacheVars, userVars
  <2>1. IdsAreOwned' /\ DriverCacheCurrent' /\ RequestsMatchCalls' /\ BindCarries'
        /\ ListedDevicesMatch'
    BY DEF RoutingInv, IdsAreOwned, DriverCacheCurrent, RequestsMatchCalls, BindCarries,
           ListedDevicesMatch
  <2>2. CopiesLeadToHolders' /\ NoDanglingBinding'
    BY DEF RoutingInv, CopiesLeadToHolders, NoDanglingBinding, RegistryBindings, CacheBindings,
           ThreadBindings, IdLeadsToHolder, HoldsOrAdding
  <2>3. QED
    BY <2>1, <2>2 DEF RoutingInv
<1>6. QED
  BY <1>2, <1>3, <1>4, <1>5 DEF Next

(***************************************************************************)
(* From the invariant to the payoff.                                       *)
(***************************************************************************)
LEMMA RoutedCallArrives ==
  ASSUME TypeInv, RoutingInv, DistinctDrivers
  PROVE  RoutedCallFindsDevice
<1> USE DEF TypeInv, TypeOK
<1> SUFFICES ASSUME NEW c \in Clients, lpc = "idle", chan[c] # None,
                    chan[c].method # "bind", find(chan[c]) # None
             PROVE  list[find(chan[c])][chan[c].dev] # None
  BY DEF RoutedCallFindsDevice
<1> DEFINE q == find(chan[c])
<1>1. /\ pc[c] = "wait" /\ chan[c] \in Requests /\ drv[c] \in DrvIds
      /\ chan[c].name = drvReg[drv[c]] /\ chan[c].dev = dev[c] /\ op[c] # "bind"
  BY DEF RoutingInv, RequestsMatchCalls, MethodOf, UserShape, LoopTypeOK
<1>2. q \in Drivers /\ NameOf[q] = drvReg[drv[c]] /\ drvId[q] # 0
  BY <1>1 DEF find, Requests, ServerTypeOK, ServerShape, HandlersOfNamedDriver
<1>3. drvReg[drv[c]] # None
  BY <1>1, DevmgrAssumption DEF Requests
<1>4. PICK r \in Drivers : dpc[r] # "init" /\ newId[r] = drv[c]
  BY <1>1, <1>3 DEF RoutingInv, IdsAreOwned
<1>5. r = q /\ drvId[q] = drv[c]
  BY <1>2, <1>4 DEF RoutingInv, IdsAreOwned, DistinctDrivers
<1>6. IdLeadsToHolder(drv[c], dev[c])
  BY <1>1, <1>2, <1>5 DEF RoutingInv, NoDanglingBinding, ThreadBindings
<1>7. PICK h \in Drivers : drvId[h] = drv[c] /\ list[h][dev[c]] # None
  BY <1>6 DEF IdLeadsToHolder, HoldsOrAdding
<1>8. h = q
  BY <1>2, <1>5, <1>7 DEF RoutingInv, IdsAreOwned, DistinctDrivers
<1>9. QED
  BY <1>1, <1>7, <1>8

LEMMA RoutingAlways == DistinctDrivers /\ Spec => [](TypeInv /\ RoutingInv /\ DistinctDrivers)
<1>1. DistinctDrivers /\ Init => TypeInv /\ RoutingInv /\ DistinctDrivers
  BY TypeInit, RoutingInit
<1>2. TypeInv /\ RoutingInv /\ DistinctDrivers /\ [Next]_vars
        => (TypeInv /\ RoutingInv /\ DistinctDrivers)'
  BY TypeNext, RoutingNext DEF DistinctDrivers
<1>3. QED
  BY <1>1, <1>2, PTL DEF Spec

(* The registry, the stale cache and the copies threads work on name, for    *)
(* any number of threads, drivers and devices, only holders of the device.   *)
THEOREM BindingLeadsToHolder == DistinctDrivers /\ Spec => []NoDanglingBinding
<1>1. RoutingInv => NoDanglingBinding
  BY DEF RoutingInv
<1>2. QED
  BY RoutingAlways, <1>1, PTL

(* No call the loop thread serves under a driver's name misses the device:   *)
(* the unlocked caches and the late add_device of driver::bind are harmless. *)
THEOREM RoutedCallIsServed == DistinctDrivers /\ Spec => []RoutedCallFindsDevice
<1>1. TypeInv /\ RoutingInv /\ DistinctDrivers => RoutedCallFindsDevice
  BY RoutedCallArrives
<1>2. QED
  BY RoutingAlways, <1>1, PTL

(* A driver works on the copy it checked, never on what an owner wrote       *)
(* between the check and add_device.                                         *)
THEOREM ListedIsAccepted == DistinctDrivers /\ Spec => []ListedDevicesMatch
<1>1. RoutingInv => ListedDevicesMatch
  BY DEF RoutingInv
<1>2. QED
  BY RoutingAlways, <1>1, PTL

(* An owner's update merges, and a bind writes back what it read or more: no *)
(* step takes the dri_id of a device that stays.                             *)
THEOREM BindingIsNotLost == DistinctDrivers /\ Spec => BindingSurvivesUpdates
<1>1. TypeInv /\ DistinctDrivers /\ [Next]_vars
        => [\A d \in DevIds :
              reg[d] # None /\ reg'[d] # None /\ reg[d].dri_id # Absent
                => reg'[d].dri_id # Absent]_vars
  <2> SUFFICES ASSUME TypeInv, DistinctDrivers, Next, NEW d \in DevIds,
                      reg[d] # None, reg'[d] # None, reg[d].dri_id # Absent
               PROVE  reg'[d].dri_id # Absent
    OBVIOUS
  <2> USE DEF TypeInv, TypeOK, DevmgrTypeOK
  <2>1. CASE EntryStep
    BY <2>1 DEF EntryStep, EntryThread, CreateDriver, SetId, UpdateDriver, AddSyscall,
                devmgr_create_driver, devmgr_update_driver, devmgrVars
  <2>2. CASE LoopStep
    BY <2>2 DEF LoopStep, LoopStarts, LoopBinds, SetLocalIpc, RegisterCallback, RefuseBind,
                AcceptBind, UpdateBoundDevice, AddBoundDevice, devmgr_update_device, Merge,
                devmgrVars
  <2>3. ASSUME NEW c \in Clients, TakeStep(c) \/ UserStep(c)
        PROVE  reg'[d].dri_id # Absent
    <3>1. CASE TakeStep(c)
      BY <3>1 DEF TakeStep, LoopTakes, RejectUnknown, ServeDevice, BeginBind, devmgrVars
    <3>2. CASE Proceed(c)
      BY <3>2 DEF Proceed, search_device, query_device, fill_device, get_driver_id,
                  search_driver, query_driver, fill_driver, send, receive, devmgrVars
    <3>3. CASE dev_bind(c) \/ dev_call(c)
      BY <3>3 DEF dev_bind, dev_call, Start, devmgrVars
    <3>4. CASE CreateDevice(c)
      BY <3>4 DEF CreateDevice, devmgr_create_device, DistinctDrivers
    <3>5. CASE UpdateDevice(c)
      BY <3>5 DEF UpdateDevice, devmgr_update_device, Merge
    <3>6. CASE RemoveDevice(c)
      BY <3>6 DEF RemoveDevice, devmgr_remove_device
    <3>7. QED
      BY <2>3, <3>1, <3>2, <3>3, <3>4, <3>5, <3>6 DEF UserStep, Call
  <2>4. QED
    BY <2>1, <2>2, <2>3 DEF Next
<1>2. QED
  BY RoutingAlways, <1>1, PTL DEF Spec, BindingSurvivesUpdates
=============================================================================

# sdPlatform in TLA+

sdPlatform is a small driver platform in C++. Drivers register with a device
manager, user threads bind devices to drivers and call them, and every call
crosses a channel to one loop thread that runs the driver's handler. This
directory holds TLA+ modules of that call path, of the UART driver that ships
with it and of the data structures below them (the containers, parameters and
cJSON), the TLC configurations that check them, and TLAPS proofs.

Run `tlc -config MCPlatformShared.cfg MCPlatform` or `tlapm ListProofs.tla`
in this directory; PROJECT.json lists every run with its properties, and maps
every definition to the lines it models.

## The system

| Component | Source | State | Operations |
|---|---|---|---|
| device manager stub | `source/requirements.cxx` | two maps from ids to parsed JSON | `devmgr_{create,update,remove,query}_{device,driver}` |
| driver base class | `source/platform/driver.cxx` | parameters with its id, list of devices | `init`/`devmgr_register`, `bind`, `unbind`, `open`, `close`, `transfer`, `write`, `read`, `ioctl`, `register_syscall` |
| syscall table, loop thread | `source/platform/syscall.cxx` | `kv_`, `local_ipc_` | `add`, `find`, `call`, `syscall_ipc_handler` and its callback |
| client API | `source/api-internal.cxx` | caches `device_map`, `driver_map` | `dev_bind` … `dev_ioctl`, `search_device`, `search_driver`, `get_driver_id` |
| remote driver, remote call | `driver-dummy.hxx`, `remotecall.cxx` | the driver's channel | one stub per method |
| device, parameters | `device.cxx`, `parameter.hxx` | map from paths to values | `from_json`, `to_json`, `get`/`set_bind_id` |
| uart class driver | `drivers/uart.cxx` | runtime: flags, frame, two queues | `open_`, `close_`, `write_`, `read_`, `ioctl_`, `bind_` |
| sunxi uart | `drivers/sunxi-uart/sunxi-uart.cxx` | registers, interrupt thread | `api_*`, `handle_irq` |
| wire format | `syscall-details.*`, `msg_wrapper.hxx`, `msg.hxx` | none | packing, parsing, dispatch by signature |
| cJSON, red-black tree, list nodes | `cJSON.cxx`, `alter/map.cxx`, `alter/list.cxx` | trees and lists | the operations of cJSON, `std::map`, `std::list` |
| startup | `entry.cxx` | `inited` | `platform_init` |

How they interact. A driver's entry thread serialises itself (and for that waits
until the loop thread has published its channel), creates an entry in the device
manager, keeps the id it is given, updates the entry, and adds nine handlers to
`kv_`. An owner creates a device with JSON that names what it is. A user calls
`dev_bind(device, driver)`: the driver is looked up in `driver_map` or, on a
miss, in the device manager, and the request goes over the channel. The loop
thread finds the handler by the hash of "name-method" and runs `driver::bind`,
which queries the device manager for the device, checks it, writes the driver's
id into it, and adds it to the driver's list. Later calls find the driver by the
id in the device, which comes from `device_map`. The caches, `kv_` and the device
manager's maps are shared by all threads and have no lock.

Below all that lie the containers: `kv_`, the caches, the device manager's maps
and the parameters of a device are `std::map`s, whose tree `alter/map.cxx`
rebalances; queues and lists of devices are `std::list`s, whose nodes
`alter/list.cxx` links. A device or driver crosses to the device manager as JSON
text: `parameter::to_json` builds a cJSON tree from paths, `cJSON_Print` prints it,
`cJSON_Parse` reads it on the other side, and `from_json` makes paths of it again.

In the UART driver the loop thread runs `open_`, `write_`, `read_`, `ioctl_` and
`close_`, one after the other; an interrupt thread runs `handle_irq`. They share
the two queues of the runtime and the registers, again without a lock.

What is hard: what two threads see of each other between two steps (the caches,
a bind in progress, the queues, a register that is read and written back), the
order in which registration and bind publish their results, copies that outlive
their original, wake-ups, and calls in an order nobody intended. PROJECT.json
lists these hazards at their lines.

What would make each part correct: a call reaches the driver the device is bound
to, and that driver has it; a driver lists only devices it accepted; a binding
does not vanish; every call returns; every byte passes once and in order, and does
pass; `ioctl` leaves runtime and registers in agreement; what `to_json` writes,
`from_json` reads; a packed call is parsed to the same arguments or refused; the
red-black tree stays an ordered set of the right black height; a list's ring is the
sequence its callers made, both ways round; a cJSON tree holds what was put into
it, is freed once and as a whole whatever allocation failed, and survives printing
and parsing.

## The modules

| Module | Models |
|---|---|
| `Devmgr` | the device manager's maps and the two device keys that matter, `config` (everything the owner wrote) and `dri_id` |
| `Driver` | registration on the entry threads, the loop thread, the syscall table, the nine handlers (EXTENDS `Devmgr`) |
| `Platform` | user threads, the caches, the calls, the channel: the whole call path (EXTENDS `Driver`) |
| `PlatformProps` | its properties |
| `PlatformProofs` | its theorems |
| `MCPlatform` | its instances for TLC |
| `ByteChannel` | the abstract specification of one direction of a serial line |
| `SunxiHw` | the hardware, as the driver uses it (external) |
| `SunxiUart` | the interrupt thread (EXTENDS `SunxiHw`) |
| `UartClass` | the loop thread in the uart class driver and the `api_*` functions (EXTENDS `SunxiUart`) |
| `UartProps`, `MCUart` | properties and instances |
| `UartProofs`, `UartStreamProofs` | theorems about them: types, the order of bytes, the streams |
| `DeviceCall` | one call with its data: packing, the channel's 16-bit lengths, parsing, the answer |
| `UartConfig` | the uart's settings in runtime and registers, through those calls (EXTENDS `DeviceCall`) |
| `UartConfigProps`, `MCUartConfig` | properties and instance |
| `UartConfigProofs` | their theorems |
| `RbTree` | `std::map`'s tree: rotations, insertion, erasure, steps of iterators, the search; its properties |
| `OrderedSet` | the abstract specification of its keys and of iterators over them |
| `RbProofs` | theorems about them |
| `ListNodes` | `std::list`'s nodes, with the sequence each list should hold |
| `ListProofs` | theorems about them |
| `MatchCompat` | `match_compat` of the driver base class, and what is meant by it |
| `CompatProofs` | the theorem about it |
| `JsonTree` | cJSON's trees on a heap whose allocations fail |
| `JsonText` | cJSON's print buffer, printer and parser (EXTENDS `JsonTree`) |
| `JsonLinks` | what must hold of the trees' pointers (EXTENDS `JsonTree`) |
| `JsonProps`, `MCJson` | more properties and instance |
| `JsonCompare` | cJSON trees built from descriptions, to be compared and printed (EXTENDS `JsonProps`) |
| `JsonProofs` | theorems about the surgery on sibling lists |
| `Parameters` | a device's parameters, into JSON text and back (INSTANCE of `JsonText`) |
| `Containers`, `MCContainers` | `RbTree`, `ListNodes`, `MatchCompat`, `Parameters` and `JsonCompare` side by side, their properties, an instance |

`Platform`. A user thread's place in a call is `pc`; each of the steps
`search_device`, `query_device`, `fill_device`, `get_driver_id`, `search_driver`,
`query_driver`, `fill_driver`, `send`, `receive` touches shared state once. The
loop thread's place is `lpc`; a bind is four steps (`BeginBind`,
`AcceptBind`/`RefuseBind`, `UpdateBoundDevice`, `AddBoundDevice`) because user
threads and owners act in between; the other handlers are one step because only
the loop thread sees a driver's list. An entry thread's place is `dpc`; the nine
handlers are added one by one. A virtual function of a concrete driver is a
choice between accepting and refusing; `match_compat` and `bind_` together are
the constant `Matches`, which settings a driver accepts. On the settings in
`Endless` `match_compat` does not return: then neither `AcceptBind` nor `RefuseBind`
is enabled and the loop thread stays where it is. `MatchCompat` computes which
they are.

`UartClass`. Each access of either thread to a queue or a register is a step:
`tx_switch` and `rx_switch` read IER and write it in two steps, `front()` and
`pop()` are two steps, LSR is read into a local (`rlsr`, of which `temt` is used later). Bytes are
numbered in the order they enter; 0 is what a read of an empty fifo yields. While
`dlab` is set, RBR, THR and IER are the divisor's bytes; of its high byte the model
keeps the three bits that IER has (`dlh`, `HighBytes`). `open_` tests the flags and resets
the device; behind it FCR is written (`SetFcr`), LCR is read and written three times
(`ReadLcr`, `WriteLcr`), or refused (`SetupFails`), the divisor is set (`SetDlab` to
`ClearDlab`), IER and MCR are written and the interrupt thread is created the first time
(`Setup`), or cannot be (`SetupNoThread`). `ioctl_` takes the same steps for one
setting. An LCR written while the line is busy may raise the busy interrupt, whose branch in
`handle_irq` is four steps: LCR and FCR are read (`HoldLcr`), the line is looped back,
the fifos are reset and FCR gets what was read at IIR's address (`ClearBusy`), LCR is
written back (`RestoreLcr`), the loopback ends (`RestoreMcr`). The loop thread may set or
clear DLAB between them. A line error is a break or another (`err`), since a break
alone makes `handle_irq` look for data. With `Ghosts` a timeout interrupt may come
though there is no data; then `handle_irq` reads RBR and drops what it finds
(`DiscardRbr`).

`DeviceCall`. A message is the sequence of its fields, each with its length in
bytes and its value; what the receiver has of it is the length that is left after
the cut. A call is one after the other: `UserCall` packs, `Send` cuts, `ParseCall`
parses by the handler's signature or fails, a handler of `UartConfig` or
`NotListed` answers, `Reply` copies what fits, `Return` ends. Handlers see
arguments only as they were parsed.

`UartConfig`. The functions `WithParity`, `WithStop`, `WithDataBits` and `Divisor`
are the `api_config_*` functions on LCR and DLL/DLH; `open_` applies them in the
order of `api_setup` to the reset device and stops at the first that refuses.
Before the first open the gate is closed: writes are lost and reads yield
anything (`LcrRead`). The wait for LCRUP is assumed to end.

`RbTree`. A node is its key; `tree` holds the parent, the children and the colour of
each, the header's being the root, the leftmost and the rightmost. Left and right
are one definition with the side as argument. `call` holds the locals of a call to
`_Rb_tree_insert_and_rebalance` or `_Rb_tree_rebalance_for_erase`: `Insert` and `Erase`
link or unlink the node, each turn of the loop after it is a step of its own
(`RebalanceInsert`, `RebalanceErase`), and so is its end. Nobody acts in between; the
steps show what every turn keeps. `Recolor` and `Raise` are what a turn of the insertion
does to the grandparent, `RaiseSibling`, `RaiseNephew` and `Settle` the rotations of
erasure; `Lift` is the rotation with an exchange of colours that three of them share.
An erasure unlinks `z` alone (`UnlinkOne`) or puts the next node in its place
(`UnlinkTwo`). The search that finds where to insert is libstdc++'s; it is modelled
(`Position`) because it calls `_Rb_tree_decrement`. `MapSpec` maps the tree to `OrderedSet`:
the keys are the linked nodes but for one that waits to be freed (`InTree`), and an
iterator steps by `_Rb_tree_increment` from the header's left (`MapSteps`).

`ListNodes`. `next` and `prev` are the pointers; `content` is the sequence a caller of
`std::list` expects, by which each call is guarded and to which `RingsMatch` compares
the ring. A range given to `transfer` lies in one list, and the position outside it.

`MatchCompat`. A string is a sequence; `Pieces` are what the code looks for, cut at
multiples of the first bar's place, `Alternatives` what stands between the bars.

`JsonTree`. `heap` maps addresses to nodes, strings or nothing; every allocation takes
a free cell and fails when there is none. `held` are the items callers own,
`kids` the children they expect. `Create` … `DeleteItem` are the public functions, each
with its failures; the functions of cJSON under them are operators from heaps to
heaps. A caller adds an item it holds once, and not below itself.

`JsonText`. A text is a sequence of tokens with their widths in bytes: a string in its
quotes is one token. The print buffer has the bytes settled, its length, whether it
may grow and how often memory can still be had; `overrun` tells of a write behind
the end or behind what `ensure` was asked for. The parser is one operator per
function of the code, with the depth, the white space and the heap; `parse_array`
and `parse_object` are `parse_list` with and without names.

`Parameters`. A path is a sequence of parts, ordered as `std::map` orders strings.
`recurse_print` and `recurse_parse` are the two recursions, over the trees and texts
of `JsonText` with memory for all of them.

`JsonCompare`. A description says what a tree is; `Build` makes the tree by the calls of
`JsonTree`, in the order of its members. `Meaning` reads a tree back without that order.

Operators under "Faulty variant" are not part of any specification. Each is a
small, plausible mistake in the operator after it; put in its place, it makes the
run named in PROJECT.json fail.

## Runs

Passing runs of `MCPlatform`:

| Configuration | Shows | Bounds |
|---|---|---|
| `MCPlatformShared` | `TypeOK`, `RoutedCallFindsDevice`, `ListedDevicesMatch`, `BindingSurvivesUpdates` | two users, one driver, one device, two settings of which it accepts one, three calls per user |
| `MCPlatformDrivers` | `NoDanglingBinding`, `RoutedCallFindsDevice`, `HandlersOfNamedDriver` | one user, two drivers with ids and names of their own, four calls |
| `MCPlatformLive` | `CallsReturn` | two users, one driver, two calls each, an id may be drawn again, fair threads |

In these no setting is in `Endless`.

Three calls of two users are enough for create, bind and use to overlap with an
update, a removal or a second bind at each of their steps; a race needs two
users, a race in the handler table or a device bound twice needs two drivers. The
second device would add nothing: no step relates two devices. Ids do not repeat
in the safety runs (`UniqueIds`), and the two drivers have different names; the
code promises neither, and without either it mixes drivers up. In `MCPlatformLive`
an id may be drawn again, for a device or for a driver: calls still return.

Passing runs of `MCUart`:

| Configuration | Shows | Bounds |
|---|---|---|
| `MCUartStreams` | `TxStream`, `RxStream` | five bytes out, three in, a transmit fifo of three, bursts of two, by interrupt or by polling |
| `MCUartErrors` | `UartTypeOK`, `RxStream`, `RxServed` | fair threads, four bytes in, a fifo of two, two turns of the receive loop, one line error or modem change |
| `MCUartReopen` | `TxRises`, `RxRises` | an open, for reading or for writing, and one further call of `open_` or `ioctl_`, closes at any time, two bytes in, two out, two busy interrupts, timeout interrupts without data, a divisor with a high byte or without, THRE when the fifo is empty |

The hardware's sizes keep their relations: a burst fits above the trigger level
(32 + 32 in 64), more bytes are written than fit, a receive loop ends with bytes
left. `MaxPushes` bounds what the interrupt thread can push while DLAB makes it
read something that is not there. `TxStream` and `RxStream` are refinements: the
session implements `ByteChannel`, with the bytes `write_` took as what goes in
and the line as what comes out, and the same the other way round. They are
checked for one session whose settings stay, without busy interrupts and interrupts
for data that is not there, since these and DLAB do lose bytes; with them, `TxRises`
and `RxRises` still say that no byte is doubled or overtaken, and that nothing else is
sent unless a busy interrupt came while the baud rate was set. `MaxSetups` bounds the calls
of `open_` and `ioctl_` together. Two are enough for the races there are: what the first call
leaves behind, bytes in queues and fifos, a busy interrupt not yet served, the
interrupt thread anywhere in `handle_irq`, meets every step of the second; and the
second busy interrupt can come from the second call, while the branch for the first
still holds an old LCR.

`MCUartConfig` checks `ConfigTypeOK`, `WriteIsWhole`, `ReadIsWhole`,
`RegistersFollowRuntime` and `QueriesTell` over any sequence of calls. Its sizes
are the code's: words of 4 bytes, lengths cut at 2^16, a clock of 24 MHz / 16. The
lengths 65532 and 65540 let the cut fall behind the id, behind the count and
within the data; a buffer of 65537 is announced as one of a byte; rates of 1 and 115200 give divisors of more than 16 bits and of
less than 8; data bits of 5, 8 and 9, parity and stop bits of 0 to 3 hold every
accepted combination and one refused value of each. The state between two calls
is the settings alone, so any number of calls is covered.

Passing runs of the data structures:

| Configuration | Shows | Bounds |
|---|---|---|
| `MCContainers` | `RedBlack`, `WalksBack`, `SearchFinds`, `MapSpec` | maps of up to ten keys |
| | `DoublyLinked`, `RingsMatch` | two lists, five nodes |
| | `ParametersArrive` | three parameters out of eleven paths of one to three parts, with reserved names and names equal up to case, and three values |
| | `CompareIsEquality`, `PrintFits` | every two cJSON trees of two scalars or texts, arrays of up to two and objects of up to three of them in any order, and arrays and objects of one such pair; three names, two equal up to case, one of these a literal; a heap of 24 cells |
| | `CompatMatches` | every driver compat of up to five characters, two letters and the bar, with every device compat of up to three |
| `MCJson` | `SiblingsMatch`, `NoDangling`, `NothingLost`, `RoundTrip`, `CutTextLeavesNothing`, `PrintFits` | a heap of five cells, two held items, two names equal up to case (one also a literal), one text, nesting up to two |

Every run allows any number of calls: the states are finite because keys, nodes
and cells are. Ten keys make a tree of black height three, in which an erasure
rotates and goes up twice and an inner node is replaced by one further down.
Five nodes let a range of two or three move within a list, before or behind
where it was, and between two lists, next to the header and not. Three
parameters are two of a group and one beside it. In five cells fit an array of
two strings, an object of two named items, an object in an object; every call is
made with every number of cells left, so each of its allocations fails in some
state. `NestingLimit` is 2 where the code has 1000, so that trees of depth three
exceed it; the buffer starts from one byte where the code has 256, so that every
`ensure` finds it too small once. Five cells are too few to compare two objects of two
members each, and they hold no scalars; so `MCContainers` builds wider trees, without
failures, and compares and prints them: members in the same order and in another, in objects
inside of others too, with a name or a value that differs behind the first. `MapSpec` is a refinement: in every state,
those between two turns of a loop too, the keys in the tree and the steps from each to
the next are those of `OrderedSet`, which knows no tree.

`MCJson` keeps one of two heaps that hold the same trees at different addresses
(`TreesView`), as no call compares addresses or depends on them. The view tells
heaps apart entirely as soon as one of the three structural invariants fails.

Each violating run shows a place where the code does not do what its
documentation, comments or demo say (PROJECT.json, "findings"):

| Configuration | Property | What happens |
|---|---|---|
| `MCPlatformStale` | `DriverIdIsCurrent` | a device looked up before it was bound stays unbound for this process |
| `MCPlatformCompat` | `CallsReturn` | a device with none of a driver's alternatives hangs the loop thread in `match_compat`: no call returns any more |
| `MCUartLost` | `TxServed` | the interrupt thread disables the interrupt `write_` just enabled |

Other places where code and documentation part are in the model as the code has
them, with no run of their own, since one step shows each:

- a driver's id is published before its handlers are there (`driver.cxx:198`,
  `:294`): a bind in between is answered `ENO_NOSYSCALL`, or, with the handlers
  half there, succeeds for a device that cannot be opened (`AddSyscall`);
- the interrupt thread writes back an IER it read earlier (`sunxi-uart.cxx:123`): over
  the one `open_` wrote (`uart.cxx:78`), which leaves a session without its receive
  interrupt;
- while the loop thread has DLAB set, a byte the interrupt thread sends goes to the
  divisor (`sunxi-uart.cxx:336`, whose comment at `:329` explains the bit);
- an alternative like "a|bc" is cut into "a", "b" and an empty string, which any
  device matches (`driver.cxx:50`; `Pieces`);
- below the second level of `from_json` the prefix is put before a path that has it
  already (`parameter.hxx:244`; `recurse_parse`);
- a reserved name ends the whole object it is found in, not only itself
  (`parameter.hxx:230`), so `ParametersArrive` is about parameters before it; and
  `to_json`, whose note (`:159`) says that 'ipc' and 'runtime' are left out, writes them;
- the trees of `to_json_str` and `from_json_str` are freed with `cJSON_free`
  (`parameter.hxx:178`, `:190`), which frees the root alone; `cJSON.hxx:142` asks for
  `cJSON_Delete`;
- an array of strings is built through a null pointer when there is no memory for
  the array itself, or no string (`cJSON.cxx:2269`): no program goes on from there, so
  `CreateStringArray` is a step only where neither is the case, and nothing in the
  repository calls it;
- a search for the exact name ends at a member without a name (`cJSON.cxx:1622`;
  `get_object_item`), the other search passes it;
- replacing a member by name frees the new item's key before it looks for the old
  one (`cJSON.cxx:2006`; `ReplaceNamed`);
- bind writes the whole copy it queried back (`driver.cxx:69`), over an update
  made meanwhile that was told it succeeded (`UpdateBoundDevice`);
- a timeout interrupt that finds no data reads RBR and drops what it yields, "just read
  and ignore" (`sunxi-uart.cxx:195`; `DiscardRbr`): a byte that came in since LSR was read
  is lost, so `RxStream` is about runs without such interrupts;
- a successful `unbind` releases nothing (`driver.hxx:94` says it does);
- `dev_transfer` sends a close (`driver-dummy.hxx:67`; `MethodOf`);
- a second bind of a device keeps the object of the first (`driver.cxx:255`;
  `AddBoundDevice`);
- `rand()` may return 0, which means failure (`requirements.cxx:81`);
- the busy branch writes back an LCR it read earlier (`sunxi-uart.cxx:189`;
  `RestoreLcr`): when the loop thread has set DLAB since, DLL and DLH are
  written to THR and IER, so a byte of the divisor is sent; when it has cleared
  DLAB, DLAB is on again until the device is opened or the baud rate set, and no
  byte passes;
- the busy branch writes to FCR what it read from IIR, which can turn the fifos
  off (`sunxi-uart.cxx:179`; `ClearBusy`);
- refused stop bits stay in the runtime, because the parity is put back in their
  stead (`uart.cxx:177`); every later open of the device then fails
  (`ioctl_set_stop`, `open_`);
- `ioctl_` answers `ENO_OK` whatever happened (`uart.cxx:185`), where
  `platform.h:87` promises the size of the output;
- a query of the rate into a buffer of 2^16 to 2^16 + 3 bytes hands over a part of the
  word (`Reply`), so `QueriesTell` speaks of rates that came whole;
- a read into 2^16 bytes or more is answered with a count of bytes of which the
  user gets fewer (`remotecall.cxx:48`; `Reply`), so `ReadIsWhole` is about smaller
  buffers;
- DLH gets the divisor shifted by -8 (`sunxi-uart.cxx:338`), so rates below 5860
  may be wrong (`PutDivisor`);
- `IS_CONFIG_FCMDS` tests a bit no command has, and `ioctl_` never calls
  `devmgr_update` (`uart.cxx:182`);
- in polling mode an interrupt thread that is woken takes bytes from the same
  queue and the same RBR as the loop thread (`sunxi-uart.cxx:193`, `:448`), so
  `TxStream` and `RxStream` hold there only while no interrupt comes.

Deadlock is not checked: the bounds on calls and bytes let the system stop, and a
driver whose id is 0 never goes on.

## Fairness

`FairSpec` of `Platform`: every thread that can run does run (weak fairness of
the loop thread, of each entry thread and of each user inside a call). Taking a
request is strongly fair per caller, because the channel delivers in order and
`loop_run` takes one message after the other: a request is not passed over for
ever, although it cannot be taken while another is served. Users are not made to
call. `FairSpec` of `UartClass`: weak fairness of the loop thread inside a call,
of the interrupt thread, and of the shift register; bytes need not come in, users
need not call.

## Proofs

`PlatformProofs` is about `Platform`, for any users, drivers, devices, settings and
number of calls; `ListProofs` is about `ListNodes`, for any lists and elements;
`CompatProofs` is about `MatchCompat`, for strings of any length; `UartProofs` and
`UartStreamProofs` are about the two threads of the UART, for any sizes of fifo, burst
and loop and any numbers of bytes, sessions and events; `UartConfigProofs` is about calls with data
and the settings, for any word, limit, buffers, rates and codes; `JsonProofs` is about
the sibling lists in `JsonTree`, for a heap of any size and lists of any length;
`RbProofs` is about `RbTree`, for any set of integers as keys, finite or not.
`tlapm <module>.tla` checks each.

`PlatformProofs` shows `PlatformTypeOK` and `PlatformHandlers`, from the
assumptions on the constants alone. `TypeOK` is not inductive: the type of what
`fill_driver` stores depends on what `query_driver` put into `json`, the id that
`bind` writes on the driver it found having one. `TypeInv` adds `UserShape` (what
a user's locals hold at each `pc`, and that request and answer are never both
there), `ServerShape` (an entry thread past `set_id` has an id; a handler belongs
to a driver of its name with an id) and `LoopShape` (a bind in progress has a
caller, a request and a driver with an id). There is one lemma per step of each
thread.

The same module shows that a binding leads to its holder:
`BindingLeadsToHolder`, and from it `RoutedCallIsServed`, `ListedIsAccepted` and
`BindingIsNotLost`. They assume `DistinctDrivers`: `UniqueIds`, and no two drivers
of one name. The inductive invariant is `RoutingInv`. The argument: an id belongs
to one driver and the device manager's entry names it (`IdsAreOwned`), so the
driver cache is never stale (`DriverCacheCurrent`), so a request carries the name
of the driver whose id the caller holds (`RequestsMatchCalls`). A `dri_id` is
born in `UpdateBoundDevice`, while the loop thread is about to add the device
(`BindCarries`); from then on every copy of it, in the registry, in a thread or in
the cache, names a driver that holds the device or is adding it
(`CopiesLeadToHolders`, `NoDanglingBinding`). `Persists` says what no step takes
back: ids, list entries, registry entries, and the device being added until it is
added. When the loop thread is idle nothing is being added, so the driver that a
request reaches holds the device.

`ListProofs` shows `DoublyLinked` (`ListsStayLinked`) and `RingsMatch`
(`ListsHoldTheirElements`) of `ListSpec`, whose next-state relation is the one by
which `MCContainers` moves its lists, from `ListAssumption` alone: finitely many
lists and nodes, and no list's header is a node. Neither is inductive: that next
and prev are inverse says nothing of where a node is, and the rings say nothing
of prev, which every operation follows. `ListInv` says that an element is in one
place (`Distinct`), that the nodes with neighbours are those placed and the
headers (`Linked`), and that both directions go round as the content says
(`Forth`, which is `RingsMatch`, and `Back`). The argument: to unhook is to cut a
range out of a ring (`CutRings`), to hook is to paste one in (`PasteRings`), and
`_M_transfer` is a cut and a paste at once, also when the range stays where it is
(`SpliceKeeps`). The nodes `_M_reverse` visits are exactly those of the list
(`RingIs`), so it trades the two directions of one ring and leaves the others;
`swap` trades two headers, and empty lists are a case of their own
(`SwapTrades`).

`CompatProofs` shows `CompatMatches` (`MatchFindsAlternatives`) of every two strings.
It is not about steps: a string is looked at once. Say the first bar is the n-th
character. The code looks for it once and then cuts after every n characters, so its
k-th piece runs from k * n + 1 up to the next multiple of n or the end. In a string
whose alternatives are of one length the bars are exactly the multiples of n. So a
piece has a bar or an end of the string on either side and none inside, and is an
alternative (`PieceDelimits`, `PiecesAreAlternatives`); and an alternative begins after
a multiple of n and ends before the next, and is a piece (`DelimitsPiece`). That there is
a first bar at all is the least element of a set of numbers (`Earliest`).

`UartProofs` shows `UartTypeOK` (`UartTypes`) from the assumptions on the constants
alone, in every mode. It is not inductive by itself: the calls count the bytes they
still have to move down, and would leave Nat if they could be about to move one with
none left (`LeftToMove`).

The same module shows `TxRises` (`UartSendsInOrder`) and `RxRises`
(`UartReceivesInOrder`): no byte is doubled or overtaken, for any number of sessions,
settings, errors and busy interrupts. They assume `InterruptMode`: no session is
opened for polling. In polling mode the loop thread does what the interrupt thread
does, on the same queue and the same register, and with an interrupt in between both
send the byte at the front. The inductive invariant is `OrderInv`. The argument: the
users' bytes are numbered, so the queue counts up to the last one, `written`
(`QueueInv`); the line and then the transmit fifo rise and hold no byte that is still
in the queue, but for the one the interrupt thread has put and not yet popped
(`OutInv`), where a byte of the divisor or a lost one only leaves a gap; likewise the
reads, the receive queue and the fifo rise one after the other up to the last byte
that arrived (`InInv`). What an access with DLAB set yields or destroys is 0, so `Rising` skips
zeros; and as long as no busy interrupt came, DLAB is never set behind the loop
thread's back, so that nothing but bytes of the user is sent (`CalmInv`).

`UartStreamProofs` shows the refinements `TxStream` (`UartSendsStream`) and `RxStream`
(`UartReceivesStream`): what leaves on one side of the driver is exactly what came
in on the other, byte for byte, and the rest is still inside. They assume
`OneSession`, the limits of the run: one open and no setting behind it, no busy
interrupt, no interrupt for data that is not there, and in polling mode no other
interrupt. Each of these does lose bytes in
the code, as the list above says. The argument is a bijection: `TxInv` says that
the bytes on the line, in the transmit fifo and in the queue are 1, 2, ..., `written` in
that order, the byte put and not yet popped being in both; `RxInv` that the reads,
the receive queue and the receive fifo are 1, 2, ..., `arrived`. That none is lost is
that each put finds room and each get a byte. `RoomInv` shows the first: the
interrupt thread fills the fifo after THRE, at most the trigger level is left in it then,
and a burst on top of that fits (`IrqAssumption`). `DataInv` shows the second: a
byte that LSR or IIR announced is still there, because only this thread takes one
(`PollInv`: where the user polls, the interrupt thread waits). `SessionInv` says which
steps a first session can be at, so that no fifo is reset and no divisor written in
the middle of it, and `QuietInv` that no busy interrupt is pending.

`UartConfigProofs` shows `ConfigTypeOK` (`ConfigTypes`), `WriteIsWhole`
(`WritesAreWhole`), `ReadIsWhole` (`ReadsAreWhole`), `RegistersFollowRuntime`
(`RegistersAgree`) and `QueriesTell` (`QueriesAgree`) from `CallAssumption` and
`ConfigAssumption` alone. The inductive invariant is `ConfigInv`: what a call is at each
of its places (`CallInv`), what its answer says (`AnswerInv`), what the registers hold
(`RegInv`). The core is `ArgumentsArrive`: for every length the cut can leave,
a parse that succeeds has put the stub's values into the handler's arguments, but
for a write whose count was cut off, which is served with nothing. A failed parse
stays failed (`FailureStays`), and in `ioctl` a missing count leaves no room for the
word behind it. The recursion of `do_parse` and `Size` is unrolled over the at most four types
and six fields (`ParseUnrolls`, `SizeIsNat`). `Agree` is the agreement of runtime and
registers: it holds from the first successful open on, because each setting changes
the runtime and one field of LCR together, or neither, and DLS never changes while
the device is open. The properties about answers follow because no handler runs
between the answer and the return, so what was true of the settings then still is.

`JsonProofs` is about single operations, not about `JsonSpec`. `ListsInv(h, k, r)` says
that on heap `h` the callers' picture is right: `k[p]` are the children of `p`, in order
and linked both ways (`Siblings`), every item has one place at most (`Places`), the
items of `r` have none and nothing behind them (`Roots`), every pointer leads to an item
or a string (`Pointers`), and a string has one owner (`Owned`). It implies
`SiblingsMatch` and `NoDangling` (`ListsMatch`), and those two with `NothingLost` imply it
on a heap of cells: the run `json` shows that it is met. `AppendKeepsLists`,
`DetachKeepsLists`, `InsertKeepsLists` and `SupplantKeepsLists` show that each way the code
has of relinking a list keeps it, with the sequence the caller expects afterwards and
with all but the links untouched (`Rewired`). What is hard is the first one's prev, which
is the last one: each operation has its own case for the first, the last and the only
item, and the pointers read in the middle of the surgery are those of before it. The
proofs give the fields of every cell afterwards (`AppendFields`, `DetachFields`,
`InsertFields`, `SupplantFields`), then those along the new sequence (`AppendSiblings`
and so on), and `ListsStep` adds what holds of all other lists. `AddToArrayKeepsLists`,
`AddToObjectKeepsLists` and `DetachStepKeepsLists` show the same of the actions
`AddToArray`, `AddToObject`, where the key changes owner or memory runs out (`Duplicated`,
`SetKeyKeepsLists`), and `Detach`, if the item found is the one meant. From there to
an invariant of `JsonSpec` is out of reach: what `get_array_item`, `get_object_item`,
`cJSON_Delete` and `cJSON_Duplicate` do is defined by recursion over the heap. They stay
with TLC, as does an insertion or a replacement as a whole.

`RbProofs` shows `RedBlack` (`RedBlackHolds`), `WalksBack` (`WalksBackHolds`), `SearchFinds`
(`SearchHolds`) and the refinement `MapSpec` (`RbRefines`) of `RbSpec`, whose next-state
relation is the one by which `MCContainers` moves its tree, from `RbAssumption` alone. None
is inductive: they compare walks and counts, of which a rotation says nothing
directly. The invariant `RbInv` (`RbInvariant`) says of some set `L`, the nodes in the tree:
pointers up and down agree (`Shape`); every node has a left and a right bound among
the nodes above it and lies between them (`Sorted`); every node has a black height, and
no red node is below a red one (`Heights`, `Colors`), but for the one place that the
loop under way has still to mend. For an insertion that is the red node `__x`
(`Fixing`), for an erasure the black that is missing in the place of `__x` (`Erasing`), and
between calls there is none (`Balanced`). Heights and bounds are no variables: the
invariant says that such functions exist, and each lemma about a step gives those of
the new tree from those of the old. A rotation keeps the bounds of every node but the
two that turn, and with them the order (`TurnedKeeps`).

The walks are recursive functions. That they have a value does not depend on their
ending (`Follows`), but what the value is does, and here the invariant pays: twice the
black height, and one more for a red node, grows on the way up (`Ranked`; during a call
`Class` tells the one misplaced red node apart). So a walk up or down ends, and what
holds where it ends and is handed back along each step holds where it starts, because
otherwise there would be a counterexample of least rank (`NatMin`). In this way the proofs do
without the induction theorems of the library. From the bounds follows what
`_Rb_tree_increment` and `_Rb_tree_decrement` find: the nearest node above or below, which is
a bound or at the end of a descent (`IncrementSteps`, `DecrementUndone`); where the search for a
key ends: at the node, or at the free place between its bounds (`PositionTaken`,
`PositionFree`); and from the heights what `_Rb_tree_black_count` counts (`CountTips`). For the
refinement, `Insert` and `Erase` change `L` as `OrderedSet` does, the other steps leave it, and
the steps of iterators depend on `L` alone (`HoldsMaps`).

Only model-checked: liveness (`CallsReturn`, `RxServed`, `TxServed`), which the prover
does not do, and the violations; the order of bytes in polling mode while interrupts
come, which does not hold; and what cJSON's trees over sequences of calls, its texts
and the parameters hold: `SiblingsMatch`, `NoDangling`, `NothingLost`,
`CompareIsEquality`, `RoundTrip`, `CutTextLeavesNothing`, `PrintFits` and
`ParametersArrive`. These are about what recursive operators over the heap and over
texts compute, whose results need induction over data.

## Not modelled

- `devmgr_remove_driver`, `devmgr_query` and `devmgr_delete` of a driver, `del`,
  `update_device_info`: nothing calls them.
- A driver without a name (`driver.cxx:285`): every driver of the repository has one.
  Two "name-method" of the same crc32 (`syscall.hxx:91`): `find` takes them to differ.
- Memory exhaustion outside cJSON, and the early return in `driver::ioctl` it causes.
- In cJSON: references and raw items, which nothing makes; the digits of numbers
  and the escapes in strings; lengths near INT_MAX; Minify; the hooks, which are
  always the platform's own.
- Doubles and pointers as parameters.
- Two threads inside one container (`kv_`, the caches, the queues): an operation
  on a container is one step. `front()` and `pop()` are two.
- The pin multiplexer. LCR's frame bits and the divisor's value are in `UartConfig`,
  which has no interrupt thread; `UartClass`, which has one, has DLAB and the bits of
  the divisor that IER has. So the frame that the busy branch puts back while the loop
  thread changes it is in neither.
- A message cut to less than its first word (`CallAssumption`): the receiver
  subtracts below zero. A baud rate of 0 (`ConfigAssumption`): a division by it.
- The signatures of `call_fn_from_buffer` that no handler of the driver has.
- Two devices on one UART: the class driver keeps a runtime per device.
- `platform_init`: the flag two entry threads may both find unset.
- Concrete drivers other than the UART, the tests, the build.

## Plan

1. Extend the model:
   - `TableRace`: `kv_` and the caches with an insertion of several steps of
     `RbTree` while another thread searches.
   - `Startup`: `platform_init` by two drivers.
   - Safety of `Platform` with repeated ids and with equal names: what still holds.
2. Prove more: that a failing allocation leaves cJSON's trees alone where nothing has to
   be deleted; the links of cJSON's trees over sequences of calls, once its searches are
   functions like those of `RbTree`.

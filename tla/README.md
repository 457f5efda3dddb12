# Verification of qjs-ffi

qjs-ffi gives QuickJS a foreign-function interface: `ffi.so` (`ffi.c`) binds C
functions by name (`define`) and calls them through libffi (`call`).
`util.mjs` and the programs under `examples/` are written in JavaScript on top
of it; two of these, a telnet client and a DNS resolver, are event loops over
non-trivial system interfaces.

This directory holds TLA+ modules of the parts of qjs-ffi that have behaviour,
TLC configurations that check them on small instances, and TLAPS proofs for
all values of the constants. Names of variables, actions and operators follow
the source where TLA+ allows. PROJECT.json says for each definition which lines
it stands for, and lists the hazards of the code with the properties that
cover them.

## 1. Inventory

For each component: its state, its operations, how it interacts with others,
what is hard about it, and what makes it correct.

### Function table (`src/ffi.c`: `define_function`, `call_function`, `js_define`, `js_call`)

* State: `function_list`, a linked list of `function_s` nodes (name, pointer,
  types, `ffi_cif`), static in the shared object and never shortened. While a
  handler runs it also holds C strings borrowed from QuickJS, and three heap
  arrays of `call_function`.
* Operations: `define(name, fp, abi, rtype, types...)`, `call(name, args...)`.
* Interaction: converting an argument that is an object runs its `toString` or
  `valueOf`, which may call `define` or `call`; a native function may enter the
  interpreter again by the `JSContext` that `ffi.so` hands out.
* Hard: handlers nest; each has several failure exits; a node found before
  `ffi_call` is read after it; counts are bounded in another function than the
  one that relies on the bound.
* Correct when: a name has one node, which stays; nothing leaks and nothing is
  freed twice or early on any path; `nargs` stays within the array.

### Call marshalling (`src/ffi.c`: `call_function`)

* State: per call, a union cell per parameter, a second array of pointer cells
  filled by an index of its own, and the references given to `ffi_call`.
* Operations: store each argument by the type of its parameter; call; convert
  the result to a JavaScript double.
* Hard: two indexes that run apart; union members; two's complement and
  rounding to a double.
* Correct when: libffi reads each argument as it was given, and integers and
  pointers survive the way through a double as far as it has bits.

### Type table (`src/ffi.c`: `define_types`, `define_ffi_type`, `find_ffi_type`)

* State: `ffi_type_head`, a list of names and libffi types.
* Operations: `js_init`, which fills it, once per module made from `ffi.so`.
* Hard: the list is static but initialised more than once; the result of
  `strdup` is not looked at.
* Correct when: a name has one node, all names stand for their types.

### Loader (`src/ffi.c`: `dlopen`, `dlsym`, `dlclose`, `dlerror`, `errno`)

* State: that of the dynamic linker, and the C library's `errno`.
* Hard: a name in the function table may outlive the library its pointer leads
  to; a null handle is `RTLD_DEFAULT`. Two flaws are there for a reader to see and
  in no module: `errno()` reads `errno` some time after the call that set it, with
  the interpreter in between (ffi.c:508), and a `dlopen()` whose flags cannot be
  converted keeps its name (ffi.c:527).
* Correct when: a call jumps to a mapped function.

### Memory functions (`src/ffi.c`: `toString`, `toArrayBuffer`, `toPointer`)

* No state; they turn an address that a script gives into a copy, or a buffer
  into an address. Hard: bounds, and the NULL of an argument that is no buffer.

### `util.mjs`

* A `define()` that looks the symbol up, defines it and returns a closure that
  calls it by name; a few functions defined that way; `test2.js` forks with it.
  Hard: the function table is keyed by the name alone, so two closures for one
  name, from two libraries, are one function.

### `fd_set`, `select` and the Socket class (`src/examples/socket.js`, `fcntl.js`)

* State: a Socket's descriptor, address, `destroyed` and the last error; an
  `fd_set` is an ArrayBuffer.
* Operations: `connect`, `bind`, `listen`, `accept`, `ndelay`, `send`, `recv`,
  `sendto`, `recvfrom`, `read`, `write`, `close`; `FD_SET`, `FD_CLR`,
  `FD_ISSET`, `FD_ZERO`, `select`.
* Hard: `FD_ZERO(fd, set)` is called with the set alone and clears nothing; a
  descriptor of `undefined` becomes bit 0; an interrupted `select()` leaves the
  sets as they were. The Socket that `accept()` makes has no descriptor, and
  `close()` leaves the number of one that it has closed.
* Correct when: each method reaches the file of its own Socket; a descriptor is
  closed once; the kernel finds in a buffer what the script has set.

What the code does here may surprise its users, and the modules say it as it is:

* `new Socket(SOCK_DGRAM)` asks for protocol 2 and never gets a descriptor.
* `accept()` gives properties with `v` for `value`: the new Socket's `fd` is
  `undefined`, which `read()`, `write()` and `close()` take for 0. The connection
  can be neither used nor closed.
* `read()` without a length asks for 0 bytes, takes the 0 it gets for the end of
  the stream, and closes the Socket.
* `ndelay()` hands `fcntl()` an `undefined` third argument, and always throws.
  `send()` and `recv()` pass five arguments to functions of four parameters, which
  `call()` allows.

### Telnet client (`src/examples/telnet.js`)

* State: `inBuf`/`inLen`, `outBuf`/`outLen`, the handshake counter, the two
  descriptors, the two `fd_set`s.
* Operations: one loop with a block for output, one for the socket, one for the
  keyboard; `Append`, `Send`, `SendTerm`.
* Interaction: user, server and kernel act between any two system calls. With
  `-l` the server is whoever connects.
* Hard: a read during the handshake overwrites pending output; an error number
  becomes a length; short writes; signals; `inLen` that only grows.
* Correct when: bytes are neither repeated nor reordered; what may be lost is
  lost only where the code has given up on it; the loop ends when the server
  ends, and does not block where it should not.
* In no module: `CloneBuf` asks `toArrayBuffer()` for more bytes than the buffer
  has and copies what lies behind it (telnet.js:330).

### DNS resolver (`src/examples/dnsresolve.js`)

* State: per lookup a socket, a query with its length, a `sockaddr_in` that is
  both the destination and where `recvfrom()` puts the sender.
* Operations: `main` over the names given, `lookup` for one.
* Hard: UDP loses, delays and repeats; no timeout and no retry; neither the
  identity nor the sender of an answer is compared.
* Correct when: one query per name, the answer of a lookup came to its own
  socket, sockets are closed, a lookup ends unless its datagrams are lost.

### `term.js`, test programs

* `term.js` holds terminal constants, struct classes, and wrappers that look up
  their C functions at import and define them at the first call, with a flag that is
  set whatever `define()` returned. It reports a function that is not there by
  `dlerror()`, which it does not import: the import ends with a ReferenceError.
* `test.js` and `test.c` are straight-line programs, read here as documentation of
  what `define()` and `call()` promise. `test2.js` forks; its two processes share
  a terminal or a file, and one waits for the other.
  Hard: `fork()` copies what stdio holds, `_exit()` drops it.

## 2. Modules

| Module | Stands for |
| --- | --- |
| `Bindings` | abstract: a table of names in which an entry, once made, stays, and native calls that keep the binding they were looked up with |
| `FfiRegistry` | `define()` and `call()`: list, heap, C strings, nested handlers; implements `Bindings` |
| `FfiRegistryProofs` | its proofs |
| `FfiCall` | one run of `call_function`, with values |
| `FfiCallProofs` | its proofs |
| `FfiTypes`, `FfiTypesProofs` | `js_init` and the type table |
| `Wrappers`, `WrappersProofs` | `util.mjs`, `foreign()`, `fcntl.js` and `term.js` over one `Bindings` (an INSTANCE) and a loader |
| `ForkOutput`, `Fork` | what is seen of `test2.js` from outside, and the program as two processes; proofs in `WrappersProofs`, over an INSTANCE of `Fork` |
| `Socket`, `SocketProofs` | the class Socket over the kernel's table of descriptors |
| `FdSet` | `fd_set`, its functions and `select()`, as operators used by the next three |
| `Buffers`, `BuffersProofs` | fd_sets, structs, DNS queries and `toPointer()`, byte by byte |
| `Telnet`, `TelnetProofs` | the main loop of the client, with user, server and kernel |
| `Lookups` | abstract: lookups one after the other, each one question and then one answer |
| `DnsResolve`, `DnsResolveProofs` | `main()` and `lookup()`, with the network; implements `Lookups` |
| `MC*` | the instances for TLC |

### `FfiRegistry` and the code

`list`, `nodes` and `blocks` are `function_list`, the contents of its nodes and
the live `malloc` blocks. `stack` holds a frame per handler in progress; `pc` is
the argument being converted, or `native` during `ffi_call`. `cstrs` and `temps`
are what `JS_ToCString` and `call_function` have allocated, tagged with
the depth of the frame that must release it.

C code between two points where JavaScript can run is one step: nothing else can
run there, since a QuickJS runtime has one thread. So an argument of `define()` is
a step each (`DefineArgument`, `DefineArgumentFails`), and everything after
the last type one step with four outcomes (`AlreadyDefined`, `DefineAdded`,
`DefineRejected`, `DefineNoMemory`). In `call()` only the conversion of the name
can run JavaScript, as other values are taken as they are or refused; the steps
are `CallFails`, `CallNoMemory`, `CallNative` and `CallFunctionReturns`. `Begin`
is a script calling `define` or `call`, wherever JavaScript may run. An allocation
that fails is `exit(2)`, by `fatal()`.

A type name that is given but cannot be converted is NULL, and the types that
`define_function` sees end there: `Nargs`.

Not in it: several threads (a Worker that imports `ffi.so` shares its static data
without a lock), native functions that unwind past `ffi_call` with `longjmp`, and
a native function that writes to the table's memory.

### `FfiCall` and the code

One behaviour is one call. `ConvertScalar` and `ConvertPointer` are the
branches of the loop by type; `arguments`, `pointer_list`, `ptrs` and the
indexes `i` and `pl` are the code's. A cell remembers which union member
was written, and what is read must be the same member. `FfiCall` is
`ffi_call`: libffi reads each parameter with the width of its type (`Narrowed`),
and the function returns its first parameter where types allow, or any value of
its type. `size_t` is an `unsigned int` in the table of types (ffi.c:176) and a word
to the C function: in a register libffi clears the upper half, on the stack it
leaves what was there (`Garbage`). `Result` is the chain of casts to
`long double`, then to a JavaScript number. Numbers are scaled (a word has `Word`
values, an unsigned int `UInt`; a double holds all integers up to `DoubleRange`, a
float up to `FloatRange`, and `Rounded` takes others to the nearest multiple of a
unit), and floating values are written doubled so that a half is one. A conversion out of range, undefined in
C, is a choice over the outcomes of the x86 build. Of the types narrower than a
word, one with a sign stands for all such.

### `FfiTypes` and the code

The list of `define_types` is the real one. `step` is its next line;
`NewType`, `KnownType`, `NoMemory` and `Crash` (a `strcmp` with a name that
`strdup` could not make) are the outcomes of `define_ffi_type` there. `js_init`
runs again for each path by which a program imports the object.

### `Wrappers` and the code

`table` is the function table of `ffi.so`, as `Bindings` has it: only the name
counts, whoever defines. `UtilDefine` and `UtilDefineExits` are `define()` of
`util.mjs`; `Foreign` is `foreign()` of `socket.js` and the top of `fcntl.js`, which
look at no result; `ImportTerm` and `FirstCall` are the table that `term.js` makes
at import and its functions' first calls; `Call` is any later call. `Dlopen` and
`Dlclose` keep the loader's account: one library, mapped from the first handle to
the last and then again at another place, or by chance at the same (`Jump`). A call
into what is not mapped is `"crashed"`. A script does not use a handle that it has
closed.

### `Fork` and the code

Each line of `test2.js` is a step of the parent or the child. `unbuffered` says
whether a line of `console.log()` comes out at once or waits in `held`, which
`fork()` copies, `exit()` writes and `_exit()` drops. The environment ends
either process by a signal, and reaps the orphan.

### `Socket` and the code

`table` is the kernel's table of descriptors, `state` what has become of each
file; `fd`, `destroyed` and `made` are the Sockets'. There is an action per method,
which names the file that its system call reaches: `SysFd` is what `this.fd`
comes to, with `undefined` for 0, and `last` remembers the call. `recvfrom()` and
`sendto()`, `bind()` and `connect()` of an accepted Socket throw (`Throws`), as they
pass the `undefined` on. `Read` with `empty` is a `read()` without a length.
Blocking calls are steps that do not happen.

### `Buffers` and the code

Beside each buffer is `meant`, what the script wanted it to say. `SetBit`,
`ClearBit` and `Zero` are the functions on an `fd_set`; `SetField`, `SetAddress` and
`SetChars` the setters of the six struct classes, with their hand-written offsets.
`declared` has the C declarations, and `Layout` and `sizeof` the rule of the ABI, so
that the offsets are compared with something that is not the code. `Query` is what
`lookup()` and `ToDomain()` write, `Question` how a name server reads it. `Place` is
the arithmetic of `js_topointer` with the wrap-around of its types.

### `FdSet`, `Telnet` and the code

A descriptor set is a TLA+ set; `Buffers` shows that the bits of a buffer are
one. `FD_ZERO` returns what it is given, as the calls in the examples have it, and
`Bit(NaN)` is 0.

In `Telnet` a turn of the loop is four steps, one for `select()` and one for each
of its three blocks, with the environment between any two: `Select`; `SendOut`,
`SendFails`, `NothingToSend`; `ReadNothing`, `ReadHandshake`, `ReadSession`,
`ReadEnds`; `NoInput`, `ReadKeys`, `ReadQuit`, `AppendFails`, `InputFull`. `KeysSent` is the set of
the keys that the loop over `inBuf` leaves of what was read, and `InOrder` the
sequence in which they are appended. With
`-l` (`listening`) the second block is `AcceptAndRead` or `AcceptFails`: the Socket of
`accept()` has no descriptor, so `conn` is NaN and its bit is that of the keyboard;
the first key makes the loop read the listening socket, the error becomes the
length of the output, and `Append` throws. A `read()` for which there is nothing is an action that is not enabled: the
process blocks. `ServerSends`, `ServerEnds`, `UserTypes` and `Drain` are the
environment. Bytes are named by where they came from and their place there, so
that repetition and reordering are visible in what was written.

Not in it: the set-up of the terminal, whose attributes `SetupTerm` does not
restore; an end of file on the keyboard; what the escape sequences look like. Handlers given
to `os.signal` never run, as `main()` does not return to QuickJS's event loop, so a
signal only interrupts a system call.

### `DnsResolve` and the code

`Lookup` makes the socket and the query of the next name; `Select`, then `SendTo`,
`SendToFails` or `NothingToSend`, then `Answer`, `EmptyDatagram` or
`NothingReceived` are the turn of the loop. `Reply`, `Lose` and `Stray` are the
network: an answer may come late, twice or never, and any host may send
anything. The encoding of a query is left out but for whether the name fits in
the buffer (`LookupThrows`).

`Lookups` is what is left without sockets and datagrams: `Start`, `Ask`, `Conclude`.
`LookupsSpec` takes the status of a lookup from `pc` and `pending`, and `disturbed`
from whether a stray datagram has come. Until then, only the resolver is asked, and
only it answers, after it was asked. After that anything may, since `lookup()`
compares neither sender nor identity and `recvfrom()` overwrites where the query
goes. That answers are repeated or late disturbs nothing: each lookup has a socket
of its own. With one port for all, an answer to the lookup before would come
before the question, when a `sendto()` has failed; the mutant `ArrivesAtPort` shows it.

The examples import `argSize` and `ptrSize` from `ffi`, which `ffi.c` does not export
(it exports `pointerSize`). The models are of the examples' code on a build that
exports them.

## 3. Runs

| Run | Configuration | What it shows |
| --- | --- | --- |
| `registry_one_name` | one name, at most 1 parameter and 2 given, depth 2, a type and an ABI that nobody knows | Memory, C strings and arrays are exact on every path (`Ledger`, `CStringsExact`, `TempsExact`); `nargs` is in bounds (`ArgsInBounds`); `Bindings` is implemented (`TableSpec`) |
| `registry_two_names` | two names and addresses, no parameters, depth 3 | A `define()` in the middle of another `define()` or of a `call()` neither duplicates, changes nor removes a name (`UniqueNames`, `NativeNodeLive`, `FirstDefinitionWins`, `TrueMeansCallable`) |
| `registry_true` | one name, depth 1; a violation | The README's reading of the `true` of `define()` does not hold: see below |
| `call_values` | all prototypes of up to 3 parameters, all results; words of 7 bits, ints of 4, integers up to 32 in a double, up to 4 in a float; one register | Arguments reach libffi (`ParametersPassed`), sizes are not larger for the C function than given (`SizeNotLarger`), values that fit in a double come back as they went (`EchoExact`, `PointerRoundTrip`) |
| `type_table` | the real list, three modules | `NamesOnce`, `TypesReady` |
| `telnet_signals` | with and without `-l`; ff f2 03 and 0x11 typed, 3 bytes from the server, buffers of 4 and 2, one signal | `InOrderOnce`, `ExceptionOnlyAfterFailure`, that every key read goes into `outBuf`, and which bytes may be lost (`SessionLossless`), and that a listening telnet ends at its first key and serves nobody (`ListenServesNobody`) |
| `telnet_live` | two keys, 3 bytes, buffers of 2, one signal, fairness | `ReadsWhenReady`, `CloseEnds`, `KeysReachServer` |
| `dns_lookups` | two names, two hosts, two strays, a repeated answer, one signal, a `sendto()` that may fail at any turn, fairness | `OneQueryEach`, `ResultsMatch`, `SocketsClosed`, `LookupEnds`; `Lookups` is implemented (`LookupsSpec`) |
| `socket_descriptors` | three Sockets, two descriptors besides standard input, all methods in any order | Which descriptor a call reaches: `LiveOwn`, `AcceptedUnreachable`, `StdinOnlyByAccepted`, `ReadDestroysAtEnd` |
| `wrappers` | three names (process, library, both), two handles, two mappings | When a name comes to the dummy (`DummyOnlyUnchecked`) and when a call to unmapped memory (`CrashNeedsUnload`) |
| `buffers` | sets of 16 descriptors, all six structs, names of up to 3 labels, all offsets of a word of 8 bits | Kernel and name server read what the script has set (`KernelSees`, `NfdsCovers`, `QueryAsks`); `PointerInside` |
| `fork` | buffered or not, two signals, `fork()` may fail, fairness | What comes out (`OutputExact`) and that it ends with 5 (`PrintsFive`) |

`TypeOK` is among what `telnet_signals` checks, where it bounds the buffers; elsewhere
it is only a theorem (`TypeCorrect`), or part of what is proved.

### The disagreement

README.md says that `define()` "produces a callable function" from a function
pointer and returns true "if the function has been defined". `define_function`
returns true at once when the name is in the list (ffi.c:225), with neither
pointer nor prototype looked at. `TrueMeansBound` states the README's reading
and `registry_true` refutes it: a name defined twice keeps its first pointer. What
does hold is `TrueMeansCallable` and `FirstDefinitionWins`.

### Why the bounds are enough

* Function table: what a step does depends on whether a name is found, on
  whether all types are known, on whether a parameter count is zero, at
  `MAX_PARAMETERS` or beyond, and on the frames below it. One name with a
  parameter and one argument too many has every case of the counts; two names
  and depth 3 have a definition in the middle of a definition in the middle
  of a call. The proofs cover all other sizes.
* Call: three parameters have a pointer before, between and behind others. The
  samples lie on both sides of what a scaled double holds and of the sign bit.
* Telnet: the server's three bytes are more than the two of `outBuf`, so a read in
  the handshake is cut, and enough for a command with text behind it. The
  handshake has its real length, four writes. `InSize` is reached, so the keyboard
  goes deaf (`InputFull`). One signal is enough to let `select()` lie once; after it
  the loop may block for good.
* DNS: two lookups are enough for the answer of one to arrive, once more, in the time
  of the other. How often `sendto()` fails has no bound: a failure leaves the query
  where it was, so the states stay finitely many.
* Sockets: with room for two, a third finds no descriptor, and a number that was
  closed is given out again while its first owner still has it. The proofs cover
  other sizes.
* Wrappers: names of the three kinds meet every outcome of `dlsym()`; a second
  mapping makes pointers of the first stale.
* Buffers: descriptors lie on both sides of the limit of a byte and of the set, and
  are negative or NaN; numbers need one, two or all bytes of a field, or more; labels
  have 0, 1, 63, 64 and 256 bytes. Fields do not influence each other but where
  they overlap, which any two of them show.
* Fork: both processes can be killed, at every place.

Runs of the examples switch deadlock checking off because a process may truly
stop there: it ends, or blocks in a system call for ever. So does `buffers`, where a
query or a pointer is made and nothing follows.

## 4. Fairness

`Telnet!FairSpec` and `DnsResolve!FairSpec` assume that the process runs
(`WF(Loop)`, `WF(Program)`): the scheduler lets a process that is not blocked
continue. `Telnet` assumes that the network takes what it was given (`WF(Drain)`),
as TCP on an open connection does. `DnsResolve` assumes that every query is in the
end answered or lost. `Fork!FairSpec` assumes that each of its processes
runs (`WF(Parent)`, `WF(Child)`). Nothing is assumed of the user, of the server of the
telnet client, of signals, or of strays. The conclusions name what is not promised:
`CloseEnds` and `KeysReachServer` make an exception of runs with a signal,
`LookupEnds` of lost datagrams, of a signal together with a failing `sendto()`, and of a `sendto()` that fails for ever, as
without a route: the query then stays in `outBuf` and the loop turns without an end
(dnsresolve.js:108). That exception is part of the formula,
`[]<><<SendToFails>>_vars`, and no fairness of the specification hides it.
`PrintsFive` makes an exception of a `fork()` that failed and of a process that was killed.
TLC finds each of these exceptions necessary.

## 5. Proofs

All proofs are for arbitrary constants under the named assumptions of the modules:
`RegistryAssumption` (bounds are naturals; known types and ABIs are among
those named; NULL is none of the names, pointers, addresses or types),
`NullAssumption` (NULL is no binding), `CallAssumption` (widths and bounds are
numbers, a word has an even number of values and an unsigned int at most half as
many, arguments are numbers of a word), `TypesAssumption`
(no type is named NULL), `WrappersAssumption` and `SocketAssumption` (the special
values differ from all others), `DnsAssumption` (the resolver is a host),
`TelnetAssumption` (the user types keys, buffers are not empty),
`BuffersAssumption` (a set has whole bytes, a buffer is smaller than half of the
address space).

`FfiRegistryProofs`:

* `Inv` is the inductive invariant, in two halves. `TableInv` is about the
  list: types, `UniqueNames`, `Ledger`, `ArgsInBounds`. `StackInv` is about
  the handlers: types, `FramesOK`, `NativeNodeLive`, `CStringsExact`,
  `TempsExact`. `FramesOK` is what the checked invariants lack to be inductive: a
  call that has not converted its name holds nothing, only a call is native, and the
  types converted so far fit `params[]`, from which `ArgsInBounds` follows
  for the node made of them.
* `Grows` says that a step keeps all linked nodes as they are. It is the link
  between the halves: a native frame far down the stack keeps its node because the
  table grows only.
* Every step of a handler is one of three kinds, a frame pushed, replaced or
  popped with what it holds. `StartKeeps`, `GoesOnKeeps` and `ReturnKeeps` prove that
  each keeps `StackInv`; one lemma per action (`...Step`) then shows which kind it
  is.
* `TypeCorrect`, `NamesUnique`, `HeapExact`, `ArgumentsFit`, `NativeNodesStay`,
  `StringsFreed` and `ArraysFreed` are the invariants as theorems of `Spec`;
  `BindingsStay` is the action property `FirstDefinitionWins`.
* `TrueIsCallable` is the action property `TrueMeansCallable`: the two actions that
  answer true are the one that has just found the name in the list and the one that
  has just linked it, whatever the conversions before have added.
* `ImplementsBindings` is the refinement: `DefineAdded` is `Bind`, `CallNative` is
  `Invoke`, `CallFunctionReturns` is `Return`, `fatal()` is `Exit`, and all else
  stutters. It needs the invariant (a name is bound once because its node is
  unique) and that depth is bounded by `MaxDepth`.

`FfiCallProofs`: `AllParametersPassed` for every prototype and all arguments.
`ParametersPassed` is not inductive, as a later pointer could take the cell of an
earlier one. `Slots` adds that pointers converted so far use the first `pl` cells
and that all others still have their own; `Arrays` that cells are in range.
`PointerCellsSuffice`: `pointer_list` is never written past its end.

`SizesNotLarger`: after the loop, `ParametersPassed` says what libffi
reads for a size, and `StoredSize` that its remainder is not larger, also where the
conversion of a floating argument is out of range.

`EchoesExact` and `PointersReturn`: `Rounded` leaves alone what is in range
(`RoundedExact`, as the unit is then 1); `StoredEcho`, `NarrowedEcho` and `CallResult`
follow a value from the script into its cell, through the width libffi gives it
and back, and `ResultInv` keeps what they say until the result is made.

`FfiTypesProofs`: `OneNodeEach` and `TypesStayReady`. `TableInv` says that only the
head of the list can lack its name, as the next search would stop at it, and that
all other nodes are lines of `define_types`, no two of the same. `FillInv` says that
in the first `js_init` each line done has left its name, and later ones add nothing.
The names are told apart by a table of their lines (`LineOf`).

`WrappersProofs`: `DummyNeedsUnchecked`, `HandleKeepsCallsSafe` and `BindingsStay`.
`PointersKnown` says that every pointer kept, in the table or by `term.js`, is of a
mapping that there has been; `TermInv` that a function of `term.js` exists only if
all were found; `LoaderInv` that the script's account of handles is the loader's,
without which a held handle would not mean that the library is mapped.

It also proves `OutputInOrder` (`OutputExact`) of `Fork`, for any number of processes
killed. `OutputExact` speaks of a parent that has ended and a child that is reaped;
`ForkInv` says the same of every place before: on a terminal the lines have come out
that a process has passed (`UnbufferedInv`), otherwise nothing has come out and stdio
holds what the parent has passed (`BufferedInv`). Most steps write nothing
(`QuietStep`); the others append a line (`CameAppend`, `InPlaceAppend`) or write all
that is held. `NothingButFive` is the safe half of `PrintsFive`: no other number is
ever printed, unless `fork()` failed or a process was killed.

`SocketProofs`: `LiveSocketsOwn`, `AcceptedLost`, `StdinSafe` and the action property
`ReadsDestroyAtEnd`. `FdInv` ties `fd` to how the Socket was made, and says that
standard input is on descriptor 0 or gone, and that nobody has 0 as long as it
is there. Steps are of four kinds, with a lemma for each: they leave the descriptors
alone (`PlainKeeps`), close one (`ClosingKeeps`), or open one or fail to
(`OpenedKeeps`, `NotOpenedKeeps`). `Disciplined` only ever goes from true to false
(`WasDisciplined`), which is why properties under it are inductive.

`DnsResolveProofs`: `NothingAskedTwice`, `ResultsInOrder`, `NoSocketLeft` and
`OnlyResolver` (`ResolverAsked`, which no run checks, as `LookupsSpec` says it too).
`SocketInv`: the socket of the lookup is the only one open, and the
inbox is its. `QueryInv`: a lookup that is still to ask has not asked. `ResolverInv`:
without strays, no other host is in any datagram or in `remote`, though `recvfrom()`
writes the sender there.

`ImplementsLookups` is the refinement: `Lookup` is `Start`, `SendTo` is `Ask`, `Answer`
is `Conclude`, the first stray is `Disturb`, and all else stutters. That an answer
comes after its question needs `AskedInv`: queries in the network are of lookups
so far, and as long as this lookup is pending none is its own, so that a reply finds
its socket closed (`ReplyAsked`) and the inbox is empty without strays.

`TelnetProofs`: the inductive invariant `Inv` has five parts.

* `TypeOK`, as the theorem `TypeCorrect`. In it are the bounds: `inLen` stays in
  `inBuf` and within what was typed, `out` in `outBuf`, which only `Append` replaces
  by a larger one, and `outLen` is the length of `out` or -1.
* `ReadyInv` carries what `select()` found through the blocks: what is ready stays
  so, since nobody else reads. From it `ReadsOnlyReady` (the invariant
  `ReadsWhenReady`): without a signal, and as long as `conn` is a number, no block
  reads what is not ready. While `conn` is NaN the loop reads the socket without having
  asked for it (telnet.js:172), which the invariant leaves open.
* `ListenInv` is the life of `-l`, block by block, up to the key that ends it. From it
  `NobodyServed` (`ListenServesNobody`).
* `OrderInv` is why `InOrderAndOnce` (the invariant `InOrderOnce`) holds. That alone
  is not inductive: what is read next must be new. So `OrderInv` adds that all bytes
  on the wire, in `outBuf` and on the screen have been read, that what was written
  is below what is still to be written, and that nothing is shown as long as the
  handshake puts the server's bytes into `outBuf`. `AscendingConcat` and
  `BelowConcat` say what a concatenation needs, so that a step is proved by
  what it appends or takes off.
* `ErrorInv`: in a client an error number gets into `outLen` only from a connection
  that has failed. From it `FailureOnly` (`ExceptionOnlyAfterFailure`).

`Lossless` is the action property `SessionLossless`: every step but the reads of the
handshake leaves the stream as it was or makes it longer at its end, and every key a step reads
is in `outBuf` behind it, but for an interrupt read together (ff f2) and for a step that
ends the program. The first half is about what is written and taken off. The
second is `KeysQueued`: the keys one read returns are appended all, or the step is one
of the exceptions. It rests on `AppendedQueued` and on `AllInOrder`, that an
increasing function from 1..n to the n keys reaches each of them.

`BuffersProofs`:

* `PointersInside`, from `PlaceExact`, the arithmetic of signed and unsigned words of
  any size.
* `NfdsIsEnough` (`NfdsCovers`) and a half of `KernelReads` (`KernelSees`), for sets of
  any number of whole bytes. `SetsInv`: the members of the bits are what was meant.
  `SettingOne` and `ClearingOne` say that `FD_SET` and `FD_CLR` change the bit of
  their descriptor only. They come from `BitAdded`, `BitTaken` and `BitsApart` on a
  byte, which has eight powers of two, and `Places`, which finds byte and bit.
* The other half of `KernelReads`: `Laid` is the layout of a struct, shown for each of
  the six from its C declaration (`Laid_termios` and so on), and `OneLayout` that
  there is only one. `StructInv` says that every member reads as was meant;
  `MemberWritten` that a setter changes the bytes of its own member.
* `ServerReads` (`QueryAsks`), for any number and length of labels. `QueryShape` is where
  each label, its length byte and the end of a query lie. It rests on `Flattened`,
  what the fold that joins the labels gives. `ReadingExists` is that the reader's
  function is one: it is defined from the end of the query downwards. `ReadsGood`
  then follows the reader from label to label if all have 1 to 63 bytes;
  `ReadsBad` shows that the first that has not ends the name or spoils the query, also
  where its length byte wrapped around, `SpoiltStep` that labels in front do not mend
  it, and `ReadsOther` puts these together.
* The induction these need is `Induction` and `Downward`. It is over a set of numbers,
  from the well-foundedness of `<` (`Least`), as the library's own theorem takes
  an operator, which these provers cannot instantiate.

Only checked by TLC:

* liveness, and anything with ENABLED, which TLAPS does not do: `LookupEnds`,
  `CloseEnds`, `KeysReachServer`, `PrintsFive`.

No module declares a RECURSIVE operator.

## 6. Not modelled

* `toString()` and `toArrayBuffer()`, which copy from any address they are given:
  what is there is not a matter of this code. `JSContext()` and `debug()` return a
  constant or print. `errno()` and `dlerror()` hand out state of the C library.
* `test.js`, `test.c`: calls in a row.
* The tables of constants of the examples, the parsing of `resolv.conf`, what is
  printed, and the set-up of the terminal.
* Threads: a Worker that imports `ffi.so` shares its static data without a lock, but
  nothing in the repository starts one.
* Handlers of signals (telnet.js:137), which never run.
* libffi, libc, QuickJS, the kernel: outside of the repository; modelled as their
  callers see them.

## 7. Plan

Done: the core of `ffi.so` with the proofs of what matters most; the two programs
with real concurrency; then wrappers, Sockets, buffers and the fork, with proofs for
all of them. Left, in order of worth:

1. The message that `dlerror()` hands out once, and `errno`, in `Wrappers`.
2. A refinement for the Socket class, as for `ffi.so` and the resolver: a table of
   open files without the numbers that are given out again.

## 8. Running

    tlc -config MCFfiRegistryOneName.cfg MCFfiRegistry
    tlc -config MCTelnetLive.cfg MCTelnet
    tlapm FfiRegistryProofs.tla

Each other run is its MC module with the configuration of its name; none takes
more than about two minutes.

# A verification development for PySide6's runtime libraries

PySide6 lets Python code use Qt. Most of its code is generated from the type
system files (`src/PySide6/**/*.xml`); what is written by hand, and keeps state
while a program runs, are the libraries `libpyside`, `libpysideqml` and
`libpysideremoteobjects`, and parts of the glue code that the generator pastes
into its output. They stand between two object models with different ideas of
identity, ownership and threads: Qt destroys objects by parents and posts
signals between threads, Python counts references and serialises everything
with the GIL, and hands the GIL over wherever Python code runs.

This directory holds TLA+ modules of those libraries, TLC configurations that
check them on small instances, and proofs of their central invariants for all
instances.

## 1. The system

### Components

| Component | Source | State | Operations | What makes it correct | Modules |
|---|---|---|---|---|---|
| Dynamic slots | `libpyside/dynamicslot.cpp`, `qobjectconnect.cpp`, `pysideqslotobject_p.cpp` | `connectionHash` (key to `QMetaObject::Connection`), the tracker of destroyed senders, one weak reference per connected receiver | connect (callback, callback with context, by name), disconnect (callable, index, connection, everything), death of a sender, of a receiver, of the application | a connection ends when its receiver dies; no slot calls a method on a dead self; an entry leads to its own connection; entries go with their senders | `DynamicSlot`, `ConnectionRegistry`, `ReceiverSweep` |
| Feature selection | `libpyside/feature_select.cpp`, `class_property.cpp` | per class a ring of dicts; the class and the id selected last; the id of the globals seen last | `from __feature__ import`, attribute access of a type, definition of a class | an access sees the dicts of the features of its module, for all bases | `FeatureSelect` (partly) |
| Dynamic meta objects | `libpyside/dynamicqmetaobject.cpp` | per class or object a builder, its dirty flag, the meta objects made so far | parse a class, add signals, slots, properties, enumerators and infos, `update()` | indexes that were handed out stay valid; signals before slots; nothing is lost | `MetaObject`, `Properties` (partly) |
| Registration of meta methods | `libpyside/signalmanager.cpp` | `__METAOBJECT__` in the dict of an object | `registerMetaMethodGetIndex`, `retrieveMetaObject`, `metaObject` | one index for a signature of an object | `MetaObject` |
| Meta calls | `libpyside/signalmanager.cpp`, `pysidemetafunction.cpp`, `pysideqmlmetacallerror.cpp` | the Python error indicator, the QML handler of errors | `qt_metacall` on slots, signals, properties | no use of an object deleted in its slot; errors reach the caller or the log, once | `MetaCall`; wrapped Python objects in `HeldCallables` |
| Signals | `libpyside/pysidesignal.cpp` | chains of overloads; instances cached in the dict of the source | signal lookup, `[]`, connect, disconnect, emit | an overload is found by its signature; an instance belongs to a living source | `SignalInstance` |
| Properties | `libpyside/pysideproperty.cpp` | accessors of a property, its notify signal | get, set, reset, decorators | a derived accessor does not change the base; notify ids are those of the signal; accessors are counted | `Properties`, `Accessors` |
| Slots, QEnum, class decorators | `libpyside/pysideslot.cpp`, `pysideqenum.cpp`, `pysideclassdecorator.cpp`, `pysideclassinfo.cpp` | enums seen, by line; types of slots; private data of a decorator | `Slot`, `QEnum`, `QFlag`, `ClassInfo`, resolve when the class is made | what is declared reaches the class it stands in, and it only | `ClassBodies` |
| Wrapper lifetime | `libpyside/pyside.cpp` | wrapper map, `invalidate` properties, the stack of cleanup functions | wrap a QObject, destroy the application, keywords of constructors, clean up | one wrapper for one object; nobody visits a deleted one; a keyword reaches its setter | `WrapperLife`, `Construction` (partly) |
| QML integration | `libpysideqml/` | infos of decorators by class, the table of attaching types, the address for the next QObject | register types, create objects in place, attached objects, extensions, lists | no deadlock of the mutex and the GIL; creations keep out of each other's memory; what is registered is what decorators said | `QmlTypes`, `QmlCreation`, `Accessors` (partly) |
| Remote objects | `libpysideremoteobjects/` | generated types, capsules that own their C++ parts, values of sources | load a `.rep` file, create types, properties and methods of sources and replicas | generated types release what they own; a replica shows what its source has; bindings settle | `RemoteObjects`, `RemoteCalls` (partly) |
| Glue: pipe | `PySide6/QtCore/glue/qiopipe.cpp` | two devices, each with a buffer | open, read, write, close | what is written at one end is read at the other | `IOPipe`, `Fifo` |
| Glue: callables | `PySide6/glue/qtcore.cpp`, `qtgui.cpp` and others, `qeasingcurve_glue.cpp` | functions of curves, timers, threads, requests, post routines, message handler | give a callable to Qt, be called, be replaced, end | a callable lives as long as Qt may call it | `HeldCallables` |
| Glue: layouts | `PySide6/glue/qtwidgets.cpp` | references of wrappers of layouts, parents of wrappers | add, remove, set a layout | what is in a layout lives as long as it | `WidgetLayouts` (partly) |
| Glue: sequences | `PySide6/glue/qtcore.cpp` | none but the array | items and slices of `QByteArray` | those of Python | `ByteArrays` (partly) |
| Glue: other snippets | `PySide6/glue/` | none | conversions, operators, results | | |
| Static strings, NumPy helpers, Designer plugin, promotion gate, type systems, build scripts | several | none that runs | | | |

### How they interact

- `QObject.connect()` in Python goes through *signals* to *dynamic slots*, and
  these ask *registration* for the index of a method if the receiver is a
  QObject with a slot in its meta object. A slot that is unknown adds a method
  to the *meta object* of the receiver.
- A weak reference of a receiver calls back into *dynamic slots*, with the GIL
  released while Qt disconnects; Qt may then destroy further Python objects,
  and with them comes the next callback, inside the first.
- `destroyed()` of a sender calls the tracker directly, or by an event of the
  tracker's thread.
- Attribute access calls *feature selection* first; the definition of a class
  registers it there and makes its builder, which collects what *slots*, *QEnum*
  and *properties* have left in the class body or in tables beside it.
- *Meta calls* enter Python from any thread and leave it with a result or an
  error.
- QML calls *creation* in any thread, which waits for a mutex and the GIL; the
  constructor of a QObject deep below takes the address that was left.

### What is hard

The GIL protects a step only until Python code runs: `PyErr_WarnEx`,
`__setattr__`, a message handler, a weak reference's callback, the event of a
dynamic property. Keys and caches hold addresses, which are used again. Several
structures are changed by callbacks while they are walked. Objects die in an
order that two systems decide. References are counted by hand, in each snippet
of glue in its own way. What is declared in a class body waits in process-wide
tables for a class that does not exist yet. `PROJECT.json` lists these hazards
at their lines, with the properties about each.

## 2. Plan

Written, in this order:

1. `DynamicSlot`, its abstract specification `ConnectionRegistry`, and
   `DynamicSlot_proofs`: the component in which all the hard things meet.
2. `FeatureSelect` and `FeatureSelect_proofs`.
3. `ReceiverSweep` and `ReceiverSweep_proofs`: `disconnectReceiver()` step by
   step, which `DynamicSlot` takes as one action.
4. `MetaObject` and `MetaObject_proofs`: builders of classes and objects and
   the registration of methods.
5. What happens to objects: `WrapperLife`, `MetaCall`, `SignalInstance`,
   `Accessors`, `WidgetLayouts`, `ByteArrays`.
6. How classes come to be: `Properties`, `Construction`, `ClassBodies`,
   `QmlTypes`, `RemoteObjects`.
7. What single modules of Qt need: `QmlCreation`, `RemoteCalls`, `IOPipe` with
   its abstract specification `Fifo`, `HeldCallables`.
8. `CommonLemmas` (stacks of calls, least and greatest numbers, parts and totals of
   sequences), and the proofs about 5 to 7 in `Objects_proofs`,
   `Definitions_proofs` and `Modules_proofs`. `Selection` has what `SelectSeq` and a
   sum compute as recursive functions, for the modules that are proved about.

To come, most important first:

9. The feature procedures and class properties in `FeatureSelect`; the cleanup
   stack in `WrapperLife`; parents of tree items and scenes beside
   `WidgetLayouts`; `QBitArray` and buffers beside `ByteArrays`.

## 3. The modules

Many operations are correct only for programs that do without certain
liberties. The modules have them as constants: a module looks at *programs*,
sets of liberties that a behaviour takes, chosen in the initial state
(`Programs`, `MetaPrograms`, `HoldPrograms`, ...), or flags (`Repeats`,
`CrossThread`, ...). The actions of the liberties are modelled as the code has
them. A run is given the programs under which its properties hold, as many as
there are; section 6 lists what goes wrong with the others, and how to see it.
So the runs say precisely what a program has to avoid.

### DynamicSlot

State: `connectionHash`; `conns`, the connections Qt has, with what is in their
`PySideQSlotObject`; `senders` and `objects`, what lives; `watched`, the objects
with a weak reference whose callback is `disconnectReceiver()`; `tracked`, the
senders whose `destroyed()` is connected to the `tracker`; `queued`, the
notifications in the tracker's event queue; `pending`, what a thread has
connected while it did not hold the GIL and has still to register.

An action is what a thread does while it holds the GIL; `qobjectConnectCallback`
releases it around `QObjectPrivate::connect`, so connecting and registering are
two actions. Senders and connections are model values, and the value of a dead
one is used again: that is how an address is. `connectionKey()` is modelled with
the kinds of callables it tells apart (bound method, C function, other
callable); "index" is a slot found in the receiver's meta object, which is
connected without an entry. Signatures, arguments and the call itself are left
out.

Five constants say what the program does: `Repeats` (connects a callable again
that is connected), `Contexts` (passes a context object), `OtherRoutes` (Qt's
ways to connect and disconnect besides the entries), `CrossThread` (senders die
outside the tracker's thread), `AppRestarts`. A program is *disciplined* if it
has neither `Repeats` nor `Contexts` nor `CrossThread`.

`ConnectionRegistry` is what the component promises: a set of links (sender,
signal, callable) and the set of living things; a link ends by a disconnect or
with one of its ends.

| Run | Shows |
|---|---|
| `disciplined` | connections are tracked (`LiveConnectionsTracked`), no slot outlives its self (`NoDanglingSelf`), entries belong to senders that live, are about to be swept, or whose successor is tracked (`EntrySendersKnown`); `ConnectionRegistry` is implemented (`ImplementsRegistry`) |
| `full` | with everything allowed: what is tracked is safe (`TrackedSelfAlive`), entries lead to connections of their key (`EntryLeadsHome`) |
| `live` | entries of dead senders go (`DeadSendersForgotten`) |
| `repeats` | a disagreement with a comment in the code, section 6 |

Bounds: one or two senders, one signal, two Python objects (one of them a
QObject), five callables, two or three connections, one or two threads, one or
two notifications in the queue (`MaxQueued`). Two senders let one address be
used again while another is alive; three connections let one entry be
overwritten while two others share a receiver; a second thread comes between
connecting and registering. One signal is enough, as keys with different signals
meet nowhere but in loops over all keys, which two senders exercise. Deadlock
is not checked: after `DestroyApplication` with all objects dead and no restart
the program may have nothing to do.

Fairness: weak fairness of the delivery of a posted notification, as the thread
of the tracker runs an event loop. Nothing else is fair: no program has to
connect or to destroy anything.

### ReceiverSweep

One thread in `disconnectReceiver()`. State: `place`, the bucket of each entry of
`connectionHash`; `connected`, what Qt has; `sweeps`, the stack of calls, each with its
iterator, the size it has noted and the step it is at. An action is the way of the
loop to the next entry of its receiver and the call of `QObject::disconnect()` (`Cut`);
what runs inside it (further deaths with their own sweeps, connects, disconnects); the
erasure after it with the check of the size (`Erase`); and the return.

Which entry an iterator hits after the hash has changed depends on `QHash`, which is
external and modelled as Qt 6 has it: buckets in a ring, an entry in the first unused
bucket from that of its hash value on, an iterator that is a bucket number, and
`erase()`, which moves entries behind the gap back into it, if their own bucket is not
after it. The hash functions are a constant (`Homes`); the hash is never more than half
full, so that it does not grow. Erasing an unused bucket is undefined (`broken`) and
ends the behaviour.

It is a part of the run `objects`: three receivers, one of them with two connections,
four keys, eight buckets, and sweeps up to two deep; all keys want the same bucket, the
last, so that they wrap around, or each its own. `SweepIsComplete`: when all calls have
returned, dead receivers have no entries. It is not clear that this holds, as the
iterator may hit another entry than the one it was at; it does because `erase()` moves
nothing from behind a bucket to before it, and because a hash that is as large as it was
is the same - unless code that runs inside a sweep connects, which the property
excludes (`connects`). `SweepEnds`: a sweep ends, or breaks the hash. It assumes weak
fairness of the steps of a sweep that has begun: a C++ function that was called runs on,
and so does the Python code it calls.

The run `collides`, with three sweeps inside each other, shows the entry of another
receiver erased (section 6).

### FeatureSelect

State: the ring of dicts of each class and the one in use, the class and id
selected last, the globals and the id seen last, the select id of each module,
living user classes and the calls of the threads. `Select` is a whole attribute
access up to the point where filling a dict runs Python code; then the call is
in `calls` and `Resume` goes on. What a feature procedure puts into a dict is
abstracted to complete or not. `Switches` says whether the GIL may go at that
point, `TypesDie` whether user classes are collected (their addresses are used
again). A program is *quiet* if neither happens.

| Run | Shows |
|---|---|
| `sequential` | in a quiet program every access sees the dicts of the features of its module (`AccessSeesItsFeatures`). This rests on a cache that is right (`CacheTruthful`) and on remembered features (`RememberedFeatures`), both proved |
| `rings` | rings are whole (`RingWhole`) with two threads, split selections, and classes that die |

Bounds: `sequential` has a class, one derived from it and one address for user
classes, two modules and two ids; `rings` one class, three ids, of which one
needs Python code to fill its dict, and two threads. Three ids are the least for
which a dict can be inserted between two others from either side.

### MetaObject

State: `mo`, the builder of each class; `classOf` and `dmo`, the class and the
own builder of an object; `calls`, a thread waiting for Python code inside
`update()` or before a method is added; `handed`, a history of the indexes
returned. A builder is the record of `m_baseObject`, `m_builder`, `m_dirty` and
the last of `m_cachedMetaObjects`; a meta object is the sequence of its methods.
`update()`, `checkMethodOrder()`, `parsePythonType()`, `addSignal()` and
`addSlot()` are operators on builders. Indexes are counted from 1 instead of 0.
Properties, enumerators and infos are left out, except that an info makes the
builder dirty. `PythonRuns` says whether Python code runs in the message handler
of `addMetaMethod()`, in `PyErr_WarnEx` and in `__setattr__`; there the GIL may
go. (In `__setattr__` it goes when the builder is in the dict; a user's own
`__setattr__` could hand it over before, which is not modelled.)

| Run | Shows |
|---|---|
| `gil` | without Python code in these places every index handed out leads to its signature for good (`IndexHolds`), a signature has one index (`OneIndex`), classes have their signals first (`ClassesOrdered`) |
| `python` | with two threads and Python code everywhere the meta object of an object only grows (`MethodsOnlyGrow`) |

Bounds: three names, one Qt class with one signal, one or two Python classes
with one of two bodies (a mixin; a redefinition), one or two objects, one of
them made by C++, one or two threads. Three names let a method be inherited, be
in the class and be added later. Numbers of methods are bounded by the names and
kinds, as a name that is found is not added.

### What happens to objects: the run `objects`

Seven modules that share no state are checked by one run, `ReceiverSweep` (above) and
six others. In a behaviour of
`MCObjects` one *part* moves and the others rest in an initial state; a property
of a module is therefore checked in the behaviours of its part. (Composing them
freely would multiply the states and show nothing more.) `MCDefinitions` and
`MCModules` are made likewise. `Interpreter` has the GIL, which `WrapperLife` and
`QmlCreation` share with it.

**WrapperLife** - `getWrapperForQObject()`, the property that invalidates a
wrapper, the destruction of QObjects with their children, and
`destroyQCoreApplication()`. State: what is at an address, its thread, parent,
mark and wrapper; `owning`, the wrappers with Shiboken's flag of ownership, which is set
when Python makes a QObject without parent or is given one (`owners`), and reset when
Python gives it a parent - not when C++ does; `frames`, the calls of each thread, with
the steps at which others come in: the event of `setProperty()`, the load of a type,
destructors of children, the wait for the GIL between `hasWrapper()` and the release.
The last reference to a wrapper may go at any of them. Two addresses, two threads, two
calls inside each other: an address is used again while the destructor of its former
object waits for the GIL. `WrappersMatchObjects`: one wrapper at most, none when the
memory is free. `QuitDestroysOnce`: the visitor, which knows only the flags, calls no
destructor for what is gone already. While the visitor is at work no QObject is made and
none gets a parent; what its destructors run is only destruction.

**MetaCall** - one thread in `qt_metacall()`, `callPythonMetaMethod()`,
`qtPropertyMetacall()` and dynamic slots. State: the stack of calls with their
steps, the error indicator, errors fetched by a call, and what lives. Python code
may call on, raise, delete objects, those of running calls among them, and take
properties away; `sys.excepthook` is Python code again. `ErrorsPrintedOnce`: an error is
set, held or printed, once. That no call uses its object or property when that is gone
(`NothingUsedAfterItsEnd`) is no property of a run, as each program breaks it (section
6); where it is broken the behaviour ends. Depth three, two objects, two errors: an error
inside the printing of another.

**SignalInstance** - one object of a Python class derived from a C++ class, whose
dicts vary (`Layouts`). State: the chains in the dict of the object, the phase of
the QObject, the connections. `instanceInitialize()`, lookup along the mro, the
sorting of overloads, `[]`, `connect()` with the choice of an overload by the
arguments of the callable or by the other signal, `disconnect()`, `emit()` and the
homonymous method are operators. `OverloadsFit`, `LookupFindsItsSignal`,
`DisconnectFindsIt`, `CallsReachTheirMethod`. Two names and two types; overloads
have up to two parameters, which is enough for defaults, clones and an
overload without parameters behind one with them.

**Accessors** - reference counts of the functions in `Property` and
`ListProperty` objects: constructor, decorators, the garbage collector's `clear`,
deallocation, calls from Qt and QML. `AccessorsHeld` compares the counts with who
refers to a function. Two functions, one of which refers to a property; two
property objects.

**WidgetLayouts** - `addLayoutOwnership()`, `removeLayoutOwnership()`,
`qwidgetSetLayout()`: who owns and refers to what while widgets and layouts move
between Python, layouts and windows. `LayoutsHoldTheirItems`. Two widgets, two
layouts, two names: a layout in a layout, and a name that changes in between.

**ByteArrays** - `__mgetitem__`, `__msetitem__` and what they call, against a
definition of Python's slices that is independent of the code: items
`start + k * step`, each value in its place, and the others in their order when it is
deleted (`SlicesAsInPython`). `__msetitem__` is also what `del` calls, without a value
(`DeleteIndex`, `DeleteSlice`): with a range it is right, with an item or an extended
slice it uses the null pointer, so the run has deletions of ranges only (`deletes`,
section 6). The conversion of the missing value to an empty array at the end is the
generator's and external. All arrays and values of up to three characters, all indexes,
starts and stops from -4 to 4 or missing, steps of -2, -1, 1 and 2: boundary cases are
those where a bound meets the length, or a step passes it.

### How classes come to be: the run `definitions`

**Properties** - decorators that copy property objects, class definition with
`parsePythonType()` and its check for properties of the bases, `getFromType()`,
and entries of meta objects with their notify index. A hierarchy is a constant, and
so is its mro (`PythonMro`), which Python computes: `MroAssumption` says of it that it
has the classes of a search in depth and is that search where no class has two ways up,
as is true of C3; what else C3 promises is not needed. Lines with a mixin, first or
last, and a diamond. `PropertiesAgree`: Qt, which has the meta object, and Python, which
has the dicts, mean the same property, with the same accessors and signal.

**Construction** - `fillQtProperties()`: the keywords of one constructor call in
the two spellings, properties of C++ and Python, overridden setters, signals, and
errors with and without `allowErrors`. `KeywordsReachSetters`. Names are
sequences of letters, so that mangling is modelled by what it does.

**ClassBodies** - class statements and the lines in them, `QEnumMacro()`,
`resolveDelayedQEnums()`, `slotCall()`, `ClassInfo`. State: the frames of
Python, the collector by line, lists of slots, decorator objects.
The program may have classes that are no QObjects (`plain`), bodies that raise (`raises`),
imports in bodies (`imports`), classes made by functions further up (`factories`),
classes that refuse the attribute an enumeration is to be (`refuses`: the error path of
`resolveDelayedQEnums()`), or decorators that are used again (`reuses`).
`DeclarationsReachTheirClass`: the infos of a decorator go to one class in all of these;
enumerations and slots arrive in a program that does none of them, and section 6 says
which fails with which. Three lines below a module's first and two classes put one class
in another, before or after a declaration, which may be in another module.

**QmlTypes** - decorators and free functions that register a class, the table of
attaching types with its limit (`MAX_ATTACHING_TYPES`, here 2), the hash of
infos by address, and the later lookups by QML. `QmlFindsItsClasses`,
`RegisteredAsDecorated`. A program says which class has which decorators
(`QmlPrograms`): one with all of them; three with an attached type each, one more than
the table has room for, so that the lookup of a slot has several candidates and the
third class goes without; and two that describe foreign classes, with an attached type
and an extension. Three addresses: two described classes and one that both may name, or
three of the same kind.

**RemoteObjects** - `RepFile`: the types of PODs and classes with what C++ holds
for them, in capsules that are counted; failures in the middle; evaluation of
defaults; setters of sources bound to each other. `CapsulesReturn`,
`BindingsSettle`. Two files of two declarations, two sources with two values;
bindings in a circle.

### What modules of Qt need: the run `modules`

**QmlCreation** - `createInto()` with its mutex, the address for the next
QObject, and the GIL; the other callbacks, for singletons, attached objects and
extensions, which take the GIL only and make a QObject too, and for list properties;
Python hands the GIL over at any time. A QObject takes the address that was left,
whoever makes it (`Constructed`). `MemoryKeptApart`: memory that QML allocated for one
object never gets one that QML wants elsewhere, nor a second one, nor one when its call
has ended. That it gets its own object (`MemoryReachesItsObject`) is not so (section 6).
`CreationEnds`: no thread waits for the mutex while it keeps the GIL from the one that
has it. Two threads, two blocks of memory; programs that make no other objects, that
make them in constructors and other threads (`helpers`, `others`), that let QML create
in constructors (`nested`), and that enter QML with the GIL (`keepsGil`).

**RemoteCalls** - a source, a replica and the packets between them. QtRemoteObjects
is external: packets arrive in order, those on their way are lost with the
connection, a new one begins with all values. `PropertyIndex`, `MethodIndex` and
`Sent` are the arithmetic of `createDynamicClassImpl()` and `send()`. The replica's
handler looks at the number of the arguments of a method only; what they are is found
out where they arrive, and a call is answered in each case (replies are external).
`ReplicaFollowsSource`: a value that is sent is not shown before the source has
taken it, and reaches the property it was sent to; `ReplicaConverges`. Three
`.rep` files (a property read only with its push method, a POD, two
properties), three requests, two connections.

**IOPipe** implements **Fifo** - two ends with their buffers; `write()` emits two
signals in the middle, whose slots read and write again; `QIODevice`, external,
reads ahead. `PipeIsFifo` is the refinement: bytes arrive in order, each once, the
reader is told after each write, and reopening loses the bytes read ahead only.
Five bytes, a buffer of three and chunks of two fill the buffer and split a
write; the bytes that were read are a history.

**HeldCallables** - for each way in which glue holds a callable (attribute and
table of easing functions, functors that release it, lambdas with raw pointers,
lists of routines and factories, the message handler, `PyObjectWrapper`):
registration, replacement, call and end; `requestPermission()` with its lookups, which
leave an AttributeError behind for a plain function (`plain`), and use a null pointer for
other callables (`others`). `CallablesHeld` says for every program that nothing that
will be called was freed, and for each liberty what it does not break: references are
exact but for `drops`, `adds` and `moves`; a copied curve calls the function it had but
for `copies`; an application leaves no routines but for `apps`; there is a handler when
one is called but for `removes` with `threads`; no exception is left but for `raises` and
`plain`. The run has 13 programs, each liberty among them. Two functions, two curves, a
table of three places (ten in the code) that two curves and a copy can fill, two calls to
come, lists of two, and four references of a function (`MaxCount`; a callable that is
dropped again and again has more each time).

| Run | Distinct states | Shows |
|---|---|---|
| `objects` | 1 160 000 | the properties of the first seven modules |
| `definitions` | 1 610 000 | those of the next five |
| `modules` | 115 000 | those of the last four, with liveness |

Fairness in `modules`: a thread that waits again and again for the mutex or the
GIL gets it in the end (strong fairness: `QMutex` and the condition variable of
the GIL wake a waiter, though not in order); a thread that runs Python goes on,
and gives the GIL to one that waits (CPython's switch interval). Packets arrive
and a lost connection is made again, as often as the bound allows (weak fairness:
both sides have an event loop). A slot that runs in `write()` returns.

Deadlock is not checked in the three: the bounds on requests, classes, functions
or errors bring a part to an end, as does the death of its objects.

## 4. Proofs

TLAPS checks all of these for arbitrary values of the constants.

**DynamicSlot_proofs.** `TypeCorrect`, `TrackedSafe`, `EntriesLeadHome` hold for
every program; `ConnectionsTracked`, `SelfNeverDangles` and
`RegistryImplemented` assume `Disciplined == ~Repeats /\ ~Contexts /\
~CrossThread`; `SendersAreKnown` assumes `~AppRestarts`,
and is inductive as it is. The other invariants are not: that a tracked connection has a living self needs that every living
connection that borrows a self and is tracked has a weak reference, that entries
and pending registrations have the key of their connection, and that a
connection is pending in one thread at most. With discipline, in addition, no two
living connections have a key in common, which is what makes `insert` harmless.
`RegistryImplemented` needs this too: the links of `ConnectionRegistry` are a
set, and a step of the code is mapped to making a link, ending one, or the death
of one end with all its links; two connections with one key would be one link
that has to end twice. The mapping is in `DynamicSlot`, at `Registry`.

**ReceiverSweep_proofs.** `TypeCorrect` and `SweepsComplete` hold for any number of
receivers, keys and buckets, every hash function and any depth. First it is proved what
`erase()` does: the entries it moves are determined, each goes to a bucket of its own
(`Apart`), and none comes before the bucket that was erased, in the order from 0 on.
`SweepInv` then says of each call on the stack what it may rely on, however many others
run inside it (`CallsSound`): its receiver is dead, and all entries of it that are left
are where its iterator is or after it, or the hash is smaller than it has noted, so that
it will start again; calls that are not the innermost wait in `QObject::disconnect()`
(`OthersWait`); and a dead receiver with entries has a call (`DeadAreSwept`). The
condition of the property, that no code inside a sweep connects, is what makes the
comparison of sizes say that the hash is the same.

**FeatureSelect_proofs.** `TypeCorrect`, `RingsWhole` and `FeaturesRemembered` hold always;
`CacheCannotFail` and `FeaturesRespected` assume `Quiet == ~Switches /\
~TypesDie`. A ring is described by a permutation of the dicts that are in it: the
proof that inserting keeps it one is about the successor function and needs no
induction. The cache holds as all the dicts in use are those of the id selected
last, for the class selected last and its bases.

**MetaObject_proofs.** `TypeCorrect` and `OnlyGrow` hold always; `IndexesHold`
and `OneIndexEach` assume `Quiet == ~PythonRuns`. `OnlyGrow` rests on builders
being *sound*: what is cached is a prefix of what the builder has, and all of it
if the builder is clean. The other two rest on `GilInv`: an index that was
handed out is the last one of its name in all methods of the builder the object
uses, in the base or its own, and the base of a new builder is what the object
had before. `ClassesInOrder` holds for every program: `checkMethodOrder()` makes the
methods of a class those that are signals, followed by the others, and both parts
keep their order.

**CommonLemmas** has what several of the modules below need: what pushing, popping
and changing the last call leave of a stack, the parts of a sequence and of a
concatenation, the elements chosen from a sequence (in their order, each from one
place), totals of a sequence of which one number changes, least and greatest numbers
of a set, and induction for a set of numbers that is given (`AllNumbers`), from which
the existence of a function that is defined recursively follows, step by step.

**Objects_proofs.** *WrapperLife*: `TypeCorrect` holds for every program, and so does
most of `LifeInv`: an address has one wrapper at most (`OneForEach`) and one destructor
(`OneDestructor`), which has its object and, without `owners`, leaves no wrapper with the
flag of ownership after its first step (`DestructorsSound`); the flag is then only on
what Python made (`PythonOwns`), whose destructor begins by releasing the wrapper; and
while the application is destroyed its thread has the GIL and is the only one in a call
(`QuitAlone`). From these follows, step by step, that the visitor calls no destructor
twice (`QuitOnce`), for programs without `owners`; for those without `foreign` and
`events` it follows from `TameInv`, which adds what one destructor may rely on while
others run inside it. `WrappersMatch` speaks of the latter, too, as its property says. *MetaCall*: `ErrorsArePrinted` holds for every program; `ErrorInv` says where
an error may be while its call stands at a step.
*Accessors*: for programs whose arguments can be parsed and that keep what QML has
(`Decent`), `DecentInv` counts the references of an object in five parts: the program,
the arguments of the constructor that runs, the fields that are shown, the functions,
and the calls. Each action moves some from one part to another. An object that was
freed has none, so that nothing refers to it, which in turn is why a new object at the
same place starts with one. That the collector takes nothing the program refers to
needs that what it starts from is among what it reaches, an induction over its rounds.
*SignalInstance*: `SignalInv` says that the overloads of an instance are those of its
Signal, in their order, and that a connection is the one its instance leads to;
`OverloadsFitAlways` and `DisconnectFinds` follow for every program. `LookupFinds`
and `CallsReach` have conditions, in the properties: `LookupInv` says that what the
dict of an object has under a name is of the Signal that the class has there, if
Signals have the names of their attributes, and `Complete` that none is missing when
the constructor has run. (A proof attempt showed that `CallsReachTheirMethod` was
stated for too many programs: if a Signal is used before the constructor and has
another name than its attribute, what comes into the dict hides a method.)
*ByteArrays*: `SlicesLikePython` is for programs that do none of what section 6 lists,
with ranges deleted. The items of a slice are numbered in the order of its step (`IsItems`),
which is what `Selected` and `Place` of the reference definition say, too; after each
turn of the loop of a slice with a step the items met so far have their values and no
other has changed (`Written`); and replacing one byte is to remove and to insert.

**Modules_proofs.** *QmlCreation*: `TypeCorrect` and `MemoryIsKeptApart` hold for any
number of threads and blocks, for every program, and wherever Python hands the GIL over.
`CreationInv` says of each call that its thread has the mutex from the time it leaves an
address until it has come back (`Holds`), that one call does, and that calls are for
different blocks (`CallsSound`); and that the address that is left, if any, is that of a
call in the middle, whose block waits for its object or was refused it (`AddressSound`). The GIL is in no part
of it: the mutex alone is enough.
*IOPipe*: `PipeImplementsFifo` is the safety part of the refinement, for buffers, chunks
and reads of any size: what was written at one end is what was read at the other, what
was read ahead and what is in the buffer, in this order, so that each step is one of
`Fifo`'s or none. *RemoteCalls*: `RemoteInv` says that the packets on their way to a
replica lead from the values it shows to those of its source (`Follows`), and that
what is on its way to the source is well-formed for the `.rep` file; its assumption is
what `repc` guarantees, that a property with a push method has the method that belongs
to it. *HeldCallables*: `CallablesAreHeld` holds for every program and set of liberties;
`HeldInv` counts the references of a callable, kind by kind of its holders, as at least
as many and, but for three liberties, no more, and has for each of the other liberties
what holds without it (`CurvesRight`, `RoutinesRight`, `HandlerRight`, `ErrorRight`).
*WidgetLayouts*: `Upwards`, a recursive function that takes as many steps as there are
objects, is shown by counting to be the least set that has the object and is closed
under parents; from then on the proof does without it. `LayoutTypeCorrect` holds for every
program, `ItemsAreHeld` for careful ones: `CarefulInv` says that widgets and layouts
form trees, that an item of a layout with window is a child of the window, and that
one of a layout without is held by a reference of the layout, or by its own window,
which the program refers to. The invariant showed that taking a layout with layouts
in it out of a window is careless (section 6); it takes three layouts to see it.

**Definitions_proofs.** *QmlTypes*: `ClassesAreFound` and `DecorationsAreRegistered`
for programs that register a class once and keep it (`Careful`); `QmlInv` says that
what a registration has copied, what it holds, and what its table has agree.
*ClassBodies*: `DeclarationsArrive`; slots and infos reach their class in every
program, enumerations if their module is disciplined: a class with enumerations that
wait is still open, and what waits was written in it. *RemoteObjects*:
`CapsulesAreReturned` holds for every program: what C++ holds is a total over the
types that live, and a step changes one number of it, or those of one file.
`BindingsAreSettled` is for sources whose setters convert nothing
(`"converts" \notin conduct`, in the property), bound in any way: setters in progress are
of one value, which all but the last have stored, each in another object (`Nested`),
and bound sources that differ have a change on its way (`Settling`). *Properties*:
`PropertiesAlwaysAgree` is for every hierarchy without cycles. That bases rank below
their subclasses (`HierarchyAssumption`) makes the recursive functions `Above` and
`MetaLines` well-defined (`AboveSteps`, `LineSteps`: partial functions for each rank that
agree), and induction along the ranks gives what they contain (`AboveClasses`,
`LineClasses`). `PropertyInv` says beside the types that classes are defined after their
bases (`ClassesSound`); that one class at most declares the property in programs that do
not redeclare it (`OneDeclares`); that this class has its signal, too, unless signals are
inherited (`SignalsNear`); and that entries are those `addProperty()` would make with the
signals of today (`EntriesSound`), which needs that a class defined later leaves the
counts of methods of earlier ones alone (`CountStays`).

The assumptions on constants are the named ASSUMEs of the modules; TLC evaluates
them in every run. Most say that bounds are numbers and that a marker such as
`NoParent` or `Unset` is none of the values beside it. Sets that are counted are finite
(`Sources`, `Widgets` and `Boxes`, what `Accessors` counts references of): a program makes
finitely many. Of class hierarchies it is assumed that they are finite and have no cycle,
and that a class is a QObject exactly if one of its bases is; of their mro, see
`Properties` above.

Checked by TLC only:

- `DeadSendersForgotten`, `SweepEnds`, `CreationEnds`, `ReplicaConverges` and the
  liveness of `Fifo`: liveness under fairness is out of the prover's reach.
- `KeywordsReachSetters`: it is about the names in given classes, in the spellings of
  the features; of classes in general it is not true (two names may have one spelling).

Each module but `Construction` has a theorem about its type invariant.
`DefinitionsTypeOK` of `MCDefinitions` is the conjunction of those of the run
`definitions`, that of `Construction` among them; no run lists it, but it holds when it is
added to the INVARIANTS of the configuration.

## 5. Not modelled

Not yet: the feature procedures and class properties (`class_property.cpp`), the
stack of cleanup functions, enumerators in meta objects, `volatile` booleans and
module versions of QML, the printing of dynamic types, and the glue of item widgets,
scenes, `QBitArray` and buffers.

Left out for good: the other snippets of glue, which are conversions, operators and
results of a few lines without state; the type systems and what is generated from
them, build scripts and packaging (no state that runs); static strings and the NumPy
helpers (conversions without state); the Designer plugin (an adapter between two
frameworks); the promotion gate (one conjunction over its input). Data races on
unprotected structures (`QHash` in a sweep without the GIL,
`m_cachedMetaObjects.back()` in `update()`) are listed as hazards: the modules take
steps under the GIL.

External, modelled from their use: `QIODevice`'s read-ahead, QtRemoteObjects'
transport, the parser of `.rep` files, Shiboken's parents and references, Python's
slices and garbage collector, QML's call of a registered class.

## 6. Disagreements between the code and what it says

Two are runs whose property TLC finds violated.

- `repeats`, `dynamicslot.cpp:364`: connecting a bound method twice overwrites its entry;
  the first connection survives the death of self.
- `collides`, `dynamicslot.cpp:342`: disconnecting runs code that disconnects another
  entry; with colliding hash values a third one is moved under the iterator, and erased
  although its connection works. The size of the hash is compared after that.

The others are reproduced by changing constants. In the three composed modules the
other parts should rest: give `part` the value of the module in `MCInit`, and drop the
condition there that fixes the program of a resting part.

| Configuration | With | Property | Where | What happens |
|---|---|---|---|---|
| `DynamicSlot_repeats` | `Repeats = FALSE`, `Contexts = TRUE` | `NoDanglingSelf` | `qobjectconnect.cpp:261` | a connection with a context object is in no entry and survives the death of self |
| `DynamicSlot_disciplined` | `AppRestarts = TRUE` | `EntrySendersKnown` | `dynamicslot.cpp:367` | the tracker goes with the application; earlier senders are forgotten, their entries are not |
| `DynamicSlot_repeats` | `Repeats = FALSE`, `CrossThread = TRUE` | `SweepSparesTheLiving` | `dynamicslot.cpp:323` | a posted `destroyed()` erases the entries of a new sender at the same address |
| `ReceiverSweep_collides` | no `~connects` in the property | `SweepIsComplete` | `dynamicslot.cpp:343` | code inside a sweep disconnects one entry and makes another: the hash has its old size, and the loop goes on past an entry of its receiver |
| `FeatureSelect_sequential` | `TypesDie = TRUE` | `CacheServesBases` | `feature_select.cpp:345` | a class at the address of the one selected last is taken for it |
| `FeatureSelect_sequential` | `Switches = TRUE`, two threads | `CacheServesBases` | `feature_select.cpp:347` | the cache is set before the work is done |
| `MetaObject_python` | | `IndexHolds` | `dynamicqmetaobject.cpp:466` | a method added while `update()` warns is lost |
| `MetaObject_python` | | `OneIndex` | `signalmanager.cpp:723` | two threads add one signature under two indexes |
| `MCObjects` | any program | `NothingUsedAfterItsEnd` | `signalmanager.cpp:406` | a getter deletes its object and raises an exception: the object is printed, and handed to the error handler |
| `MCObjects` | `MetaPrograms = {{"qml"}}` | `NothingUsedAfterItsEnd` | `signalmanager.cpp:450` | the error handler of QML is given the object that its slot deleted; the comment at line 443 says that it may not be used |
| `MCObjects` | `MetaPrograms = {{"unknownTypes", "drops"}}` | `NothingUsedAfterItsEnd` | `signalmanager.cpp:395` | the type name of a property is read after its reference was released |
| `MCObjects` | `Programs = {{"owners", "foreign"}}` or `{{"owners", "events"}}` | `~twice` | `pyside.cpp:414` | a QObject that C++ gave to Python and then a parent goes with it, its wrapper is not invalidated, and the visitor destroys it again |
| `MCObjects` | `AccessorPrograms = {{"mistakes"}}` | `AccessorsHeld` | `pysideproperty.cpp:249` | arguments that cannot be parsed leave functions that were not counted and are released |
| `MCObjects` | `AccessorPrograms = {{"lists", "drops"}}` | `AccessorsHeld` | `pysideqmllistproperty.cpp` | QML keeps a pointer to the data of a list property that is freed |
| `MCObjects` | `LayoutPrograms = {{"careless"}}` | `LayoutsHoldTheirItems` | `glue/qtwidgets.cpp:245` | a widget with a layout goes, or an item gets another parent, and the layout's references stay as they were; with three layouts: one with another in it is taken out of a window, and the wrapper of the inner one keeps the outermost as its parent |
| `MCObjects` | `ArrayPrograms = {{"negative"}}` | `SlicesAsInPython` | `glue/qtcore.cpp:660` | a negative index is an error in reading, and is not in writing |
| `MCObjects` | `ArrayPrograms = {{"aliases"}}` | `SlicesAsInPython` | `glue/qtcore.cpp:749` | an array that is assigned to a slice of itself changes while it is read |
| `MCObjects` | `ArrayPrograms = {{"deletes"}}` | `SlicesAsInPython` | `glue/qtcore.cpp:712`, `770` | `del` of an item, and of an extended slice that is not empty, uses the missing value; the comment at line 755 says that it means to delete |
| `MCDefinitions` | `Visits = TRUE` | `KeywordsReachSetters` | `pyside.cpp:359` | a setter that enters a module with other features changes the spelling of the keywords after it |
| `MCDefinitions` | `Repeats = TRUE` | `QmlFindsItsClasses` | `pysideqmlattached.cpp:185` | QML and Python find different attached objects of a class that was registered twice |
| `MCDefinitions` | `Shares = TRUE` | `RegisteredAsDecorated` | `pysideqmlforeign.cpp` | what another class says of a foreign class replaces what this one said |
| `MCDefinitions` | `Forgets = TRUE` | `QmlFindsItsClasses`, `RegisteredAsDecorated` | `pysideqmltypeinfo.cpp:19` | infos are kept by the address of a class that was dropped; classes named by a decorator are not held |
| `MCDefinitions` | `RemotePrograms = {{"mistakes"}}` | `NothingMisused` | `pysiderephandler.cpp:386` | the static dict of the defaults is released by a failure, and used by the next file |
| `MCDefinitions` | `RemotePrograms = {{"keywords"}}` | `NothingMisused` | `pysidedynamicclass.cpp` | properties given to the constructor of a source are set before it has its values |
| `MCDefinitions` | `RemotePrograms = {{"keeps"}}` | `NothingMisused` | `pysidecapsulemethod.cpp` | a bound method borrows its source |
| `MCModules` | `CreationPrograms = {{}}` | `MemoryReachesItsObject` | `pysideqmlregistertype.cpp:422` | a singleton, an attached object or an extension that is made in another thread takes the address that `createInto()` has left, as it does not take the mutex "for accessing QObject memory helpers from multiple threads" (`pysideqobject.h:55`) |

The theorems say which of these a program avoids by being disciplined, or quiet.

Some conditions are in the properties, as the liberty is part of the checked programs:
`WrapperLife` wraps QObjects of other threads (`foreign`, `pyside.cpp:802`: without the
property that invalidates the wrapper), destroys them in the event of that property
(`events`) or loads types lazily (`lazy`: two wrappers); `QmlCreation` lets QML create in
a constructor (`nested`: the mutex is taken twice) or enters Qt with the
GIL (`keepsGil`, as `QQmlComponent::create()` does, `typesystem_qml.xml:186`: a
deadlock); `SignalInstance` uses signals before the constructor of QObject (`Early`);
`Properties` declares a property again (`redeclares`: the entry of the base stays) or
inherits its notify signal (`inherits`, `dynamicqmetaobject.cpp:295`: a negative index).
`HeldCallables` changes or drops a curve of which an animation has a copy (`copies`,
`glue/qeasingcurve_glue.cpp:76`: the copy calls a function that was released, or that of
the next curve in its place), drops calls to come (`drops`, `glue/qtcore.cpp:1117`: the
callable is never released), raises exceptions (`raises`: they are left behind by all but
the single-shot timer), asks for permissions with plain functions (`plain`,
`glue/qtcore.cpp:2103`: an AttributeError is left set) or other callables (`others`,
`glue/qtcore.cpp:2110`: a null pointer is used, `crashed`), adds routines in routines
(`adds`: the vector that is walked changes) or after the first application (`apps`: the
second runs none), removes the message handler while another thread waits for the GIL to
call it (`removes`, `threads`), or moves values over values (`moves`,
`signalmanager.cpp:138`: what is replaced is not released). `ClassBodies` has
enumerations beside classes that are no QObjects (`plain`), bodies that raise (`raises`)
and classes that refuse an attribute (`refuses`, `pysideqenum.cpp:186`): what waits is
given to another class, or waits when no body runs; imports in a body (`imports`) and
functions further up that make classes (`factories`, `pysideqenum.cpp:183`): it is given
to another class, by the line number alone; and decorators that are used again (`reuses`,
`pysideslot.cpp:155`: the second slot has no types). Dropping the condition shows the
violation.

Met while modelling, and left to a reader of the code:

- *Meta calls*: `qtPropertyMetacall()` uses the meta object after the getter; a
  `StopIteration` of a getter is reported as an unknown type.
- *Signals*: `None` and lists in a declaration make `argCount` differ from the
  parameters; an override of a method that a Signal keeps is ignored; the chain made by
  `newObjectFromMethod()` is not linked; signals are disconnected by their first
  overloads only.
- *Properties*: an entry is writable if a decorator left `None` as the setter;
  `getFromType()` goes depth first, not by the mro; properties of a second QObject base
  are in no meta object; an explicit `__doc__` is lost in copies of one that followed a
  getter; `ListProperty` releases a notify signal it did not count.
- *Constructors*: `xOffset` with `setXOffset` cannot be set in snake case; a keyword
  for a property that is read-only fails without an error.
- *QML*: the table of attaching types is the same for all programs of a process; types
  cannot be unregistered.
- *Remote objects*: a POD with an unknown type leaks; the arguments of constructors are
  those of the first type; with both `x` and `X` in a `.rep` file, `pushX` sets `X`.
- *Pipe*: reopening loses the bytes read ahead and keeps the others; deleting the pipe
  in a slot of `bytesWritten()` uses the freed end.
- *Layouts*: glue runs before Qt refuses a layout that has a parent already; references
  kept under the name of a layout stay when it is renamed, until it goes.
- *Callables*: `setCustomType()` takes another place each time, and the eleventh
  curve is ignored silently; the message handler is not reset at the end; a page that
  prints with something that is no callable returns without releasing it.

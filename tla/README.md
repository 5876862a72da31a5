# A verification of cedarling4j

cedarling4j lets Java code use Cedarling, an authorization engine written in
Rust. It has two halves: a Java library (`src/java`) and a JNI bridge in Rust
(`src/rust`). This directory models the bridge and the Java classes it works on,
model-checks the models with TLC, and proves theorems about them with TLAPS.
Paths below are relative to `rust/src` and to
`java/src/main/java/io/jans/cedarling/bridge` of the repository.

## The system

| Component | Code | State | Operations |
|---|---|---|---|
| Instance lifecycle | `cedarling.rs`, `Cedarling.java` | the field `cedarlingRef`, the engine it points to, the Java monitor of the object, the Rust mutex of the engine | constructor, `authorize`, `authorizeUnsigned`, `close` |
| Handle caches | `jni/jni_cache.rs`, `LOCAL_JNI_CACHE` of every wrapper | 26 process-wide maps of classes, methods and fields, each under a mutex | `jni_cache_init`, `get_class`, `get_instance_method`, `get_static_field` |
| Request conversion | `authz/authorize_request*.rs`, `entity_data.rs`, `context.rs`; `AuthorizeRequest.java` and others | the Java request and what hangs off it | setters, builder, getters called from Rust |
| Result conversion | `authz/authorize_result.rs`, `cedar_policy/*.rs` | the Java objects under construction, the cache mutexes held | `as_java_object` of each class |
| Configuration conversion | `config/*.rs`, `config/*.java` | the Java configuration, the Rust one under construction | constructors, setters, builder, getters called from Rust |
| JNI helpers | `jni/util.rs`, `list.rs`, `duration.rs`, `file.rs`, `uri.rs` | the handle cache of `util.rs` and its mutex | calls into Java, conversions of values, throwing |
| Engine | the `cedarling` crate, not in the repository | | `new`, `authorize`, `authorize_unsigned` |

How they interact: a Java thread calls a native method of `Cedarling`. The bridge
converts its argument by calling back into Java getters, reaches the engine
through `cedarlingRef`, lets it decide, converts the answer into Java objects and
returns. An `Err` at any point becomes a Java exception. Before all this, the
static initializer of `Cedarling` loads the library and fills the caches.

What is hard about it:

* any number of Java threads share one instance, and one of them may close it at
  any moment: the engine is a raw pointer in a Java `long`;
* four kinds of locks meet. The jni crate enters the Java monitor of the object
  to read the field, and waits for the engine's mutex *while it holds the
  monitor*. The result conversion nests up to four process-wide cache mutexes,
  and the conversion of a configuration calls Java while it holds that of
  `util.rs`; both are shared by all instances;
* everything that is converted belongs to the application, which may change it
  at the same time;
* every call into Java may fail, anywhere, and several results are discarded
  (`let _ =`);
* 90-odd handles are registered in one place and looked up in another, by name.

What makes each component correct:

* lifecycle: no use after free, one thread in the engine, one drop, no deadlock
  between monitor and mutex, no failure without exception, and together: the
  instance behaves as an atomic object that is open, then closed;
* caches: what is looked up was registered, and a failed initialization leaves
  nothing usable behind;
* requests and configurations: what arrives is what was set, or the call is
  rejected; whatever changes meanwhile, nothing null, made up or mixed arrives;
* results: the whole answer arrives, and a half-built answer never allows;
* together: the locks of all components have one order, and each call gets its own
  answer.

## Modules

| Module | Models | Extends / uses |
|---|---|---|
| `CedarlingService` | what an instance promises: an atomic open/closed object | |
| `Cedarling` | lifecycle, one action per step of the native methods | `CedarlingService` by INSTANCE |
| `Cedarling_proofs` | theorems about `Cedarling` | `Cedarling`, TLAPS |
| `ResultConversion` | `JavaAuthorizeResult::as_java_object` and below, with its mutexes | |
| `ResultConversion_proofs` | theorems about it | `ResultConversion`, TLAPS |
| `Bridge` | the native methods with the locks of the whole process: `Cedarling` with results converted by `ResultConversion` | extends `Cedarling`, `ResultConversion` by INSTANCE |
| `Bridge_proofs` | theorems about it | `Bridge`, both proof modules, TLAPS |
| `JniCache` | class initialization, registration, lookups | |
| `JniCache_proofs` | theorems about it | `JniCache`, TLAPS |
| `RequestConversion` | both requests, getter by getter, against a concurrent application | |
| `RequestConversion_proofs` | theorems about it | `RequestConversion`, TLAPS |
| `ConfigConversion` | Java configuration classes, builder, and conversion getter by getter, against a concurrent application | |
| `ConfigConversion_proofs` | theorems about it | `ConfigConversion`, TLAPS, WellFoundedInduction |
| `MCCedarling`, `MCResultConversion`, `MCBridge`, `MCConfigConversion` | instances for TLC (symmetry; results of every shape; answers that can be told apart; numbers at the boundaries) | |

Definitions named `..._Something` beside an action are faulty variants of it: with
one in the place of the action, the property named after it in `PROJECT.json` fails.

### Cedarling

`pc[t]` says where thread `t` is. `CallNew`, `CallAuthorize`, `CallClose` are the
Java methods; `Throw` and `Return` the ends of the JNI entry points. Between them:

* constructor: `ConvertConfig`, `NewEngine`, `SetField` (`cedarling.rs:104-118`);
* authorize: `ConvertRequest`, then `GetField`, `ReadField`, `LockEngine`,
  `LeaveMonitor` for `get_rust_field`, `Authorize`, `ConvertResult`
  (`cedarling.rs:131-175`: the two entry points differ in the request only);
* close: `TakeField`, `TryTake` for `take_rust_field`, and `DropEngine`
  (`cedarling.rs:120-129`).

The jni crate (0.21) is outside the repository. Its contract, as the code relies
on it: `set_rust_field`, `get_rust_field` and `take_rust_field` enter the monitor
of the object; the second fails with NullPtr on a field that is 0 and otherwise
locks the mutex, blocking, before it leaves the monitor; the third fails with
NullPtr, or with TryLock when the mutex is taken, in which case the field keeps its
value; otherwise it zeroes the field and returns the value. `throw_new` does not
replace an exception that is already pending, and fails, leaving
NoClassDefFoundError, if the class does not exist. The last case is real:
`CEDARLING_ERROR_CLSNAME` (`jni/util.rs:14`) names a class in the wrong package.

The abstract service `CedarlingService` has no locks: `Open`, `Decide`, `Close`
are single steps on a status. In the mapping (`status`, `phase`, `reply`) an
authorization takes effect when the engine answers and a close when the field is
cleared. A close that finds the engine busy fails and leaves the instance open,
and only while another authorization is in progress.

### ResultConversion

One action per JNI call and per mutex operation. `slots` are the responses of
person, workload and the named principals; `Held` and `Wanted` say which mutexes a
call has and is about to lock. Each step may fail, and `Unwind` drops the guards in
order. The loops over reasons and errors run over the engine's collections, as in
`diagnostics.rs:114-120`: `ahead` are the reasons still to come, `index` counts the errors
reached, and what the Java object has received plays no part in them. A mutex that is held
over map reads only (in `new`) is one step that needs it free. `Start` is not fair: the engine need not answer. `IsResult` says which values the
conversion starts from, for any principals, reasons and errors.

### Bridge

`Cedarling` leaves its conversions single steps and has no state that two instances
share; `ResultConversion` has no instances. `Bridge` is both at once. The n-th call
of thread `t` has the conversion `<<t, n>>`; `AuthorizeAndConvert` is the answer
of the engine with which `as_java_object` starts, after the guard of the engine is dropped
(`cedarling.rs:144-151`); `ConvertPart` is any step of it, and `EndResult` takes its
outcome. In a constructor, `HelpLock` and `HelpReturn` are
the calls of `toString` and `longValue` made under the mutex of `util.rs`
(`util.rs:98-186`), any number of which may happen in `ConvertConfig`.
All other actions are those of `Cedarling`, unchanged.

A thread holds and waits for locks of both levels here (`Has`, `WaitsFor`), and
`Level` is the order in which the code takes them: monitor, engine, `util.rs`, the
nest of result caches. The mutexes that are taken and released
around a map lookup, with nothing called in between, are not listed.

### JniCache

Two kinds of tables, taken from two places of each wrapper: what `jni_cache_init`
registers, in order, and `Lookups`, what `new` and `as_java_object` ask for. `missing` is a name that the Java library on
the class path does not have. The class initialization protocol (one thread runs
it, the others wait, failure is final) is the JVM's. So is the contract of `FindClass` and
`GetMethodID` that `NoPartialCache` relies on: a lookup that fails leaves a Java
exception pending, which is what makes the initializer fail.

### RequestConversion

`heap` holds the EntityData objects, `lists` the List objects that principals are in,
`request` the fields of the request. The application's actions are the setters and builder
methods, and the changes of the map or list that `Builder.tokens` and `setPrincipals`
keep without copying. They interleave with the bridge, one getter per step.

The bridge asks for the principal list once and keeps it (`list`): it may be null
(`GetPrincipals`), its size is another call (`GetSize`), and it may change, or no longer be
that of the request, when its elements are read (`GetPrincipal`). Tokens are read through
the request each time, so a replaced token map is of no interest. A request has one
Context object, and an entity one mapping: setters take them out and put them back, as
null and as the object, and change what is in them, but exchange them for no other one;
the conversion reads each of their fields once.

`held` records the tokens of the request since the call, and the elements of the list that
the bridge got since it got it: not those of a list that the request was given later. So
`NothingInvented` says that the principals delivered are those of one list, even if the
application sets another and goes on changing the old one.

### ConfigConversion

`config` has one record per section. Plain setters are one action, `SetField`, over
the tables `...Setters`; `setMemoryConfiguration`, which does something else, has its
own, as do the methods that append to a list and the removal of an element through
the list that a setter was given. `SetSection` is the setters of the BootstrapConfiguration,
with null, an object from a constructor or one that was filled in (`NewSections`). One
change is one of these, and changes come in any mix; `Cost` and `MaxEdits` bound them, with the
cost of a change given per section by the instance. The bridge
makes one step per Java getter, per `size()` and per list element, in the order of `bootstrap_config.rs:214-266` and of the
conversions below it (`Getters`); `EndSection` makes the Rust section of what they
returned (`SectionOf`). The enums are their constants: the conversions of
`LogType`, `LogLevel`, `IdTokenTrustMode`, `PolicyStoreSource` and `JwtAlgorithm`
map each to its namesake, except for the one they reject.

The application acts before and during the call. The bridge reads a section and a
list through the reference it got: when the application replaces one of them
meanwhile, `sect` or `list` keeps the old object. A replaced object is not changed any more.
For the bridge, changing it would be the same as changing it first and replacing it
afterwards; for `SettingsWereHeld` and `ListsWereHeld` it would not, because what such an object
became was never in the configuration. They are about an application that leaves it alone.
The memory configuration is flattened into its log section, which is exact because
`setMemoryConfiguration` never replaces it.

A section that is null is `NoSection`, the empty record, so that it can be told from a
section in proofs without assumptions about records. Numbers wrap at
`2 * (MaxLong + 1)`: `long`, `u64` and `usize` have the same width on a 64-bit platform.
`index` counts the elements read of the current list; a claim that is null is counted
and not pushed (`Push`). The lookup under the wrong key in `jwt_config.rs:91-95` calls a method that
returns a string as one that returns a boolean: undefined, so the model allows both
outcomes, except that null is 0.

## What is checked

| Run | Bounds | Shows |
|---|---|---|
| `cedarling_safety` | 3 threads, 1 instance, 2 calls each | the lifecycle invariants, the inductive invariant, and `ServiceSafe`: each instance is the atomic object of `CedarlingService` |
| `cedarling_refine` | 2 threads, 1 instance, 3 calls each | `ServiceSpec` with its fairness, `EveryCallReturns` |
| `cedarling_close` | 1 thread, 3 calls | violated: `CloseIsIdempotent` |
| `result_conversion` | 2 calls, results of every shape with two principals | locks scoped, no blocking inside the nest, whole results, deny until complete, every conversion ends |
| `bridge` | 2 threads, 2 instances, 2 calls each, 1 call under the mutex of `util.rs` per constructor | locks climb, shared locks are held alone, each call has its own answer, no thread is stuck |
| `jni_cache` | 2 threads, at most one missing name | no partial cache, no failed lookup, nobody stuck |
| `request_conversion` | 2 entities, 2 lists of up to 2, 2 changes | faithful or rejected, never null, never invented |
| `request_built` | 1 entity, 1 change | violated: `BuiltIsWellFormed` |
| `config_conversion` | any 1 change, of any section, or any 2 of jwt section and limits; lists grow up to 3; 4-bit words | faithful or rejected; no hole, no mixture under concurrent changes; limits; no rejection without cause |
| `config_built`, `config_sign`, `config_memory` | the same | violated, see below |

Why the bounds suffice. Two threads make every pair of operations race, the third
lets one wait for a monitor whose holder waits for a mutex. Instances share no state
in the lifecycle, so one is enough there; what they do share is in `Bridge`, with two.
There two threads with two instances meet in every pair of places: both in one
instance, or each in its own while they contend for the shared mutexes; two calls reach an
authorization of the other's instance after the constructor, and thread `t1` gets another
answer than the rest, so that answers could be mixed up. Two or three calls per thread
reach authorize after close, close after close and close after a busy close. Two changes
of a request reach an element that is removed and another put in its place between the
reads of its size and of its items, and a list that is replaced and then changed while
the bridge still reads it: two lists are enough for that. A configuration starts from one of six, with
and without memory logging, lists and lock service, so that one change reaches the fields
that are meaningful only with another (log type and memory configuration, source and
data). Two changes reach a list that is replaced after it, or its section, was changed; they are
for the jwt section, which has a list, and for the limits (`Costs`), because two changes
of everything are too many states. The
two claim lists are read by the same loop. With 4-bit words
(`MaxLong = 7`) a limit is compared with all longs; the application uses those at the
boundaries (`BoundaryLongs`). The theorems hold at any width, for any numbers.

Fairness. `WF_vars(Step(t))` for each thread: threads are scheduled, and a native
method runs on. No call is required: calls are outside the fair steps, so
progress never rests on somebody closing or authorizing. Locks are only weakly
fair. This is enough because the calls are bounded: a waiter could be overtaken
only as often as others call. Starvation under an endless stream of calls
is not excluded by the code either, whose locks are not queues. `bridge` states no
fairness: that nobody is stuck there is its deadlock check, calls being bounded and
every step of a call bringing it closer to its end.

Violated claims (each is a claim of the documentation):

* closing twice throws NoClassDefFoundError, where `Closeable` promises no effect;
* `AuthorizeRequest.Builder.build` returns an object that the builder and the token
  map still change, though it exists "to prevent ill formed objects";
* a configuration from the builder may be rejected (`LogType.LOCK`, a null level),
  though the builder "ensures a valid configuration (from the standpoint of Rust)";
* `setJwtCheckSignValidation(true)` does not reach the engine: with a null JWKS the
  engine is told false;
* `setMemoryConfiguration` assigns a field to itself.

(The default `JwtConfiguration` has signature validation enabled where its own
documentation says disabled, `JwtConfiguration.java:35` against `:42`; `DefaultJwt`
follows the code, and no run is spent on it.)

## What is proved

Everything below is for any sets of threads and instances, any number of calls,
principals, reasons, errors, entities, lists, changes (those that the modules' application
makes, above) and list elements, and words of any width,
from the named assumptions of the modules alone (null is none of the values it is told
from; bounds are numbers; the numbers an application uses are longs). Every invariant
that a run checks is stated by a theorem.

`Cedarling_proofs`:

* `TypeCorrect`, and `Invariant`: `IInv` is inductive. The properties themselves are
  not: that a thread about to lock the engine finds it alive depends on the monitor
  being held by it, so that no close is at `TryTake`, and, further on, on the mutex
  being held. `IInv` therefore says that each lock is held exactly in its critical
  section (`LockInv`), that an instance under construction has one caller (`CallInv`,
  `ConstructInv`), that reference and engine agree (`PublishedHadEngine`), and what
  a call has to show for itself at each stage (`OutcomeInv`).
* from it: `NoUseAfterFree`, `Exclusive`, `NoDoubleFree`, `LocksOrdered`,
  `FailuresSurface`, `EngineFollowsInstance`.
* `ImplementsService`: the initial state maps to that of `CedarlingService`, and every
  step to one of its steps or a stutter, one lemma step per action, under `IInv`.

`ResultConversion_proofs`:

* `TypeCorrect`, `GuardsAreScoped`, and `NestIsSafe`, which follows from it: two calls
  inside the nest would both hold the outermost mutex.
* `WholeResult` and `DecisionLast`. Their invariant, `DataInv`, says what is already in
  place when a step runs: `DeliveredInv` that a part that was delivered equals its
  counterpart of the Rust result and that the decision is the last, `PartInv` what the
  part under construction has so far, up to the item that is next.

`Bridge_proofs` reuses both invariants. A step of `Bridge` is one of `Cedarling` or a
stutter, and likewise for `ResultConversion` (a call's conversion can start because
no other call has its number: `CallsConvert`). So `BridgeInv` adds only what links the
two. From it: `BridgeTypeCorrect`, `LocksAreOrdered`, `SharedAlone`, `OwnAnswers`, and
`BridgeImplementsService`: converting step by step under shared locks changes nothing
in what an instance promises.

`RequestConversion_proofs`: `TypeCorrect`, `NoNullReachesEngine`, `NothingMadeUp`,
`Faithful`.

* `RequestInv` keeps, for each place in the conversion, what was found not null on the
  way to it (`ReadInv`), and that the request now is part of what it has held, and so is
  everything taken from it (`HeldInv`). No change of the application can disturb the
  first, for it speaks of the Rust side only: that is the argument for reading each
  value once. For principals, `held` grows with the list that the bridge got, whatever the
  request has meanwhile.
* `Faithful` is about requests that nobody changes, so `FaithInv` may compare the two
  sides: what was read of the tokens (`TokensRead`) or of the principals
  (`PrincipalsRead`), of the entity at hand (`EntityRead`) and of the rest (`RestRead`)
  is what is there, and it was usable. A conversion that stops has then just met the
  part that was not.

`ConfigConversion_proofs`: `Invariant`, and from `ConfigInv` all the properties of the
runs. None of them is inductive, since they speak of the end of the call only.

* `ConfigInv` says what is known half way. `SourceInv`: the section being read was in a
  configuration held since the call. `PartInv`: the getters called so far are a prefix of
  `Getters`, and what each returned was held and accepted. `ListInv`: the list being read
  was held, its elements read so far come from held lists, and unless one shrank they
  are the first `index` elements (less null claims) of a held list, of which the list now is
  an extension. `RustInv`: sections before `at` are complete, the others untouched.
  `LogRead`: a log section keeps its memory configuration while it is read, so a missing one
  was missing when the type was read. `HadInv`: which configurations were held; with no edit,
  exactly one. `RejectedForCause` is a part of it as it stands: a step that rejects has just read
  what was null or unusable, in a section that some held configuration has.
* The application. `Monotone`: every part of `ConfigInv` about what was read only gains
  from another configuration being held. `EditKeeps` reduces a change to two questions,
  whether section and list at hand are the same objects or just as held; each kind of
  change answers them (`SetFieldStep`, `SetSectionStep`, `ListStep`).
* The bridge. `PartSound` is what a getter leaves behind; `ContinueStep` takes it to the
  next getter, to a complete section (`SectionDone`) or to an error (`RejectedIsIllFormed`).
* `TypeCorrect`, `RejectedWithCause`, `SettingsHeld`, `ListsHeld`, `LimitsKept`,
  `NeverIllFormed` are read off `ConfigInv`; `Faithful` and `AcceptedIff` use besides that
  without edits the only configuration held is the one at hand (`UneditedHeld`).
* `ClaimsUpTo`, the claims of a list that are not null, is a recursive function. That it
  satisfies its own equations (`ClaimsRecursion`) takes an induction over the natural
  numbers. `NatInduction` is stated for a predicate, with which the installed provers
  cannot instantiate it; the lemma `Induction` states it for a set, and follows from the
  well-foundedness of `<` (`NatLessThanWellFounded`, `WFMin`).

`JniCache_proofs`: `TypeCorrect`, `CachesComplete`, `LookupsHit`. `CacheInv`: one thread
initializes the class; the caches hold the names before `next`; the initializer ends
without exception only past the last name. `LookupsHit` compares the two kinds of tables:
each name in `Lookups` is a member of the sequence that its wrapper registers.

Only model-checked: the properties under fairness (`EveryCallReturns`,
`EveryConversionEnds`, `EveryoneGetsIn`, and the liveness half of `ServiceSpec`, whose
safety half is `ServiceSafe`), because fairness means ENABLED, which is out of the
prover's reach; and the five violated claims, which are counterexamples.

## Not modelled

* The engine and the `cedarling` crate: policy evaluation is a step that decides or
  fails. Panics, which would abort the process.
* Text: error messages, character encodings, the spelling of enum constants.
* `UnsignedRoleIdSrc`, `TokenValidationConfiguration`, `WorkloadBoolOperator`:
  nothing on the way to the engine reads them.
* Memory: an instance that is never closed keeps its engine, as
  `overview.html` warns; local references are freed on return to Java.
* A `toString` that calls the bridge while `util.rs` holds its mutex. It is called on
  the enums of the library and `java.net.URI`, which do not call back; `Bridge` lets the
  call take any time and fail, not reenter.
* The caches of `JniCache` inside `Bridge`. `NoPartialCache` and `EveryLookupHits` are
  why the lookups of the other modules do not miss.
* The engine's own view of a configuration: what it makes of a huge limit or of a
  missing JWKS is outside the repository.

## Plan

1. Done: `Cedarling`, `CedarlingService`: invariants and refinement proved.
2. Done: `ResultConversion`: mutexes and data proved for results of any size.
3. Done: `Bridge`, the composition of both with the mutex of `util.rs`: lock order,
   own answers and refinement proved.
4. Done: `RequestConversion` and `JniCache`: all safety properties proved.
5. Done: `ConfigConversion`, getter by getter against concurrent changes: all safety
   properties proved.
6. Left: the caches of `JniCache` inside `Bridge`, to state once that no call of the
   process meets an incomplete cache; the lemma `Induction` makes more of the recursive
   functions of the modules provable.

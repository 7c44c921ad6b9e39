# A TLA+ model of go-rotini/jsonschema

This directory holds TLA+ modules that model the parts of the JSON Schema
compiler and validator where order, sharing and limits matter; TLC
configurations that check them on small instances; and proofs, checked by
TLAPS, that carry the most important results to every instance.  The code is
the reference.  Every definition that models code names its lines in
`PROJECT.json` (`map`), and every property says which behaviour it is about.

## 1. The system

A `Compiler` turns a schema document into a `*Schema`; a `*Schema` validates
instances.  Compiling reads documents through `Loader`s, walks them into a
resource map, and builds a graph of evaluators.  Validating walks that graph
over an instance with one private `runCtx`.

| Component | State it keeps | Operations | Interacts with |
|---|---|---|---|
| **Compiler** (`compile.go`) | `cache` and `flight` (sync.Map), `resources` under `resMu`, options | `CompileURL`, `Compile`, `AddResource`, `compile`, `seedResources` | Loaders (call), resource map and evaluator builder (private to a compile), meta-schemas |
| **Resource map** (`ref.go`) | `byURI`, `order`, `rootURI`, per resource its anchors | `walkDocument`, `add`, `openResourceIfNeeded`, `resolveRef`, `fetchExternalResource` | filled by `compile` and by every reference resolved while building; calls the Loader |
| **Evaluator builder** (`eval.go`, `eval_ref.go`, `eval_applicator.go`) | subschema `cache`, `inFlight` builds, `frozen` | `buildSubschemaIn`, `populateSubschema`, `buildAll` | resource map; after `compile` it is shared by all validations |
| **Evaluator** (`eval*.go`, `validate.go`) | `runCtx`: errors, annotations, scope, flags, depths, dynamic scope, budget | `run`, `evaluate`, `evaluateAt`, `evaluateBranch`, one `eval` per keyword | the evaluator graph (read only); one `runCtx` per call |
| **Content keywords** (`content.go`) | decoded and parsed content by instance location, in `runCtx` | `stashContent`, `takeContent`, ... | three sibling evaluators of one subschema |
| **HTTP loader** (`httploader`) | `entries` under `cacheMu`, `flight`, a client | `Load`, `cacheGet`, `cachePut`, `fetch` | called by `CompileURL` and by references, from many goroutines; shared by `Default()` |
| **Other loaders** (`loader*.go`) | none; they read a file system that others change | `ChainLoader`, `FileLoader`, `MapLoader`, `EmbedLoader`, `DefaultLoader` | Compiler, references |
| **Meta-schema cache** (`meta.go`) | two maps under mutexes | `MetaSchema` | `compile`, for `WithSchemaValidation` |
| **Numbers** (`num.go`) | none | exact decimal comparison and divisibility | assertion keywords |
| **Output** (`output.go`, `errors.go`) | none | flag, basic, detailed and verbose output | results of the evaluator |
| **Formats, regular expressions** | compiled patterns | parsers of single strings | assertion keywords |
| **Adapters** (`multifmt.go`, `fastjson.go`) | none | YAML, TOML, JSONC and JSON to values | callers |
| **Generators, command line** (`generate`, `gogen`, `cmd`) | definition tables; the Bowtie session | reflection to schemas, schemas to Go, line protocol | the public API |

What is hard here, and what makes each part correct:

* **Compiler.**  `CompileURL` is a check, a claim, a re-check, a load, a
  compile, a store, a deletion and a wake-up, by any number of goroutines.
  Correct means: one flight per URI; one schema per URI for everybody; a
  failure reaches only those who were waiting; a panicking Loader neither
  blocks nor poisons anything.  The registry is read without a lock after its
  slice header was copied, so it must never be written in place.
* **Evaluator.**  Keywords communicate through one mutable context that every
  speculative branch must leave as it found it.  Early exits (first error,
  error cap, budget, scopes nobody reads) must not change the verdict.
  References may loop and may double the work at each level: the hop limit,
  the depth limit and the budget must between them end every validation, and
  the budget's book-keeping must balance through every dropped branch.
* **Numbers and assertions.**  A bound, a divisor or an equality is exact for
  every number JSON can write.  An exponent is an `int64` or, when it is too
  long, text; the two forms meet in every comparison, and the keys that make
  `uniqueItems` linear must tell values apart exactly as equality does.
* **Output.**  Detailed and verbose output rebuild a tree from the keyword
  locations of flat lists; nothing may be lost or doubled on the way, and all
  formats must give one verdict.
* **Loaders.**  `FileLoader` resolves, checks, opens and reads a path in four
  calls, while the file system moves under them; a chain must go on after a
  rejection and stop at a failure.
* **Generator.**  The schema of a Go type must accept what `encoding/json`
  writes for it: promotion of embedded fields, nulls, omitted and quoted
  fields, and definitions for types that refer to themselves.
* **HTTP loader.**  A single flight and a cache whose entries are read,
  judged, evicted and replaced in separate critical sections: a document must
  never go back in time for a caller.
* **Resource map and builder.**  Which document answers a URI depends on
  walking order and collision policy.  Four places work out the URI in effect
  at a schema, each from an `$id` and a base of its own, and must agree.
  Building must reach a fixed point although it fetches documents that add
  references, and leave nothing for validations to build: then no validation
  ever waits for a build.

The full list of hazards, each at its line with the properties that cover it,
is `hazards` in `PROJECT.json`.

## 2. Modules

| Module | What it is |
|---|---|
| `Compiler` | The compiler as goroutines share it: one action per step of `CompileURL` that another goroutine can observe, `seedResources` entry by entry, `AddResource` with its three policies. Properties and the inductive invariant `IInv`. |
| `CompileOnce` | What `CompileURL` promises: publish at most once per URI, return what is published. `Compiler!Once` instantiates it: `memo` is `cache`, a call's result is hidden until it has returned. |
| `Compiler_proofs` | The theorems about `Compiler`. |
| `MCCompiler` | TLC instance: who calls, and when. |
| `Evaluator` | One validation as a stack machine, and its inductive invariant: `WalkInv` for the call stack, `LedgerInv` for the accounts. |
| `Selecting` | Filtering a sequence by a set, as a recursive function. |
| `Evaluator_proofs` | `WalkInv`, the depth limit, and the restoration of a caller's context. |
| `Recursion_proofs` | Induction over a set of numbers, and what follows for recursive functions: they exist, and what `Those` and `FlattenSeq` return. |
| `Limits_proofs` | `LedgerInv`, and with it the budget, the reference limit and all of `LimitsHold`. |
| `Semantics` | A recursive definition of validity and of evaluated locations, taken from JSON Schema and not from the evaluator's order, buffers or flags. Compared with, never proved about. |
| `MCSchemas`, `MCEvaluator`, `MCRecursion` | Catalogues of schemas, instances and options for TLC. |
| `Decimal` | The exact numbers of `num.go`: parsing, both forms of an exponent, ordering, equality, keys, divisibility. |
| `Assertions` | The assertion keywords on top of `Decimal`: the shape of a keyword's value, its evaluator, and what the evaluator says of an instance. |
| `MCAssertions` | What numbers and keywords mean, digit by digit and with no limit on exponents, and the inputs the two are compared on. |
| `Builder` | One compilation: the resource map, the binding of keywords, the graph of subschemas. |
| `References` | What URIs, `$id`s, anchors and references mean, from the documents alone; what dynamic scopes can select; the properties of `Builder`. |
| `Builder_proofs` | The inductive invariant of a compilation and the theorems about `Builder`. |
| `References_proofs` | The invariants of the rounds of `buildAll` and of the walks, and the theorems about what a validation can select and which schema a URI stands for. |
| `MCBuilder` | A catalogue of compilations for TLC. |
| `HttpLoader` | The loader with its flight, cache, clock and servers, and its inductive invariant. |
| `HttpLoader_proofs` | The theorems about `HttpLoader`. |
| `Loaders` | The loaders that need no network, in a chain, call by call against a file system that changes. |
| `Loaders_proofs`, `MCLoaders` | The order of a chain, for chains of any length, and what the loaders return; small file systems for TLC. |
| `Output` | The output formats and the Go error made from one result, and the tree they are rebuilt into. |
| `MCOutput` | Errors and annotations of a schema with nested applicators. |
| `Generator` | From a Go type to a schema; and, to compare it with, what `encoding/json` writes and what a field's tags ask for. |
| `MCGenerator` | Go types, each for one rule of the walk or of `encoding/json`. |

Definitions whose comment begins with *Mutant* are wrong forms of the
definition that follows them, named in `PROJECT.json`.  No specification uses
them; each shows that a property notices the mistake it describes.

### Compiler

An element of `Call` is one invocation.  `pc[c]` is the statement about to
run; the labels are the points where another goroutine can see the difference
(the `sync.Map` operations, the two halves of the deferred function, the lock
of `seedResources`).  A schema and an inflight record are named by the call
that allocates them, so pointer identity is equality of names.  What `compile`
does to its own data is the single choice of an outcome: success, an error, or
a panic of the Loader.  The registry is modelled at the level where its hazard
lies: `arrays` are the backing arrays that ever existed, `resources` and
`snap[c]` are slice headers, so a write in place would be visible to a compile
that is ranging over the array.  `before[c]`, the calls that had returned when
`c` began, is a history variable for the properties.

### Evaluator

The Go call stack is explicit.  A frame is one `run` call with the `evaluate`,
`evaluateAt` or `evaluateBranch` around it (`mode`) and the local variables of
the keyword evaluator it is in (`acc`, `todo`); `ctx` is the `runCtx`.  A
frame's phases follow `run`: `enter` (budget, boolean schema, depth), `next`
(the loop over evaluators and `shouldStop`), `loop` (inside a keyword, with
what is left to visit), `exit` (the deferred functions and the return).

Data is abstract.  A subschema is a record of keywords; a value has a kind and
parts; an assertion that adds at most one error (`type` stands for them all)
is the set of values it rejects, and what each assertion rejects is
`Assertions`; an error is counted and weighed, not worded.
`required`, `dependentRequired` and `dependencies` keep their loops, since
they add several errors.  Kept exactly: the order of evaluators
(`orderKeys`, `evalPriority`), which keyword visits what and in which order,
when a scope is recorded, merged, adopted or dropped, what a branch saves and
restores, every charge and refund, and every limit.

The constants are what compiling and decoding leave: every subschema pointer of
a keyword is set, keywords that list names list names, and an instance is a
finite tree (`Height`).

Left out of the evaluator: `format`, `pattern`, the content keywords, the
OpenAPI discriminator, error locations, and the size of instances in the budget
(the limit is a number; `evalsForCount` only computes it).

### Numbers and assertions

A number is the text `scanMantissa` and `scanExponent` split: digits before and
after the point and digits of the exponent.  `Decimal` parses it as `num.go`
does: leading and trailing zeros go into the exponent, which is an integer
while it has at most `W` digits and a signed string of digits beyond.  In the
code `W` is 16 (`maxDecimalExp` is 1e15); the lengths at which the code changes
form or takes a short cut are `W`, `W + 1` and `W + 2`.  `MaxInt` stands for
`math.MaxInt`, beyond which a count saturates.  `Assertions` has the three
steps a keyword goes through: `validateKeywordShape`, its builder, and `eval`
on one instance, with the sibling keywords and the run options that change
them (`exclusiveMinimum` of Draft 4, `readOnly` and `writeOnly` in `required`).
`multipleOf` divides as the code does, chunk of digits by chunk.  Values that
are no JSON (`Other`), infinities, NaN and malformed `json.Number`s occur,
since callers may pass Go values.

`MCAssertions` says what the keywords mean without any of this: a number is the
set of its non-zero digits with the power of ten of each; one number divides
another by long division on those digits; two values are the same by structure.

### Builder

`compile` is sequential and recursive: `todo` is its call stack, the calls
still to be made in order.  A call is a registered document to walk
(`WalkSeed`), the schema to walk (`WalkRoot`), an object to bind (`BindNode`),
a reference to bind (`BindReference`), the meta-schema (`Vocabularies`), a
subschema to build (`EnterNode`, then `ResolveReference` per reference, its
children, and `Promote` into the cache), and the rounds of `buildAll`
(`Round`, `BuildTargets`, `Scan`, `ScanResource`, `SettleTarget`).  An error
drops the calls up to the caller that keeps it (`Throw`): the reference whose
target was being built, or nobody, and then Compile fails.  A walk is one step,
because nothing else looks at the map until it is over; what a failed walk had
registered stays (`Kept`).

`world` is one entry of the catalogue: the documents, which of them are
registered and which can be fetched, the base URI and the collision policy.
`rm` has the fields of `resourceMap`; `reg` holds the anchors of every resource
that was ever opened, also of one that lost its URI.  A resource is its URI and
the schema that opened it.  `order` is what `Schema.Resources` returns.

Data: a URI is the sequence of its segments and a relative reference replaces
what follows the last one, which is what `resolveURI` does for references
without dots, queries and hosts.  A fragment is empty, an anchor or a JSON
Pointer.  Schema objects are nodes with a parent and a path; boolean schemas
have nothing to resolve.  The drafts are two dialects: up to draft 7, where
`$ref` replaces its siblings and `$id: "#name"` is an anchor, and from 2019-09
on.  `$defs` sorts before references and `definitions` and the applicators'
children after them, as `orderKeys` has it.  A malformed keyword, a builder
that fails and an unknown vocabulary are faults a node may have.  `$schema`
occurs at the roots of documents, anchors of a nested resource are referred
to by its own URI, and no pointer enters a nested resource of another document.
Meta-schema validation (`WithSchemaValidation`) is left out.

`References` defines the canonical URI of every schema and the schemas a
reference denotes without a map or an order of walks, and what a reference
selects in a dynamic scope, and which resource the collision policy entitles to
a URI, given the order in which documents were met.  The helpers that say what
the language is (`Resolved`, `Named`, `Drafted`, `Opens`) are `Builder`'s.

### HttpLoader

As `Compiler`, with `entries`, a clock, and servers whose documents change.
`cacheGet` reads under the read lock, judges after releasing it, and deletes
under the write lock: three actions.  `fetch` is one action with its outcomes
(a body, an error, a panic of `RequestDecorator`); its time-out is why it
always ends.  `ret[c]` is what a call will return: data of some version, or an
error.  The redirect, dialer and size policies decide which outcome `fetch`
has, and are left out.

### Loaders

One `Load` of a `ChainLoader`.  `asked` holds the answers so far; a member
answers with data, a rejection or a failure.  `MapLoader`, `EmbedLoader`,
`DefaultLoader` and a disabled loader answer at once.  `FileLoader` is five
steps, resolving the root, resolving the path, `Stat`, `Open` and `Read`, each
of which may refuse or fail.  Between any two of them another process may replace an entry of a
directory by a file, a link or a pipe (`Swap`), write to a file (`Grow`) or
point the root elsewhere (`MoveRoot`).  An open file keeps its identity
whatever becomes of its name; a read takes one block more than `MaxSize` to see
that a file is too long.  URIs are records of what the loaders look at.

### Output

A run's errors and then its annotations arrive one by one (`AddError`,
`AddAnnotation`: the two loops of `buildOutputTree`), each with a keyword
location, an instance location and, for an error, the causes nested in it;
`root` is the tree under construction, and `Attach` makes the groups that are
missing.  Rendering is a
function of tree and lists: `flag`, `basic`, `detailed` with its pruning and
collapsing, `verbose`, and the single error of `ValidateAndUnmarshal`.

### Generator

`doc` is what `bytesFromType` returns for the chosen type and options: a schema
and its definitions, or an error; `text` is one JSON text that `encoding/json`
writes for a value of the type.  `schemaForType` recurses over the structure of
the type with the definition table passed through, as in the code; a named
struct under construction is entered once, and only those met again are kept
as definitions.  `jsonFields` is the generator's promotion of embedded fields, level by level;
`VisibleFields` and `GoValues` are `encoding/json`'s rules, stated separately, and
`Accepts` is validity for the keywords the generator emits.  `Meets` says
whether a value satisfies what the tags ask for.

## 3. Runs

| Run | Properties | Instance |
|---|---|---|
| `compiler` | `OneSchemaPerURI`, `NoStaleFailure`, `IInv` (with `LaterCallsHit` and `NothingOnlyAfterPanic`), `EveryCallReturns`, and that `Compiler` implements `CompileOnce`, liveness included (`PublishesOnce`); `SeedsOneRegistry`, `OneEntryPerURI`, `ArraysImmutable`, `RegistryGrows` | 3 calls on 1 URI, or 2 calls beside 3 `AddResource`s for 2 URIs, with 2 documents and a malformed one; each policy (269,662 states) |
| `evaluator_verdicts` | `VerdictCorrect`, `AnnotationsHold` | every pair from 8 object (7 array) schemas under 8 applicators, open and closed by `unevaluated*`, on 5 (4) instances; applicators in applicators over 3 operands, closed, on 5; 4 sets of options |
| `evaluator_recursion` | `LimitsHold`, `RunRestores`, `Terminates`; `VerdictCorrect` for `$dynamicRef` and `$recursiveRef` | 12 roots, five of them with loops, on 3 instances with all combinations of small limits; 8 roots with no limit in the way (66,948 states) |
| `http` | `IInv`, `ErrorsShared`, `NeverBack`, `EvictsOnlyExpired`, `EveryLoadReturns` | 3 calls, 2 URIs of which one is refused, 2 versions, 3 instants, time to live 0 or 1 (570,768 states) |
| `builder` | `Consistent`, `RefsMeanTheirURI`, `PolicyDecides`, `ValidationReady`, `Sound`, `CompileReturns` | 16 references by pairs, one in the outermost and one in a nested resource of 8 schemas, with a registered document and two to fetch; 13 more compilations under each policy; one fetch may fail (19,520 states) |
| `values` | `RejectsOnlyMalformed`, `VerdictsExact`, `DuplicatesExact` | 17 keywords with well-formed and malformed values, on numbers of the three groups of Go kinds, lists and objects chosen at the edges (20,653 states); `W` is 2 and `MaxInt` 42 |
| `output` | `NothingLost`, `VerdictsAgree`, `Grouped` | up to 3 of 6 errors, two of them with two levels of causes, and up to 2 of 4 annotations |
| `loaders` | `OnlyWholeFilesOfRoot`, `FailureSurfaces`, `MetaOffline`, `EveryLoadReturns` | 5 chains, 28 URIs, 3 directories of 2 names, 2 changes, files of up to 3 blocks where 1 is allowed, 2 links in a path (85,588 states) |
| `generator` | `OwnJSONValid`, `NullsExact`, `FieldsAgree`, `DefinitionsComplete` | 27 types under 12 sets of options; values up to 2 pointers, elements or entries deep |
| `evaluator_key_count` | `KeyCountSurfaces` is violated | `{"$ref": not ..., "properties": ...}` on an object with two keys |
| `loaders_schemes` | `BothSchemes` is violated | as `loaders` |
| `generator_list_enum` | `OptionListsValid` is violated | the example of `generate/doc.go` |

Some properties have named parts.  `LimitsHold` is `TypeOK`, `WalkInv` (every
frame and what it saved fit its caller), `LedgerInv` (every frame's accounts fit
its caller's), `Ledger` (the budget balances), `WithinBudget`, `DepthBounded` and
`HopsBounded`.  `IInv` of `HttpLoader` has
`TypeOK` and `OneRoundTrip` in it, and `ErrorsShared` is `FailuresExpire` and
`EmptyOnlyAfterPanic`.  `Consistent` is `TypeOK`, `AnchorsScoped`,
`FetchedOnce` and `TargetsSettled`, and `RefsMeanTheirURI` is `BasesAgree`,
`TargetsDenoted` and `BuiltIsTarget`.

Why these bounds.

* *Flights.*  A race on a flight needs an owner, a waiter and a latecomer: three
  calls.  A second URI shows that slots do not interfere and that `cachePut`
  purges the others.  Two versions and three instants let a response expire and
  be replaced while an older one is still being judged.
* *Registry.*  Three registrations are a new entry, a conflict and an append
  after it.  `MCCompiler` restricts who calls and never what a call does, so the
  behaviours it leaves are the model's with the same fairness: interchangeable
  calls start in a fixed order, an empty registry is first offered `d1` or the
  malformed document, for `u1`, and the third call is not made beside
  `AddResource`.
* *Evaluator.*  Two operands are what `anyOf` and `oneOf` need to accept, refuse
  and refuse for two; a third, nested, puts a branch into a branch, where a
  missing save or restore shows.  The walk is deterministic once schema,
  instance and options are chosen: the runs enumerate choices and follow each
  to its end.
* *Builder.*  So does this run.  Its catalogue combines nested resources (two
  levels, so that a base has a base), an anchor name declared twice, a part that
  only a pointer reaches, and documents that refer to each other; every kind of
  reference meets every other because binding one may fetch what changes the
  other.  Two fetches of a document are what a missing cache would show, and one
  failing fetch leaves the retry.
* *Numbers.*  With `W = 2` exponents of 1 to 4 digits lie on both sides of the
  edge, and sums of exponent and digits cross it in both directions; 42 is
  below, at and above the sizes compared with it.  Lists of three hold a
  duplicate with something between.
* *Loaders.*  Two changes can swap an entry after the first resolution and swap
  it, or the root, again after the second; one link leads out of the root and
  one back.  A file may grow beyond the limit while it is read.
* *Output.*  Three errors are two in one group and one in another below or
  beside it.
* *Generator.*  Each type is a rule or the meeting of two (a diamond of embedded
  structs, two types of one name, a cycle through two types); depth 2 reaches a
  nil inside a pointer and inside an element.

Deadlock checking is off where the specification may stop: calls return, walks
finish, nobody has to call.  `Builder` stutters when Compile has returned, and
its run checks deadlock: `todo` never holds a call that cannot be made.

Fairness.  `Compiler` and `HttpLoader`: weak fairness of each call's steps,
because a goroutine that can run is scheduled, sync.Map and mutex operations
end, and a load ends (an HTTP one by its time-out); nothing makes anyone call,
and neither the clock nor a server has to move.  `Loaders`: weak fairness of the
loading goroutine; nothing is asked of the other processes, and opening a pipe
would block (the step is not enabled) without the flag the code passes.
`Evaluator`: weak fairness of the one goroutine that walks.  `Builder`: the
compiling goroutine runs until Compile returns; with deadlock checked this is
weak fairness of `Step`, in a form TLC evaluates faster.

The violations are disagreements between a documented promise and the
code; `findings` in `PROJECT.json` quotes both sides.

1. An object over `WithMaxKeyCount` is to surface an error, but the flag that
   keeps it to one error per location survives the branch that recorded it, so
   the error can be dropped with the branch and the object accepted.
2. An `enum` tag on a list is put on the list's own schema, though its options
   are coerced to elements: no list validates, the documented example included
   (a nil list does not either).
3. `MetaLoader` is to serve every embedded document under `http` and `https`, but
   only a draft's own meta-schema has a key with the other scheme
   (`loader.go:289`): the vocabularies, the output schema and the OpenAPI dialect
   are rejected under `http`.  `MetaOffline` leaves these spellings out.

Met while modelling, and not runs:

* `WithStopOnFirstError` "stops validation once the first error is recorded"
  (`options.go:199`), but `dependentRequired` adds all its errors
  (`eval_validation.go:705`).
* "Concurrent requests for the same URI share one round-trip"
  (`httploader/loader.go:70`), but a load overtaken between its cache miss and
  its claim fetches again (`:158`), whereas `CompileURL` re-checks its cache.
* A relative root `$id` is applied twice by `compile` and the walk
  (`ref.go:306`), once by the build (`eval.go:1450`).
* A reference's `sub` "is the built target" (`eval_ref.go:19`), but the cache
  knows targets by their URI and children by their parent's key and a path, and
  the two can meet (`:80`).
* "Once it returns, the builder is frozen: validation only reads the subschema
  cache and the resource map" (`eval.go:1331`), but a target whose own `$ref`
  fetched a document may then fail to build (`eval.go:1404`): nothing new is in
  the cache, so the rounds end and that document is not scanned.  Under
  `RefCollisionLastWins` it can have taken over the URI of a schema that is in
  the cache, and then a `$dynamicRef` selects a subschema nobody built; the
  first validation that comes there builds it.  `ValidationReady` is therefore
  about compilations in which nothing failed to build.
* `RefCollisionError` fails a compile, but a collision met while fetching the
  target of a `$dynamicRef` is dropped with every other error of that resolution
  (`compile.go:624`), so `Sound` says nothing of it.
* `Resources` returns "the root URI first", but registered documents precede it
  (`compile.go:392`).
* A leaf of `Causes` is documented to have none (`types.go:194`), but the error
  of `ValidateAndUnmarshal` is the first failure with the others in its causes,
  and `RenderError`, which lists leaves (`errors.go:285`), then leaves the first
  failure out.
* A group that verbose output makes beneath an error keeps `valid: true`
  (`output.go:206`): `propagateValidity` does not go below an error, and
  `VerdictsAgree` is stated without those groups.
* A number of any Go integer kind, a `float32` or a `*big.Int` is documented as a
  number (`validate.go:72`), in schemas too (`multifmt.go:187`).
  `checkNumberOrBool` (`compile.go:742`) lists `json.Number`, `float64`, `int` and
  `int64`, so a `minimum`, `maximum`, `exclusiveMinimum` or `exclusiveMaximum` of
  another kind fails the compile, though its builder would take it and the other
  numeric keywords do.  `Assertions` has the kinds apart and refuses these;
  `RejectsOnlyMalformed` says nothing of them (`Unlisted`).
* `FileLoader` refuses every path whose relative form begins with two dots, a
  file named `..a` too.
* The generator never returns for a named slice, map or pointer that contains
  itself without a struct; describes a byte array as base64 text, a
  struct with `MarshalText` as an object, and `*big.Int` as a string; and lets a
  `const` on a list be a string.  The types of `MCGenerator` avoid these.

## 4. Proofs

The assumptions are those the modules name, and no theorem bounds a constant.

**`Compiler_proofs`**, for any sets of calls, URIs and documents and any
bound on registrations: `Typing` (`TypeOK`), `SingleFlight`,
`SchemaAgreement`, `SuccessIsSticky`, `FailureIsFresh`, `NothingMeansPanic`,
`SeedsAreOneRegistry`, `RegistryKeyed`, `CopyOnWrite`, and `Refinement`: the
safety part of `Compiler` implements that of `CompileOnce`.  Assumed: `None` is
not a call, a URI or an outcome, and the outcomes `"failed"`, `"panicked"`,
`"nil"` are not calls.

None of the properties is inductive.  That two calls return one schema, for
example, follows only when the record in a slot is known to be its owner's and
nothing is cached while somebody compiles.  `IInv` collects what is needed:

* `SlotInv`: a slot holds the record of exactly the call between its claim and
  its deletion.  Gives `SingleFlight`.
* `CacheInv`: past the re-check the cache is empty for the URI, and every schema
  in a record or about to be returned is the cached one.  With `SlotInv`, a
  store never replaces a schema; gives `OneSchemaPerURI`.
* `WaitInv`: a waiter's record belongs to a call for the same URI that had not
  returned when the waiter began, and is finished only after it was filled or
  its owner panicked.  Gives `NoStaleFailure` and `NothingOnlyAfterPanic`.
* `SeedInv`: what a compile has walked is a prefix of the array it read.
* `LaterCallsHit` and `OneEntryPerURI` are inductive with these.

Each action has its lemma per group of conjuncts; `Inductive` combines them,
and the theorems follow.  `Refinement` adds that the abstract step a concrete
one makes is `Begin`, `Publish` (`Store`), `Return`, or none.

**`HttpLoader_proofs`**, for any number of calls, URIs, versions and times to
live: `Inductive` (`IInv`), `SingleRoundTrip`, `ErrorsReachWaiters`,
`NeverOlder` and `FreshStays`.  Assumed: `None` is neither a call nor a URI,
versions start at 1 and times to live are natural numbers.  That a document
never goes back in time for a caller needs the most:

* `SlotInv`: one call at a time fetches and stores for a URI.
* `WaitInv`: what a record holds in each phase, and that a waiter waits for a
  call that had not returned when it began.
* `AgeInv`: whatever a call has read, recorded or returned is no newer than the
  server, nor than what the owner of the slot has fetched, nor than the cached
  response once it is stored; so a store never puts an older response into the
  cache.
* `ReturnInv`: what a call is about to return is no older than anything returned
  before it began, and an entry on its way to eviction has expired.

**`Evaluator_proofs`** and **`Limits_proofs`**, for any graph of subschemas, any
instances and any options: `Restores` (`RunRestores`), `DepthLimit`,
`BudgetBalances`, `BudgetKept`, `HopsBound` and `TypesHold`, and with them
`LimitsAlwaysHold` (`LimitsHold`).  Assumed: what compiling leaves in a keyword
(`SchemaAssumption`), that instances are finite trees (`InstanceAssumption`),
that a call has a schema, an instance and options (`ValidationAssumption`), and
that an error costs something (`ChargeAssumption`).  The limits may be any
integers.

`WalkInv` says of every frame what the context held when it was pushed and what
its callee must find: `Owes(f, c)` relates the depth, the hops, the scope flag
and the dynamic scope in `c` to those that `f` saved, by what `f` itself has
added so far (a level once it has entered, a hop while it follows a reference,
the flag if it set it, its resource if it crosses into one).  A frame below the
top owes that to the context its callee saved, the top to the current one.
Then a return finds `Owes` of the frame that ends, undoes it (`LeftRestores`),
and the caller's `Owes` holds again.  The steps of the walk change the stack in
three ways only, and a lemma each (`TopStep`, `PushStep`, `PopStep`) says when
`WalkInv` survives; that a keyword records at most one error for a branch is
`AbsorbContext`, by cases on the keyword.

`LedgerInv` makes the sum over the stack local.  `Balance(c)` is the weight
charged in `c` beyond the errors in its buffer; a frame has set `Aside` the
buffer it saved for a branch and the causes it collects; and `Settles(f, c)`:
the balance of what `f`'s callee saved (of `ctx` for the top) is the balance `f`
saved plus what `f` set aside.  That survives every charge, refund, drop and
merge, one lemma per operation on a context (`ErrorAccounts`,
`RefundAccounts`, ...), per step, and per keyword that absorbs a branch
(`AnyOfAbsorbs`, `OneOfAbsorbs`, ...).  Along the stack it adds up to `Held`
(`HeldIsCharged`).  For the reference limit `LedgerInv` adds `InLimits`: no
context goes beyond the limit, and `Nested`: a callee is at its caller's
location or in a part of it.  A location that is left for a part is not met
again below, because `Height` falls, and a part starts at no hops, so the hops
at one location are those passed from frame to frame (`HopsLimited`).

What is defined by a recursive function is proved with `SetInduction`: a set of
numbers that has 0 and is closed under successors has them all.  It follows from
the least element of a set (`LeastNat`) and takes a set, where the library's
induction takes a predicate that no installed prover can instantiate.
`RecursiveFunction` derives from it that a function defined by its predecessor
exists and satisfies its equations.

**`Loaders_proofs`**, for chains of any length and any file system that changes
in any way: `ChainOrder` (`FailureSurfaces`), `FilesStayInside`
(`OnlyWholeFilesOfRoot`) and `MetaServed` (`MetaOffline`).  Assumed: a directory
of `Roots` only ever holds what is in `Content`, no URI names a file by its
identity, and a file's URI names it in a directory or is refused.  `ChainInv`
adds that before the end every answer was a rejection, and that `FileLoader` is
at work only while its answer is due.  `FileInv` says what `FileLoader` knows at
each statement: `root` is a directory Root led to, `path` a name, and the opened
file one of `Content`.  The last follows although everything may have changed
since the path was resolved, because a path that is confined to a directory ends
in it (`WalkEnds`, by `SetInduction` over the links followed).

**`Builder_proofs`**, for any documents, registered or to be fetched, any
references between them, any base URI and policy, and any failures of the
loader: `WhatCompileKeepsAgrees` (`Consistent`), and as parts of it
`EveryTargetSettled` and `NothingFetchedTwice`.  Assumed (`WorldAssumption`,
`AlphabetAssumption`): a document is a tree of schema objects of its own, listed
from the root down; documents registered or fetched are not the one being
compiled, nor one another, because each is parsed by itself; the names and
nodes of a world are tokens, and tokens have an order, as map keys have for
`unvisited`.

`BInv` is about the calls still to be made, because nothing wrong is ever
visible in what is kept already:

* `MapOK`: the map is well formed, and a name is an anchor of the resource that
  answers for its schema.  A walk goes through a document from the root down, so
  a schema finds its parent's resource, and only over nodes that have none
  (`Fetching`: a document that no walk has met is not in the map), so the first
  resource of a schema is its only one.
* `Fetching`: a document that was fetched holds its URI in the map, even if its
  walk failed half way (`Kept`); so no reference asks for it again.
* `TodoOK`: each call finds what its turn needs (`CallReady`).  Calls lie in the
  order of the Go stack (`InOrder`): a subschema inside another lies above it,
  and what resolves or promotes a location belongs to the build below
  (`Building`, `Resolving`).  So a subschema enters the cache after all those it
  applies, and an error that drops the calls of a build (`Throw`) drops all of
  them and none of anybody else's.
* `SeenOK`: a subschema that the rounds of `buildAll` have visited has the
  target of each reference built, given up, or due (`settle` on `todo`); one that
  entered the cache since is `Pending`.  With `EndOK`, Compile returns only when
  nothing is pending or due, which is `TargetsSettled`.

A failing build complicates all four.  It is abandoned with the builds around
it, up to the reference that wanted it, and its locations may be entered again,
where evaluators of the first time are replaced.  `SeenOK` survives because a
build that is under way has its location out of the cache, so nothing visited is
replaced.  The walk of a document is a recursive function, handled with
`SetInduction` over the nodes it has met.

**`References_proofs`**, with the assumptions of `Builder_proofs` and none
besides: `WhateverIsSelectedIsBuilt` (`EveryScopeReady`) and `ReadyWhenCompiled`
(`ValidationReady`).  When Compile returns and nothing failed to build, whatever
a `$ref`, `$recursiveRef` or `$dynamicRef` of a subschema in the cache selects is
in the cache too, in every dynamic scope: the theorem takes any sequence of
paths for a scope, where the run takes one resource of the map at a time.  So a
validation, which only follows references from subschema to subschema, never
builds.

`BInv` does not say this.  A target of a `$ref` is built by the reference that
names it, but what a dynamic reference can select is found by scanning the
resources, and each resource, each subschema and each fragment may be new since
the last scan.  `RInv` adds why no pair of a fragment and a resource is forgotten:

* `Noted`: `work` holds the fragment of each dynamic or recursive reference of a
  subschema the rounds have visited.
* `Arranged`: what is still to be made lies in the order of the rounds.  A scan
  never lies beneath the first walks, the calls of one round lie together, and a
  location a scan came upon is due (`settle`) until it is built or given up.
* `Coming`: either a scan of everything is still to be made; or something is
  unsettled (a subschema that no round has visited, or an evaluator that failed);
  or each resource that offers a noted fragment has its target built, due, or
  the resource itself still lies ahead of the scan (`Offers`).

The order of `buildAll` matters: a round that finds nothing to visit ends it, so
a resource registered after the last scan must have come with a subschema that
enters the cache, unless its build failed.  That is the exception above, and it
was found when `Coming` without it could not be shown to survive `Throw`.  TLC
checked each conjunct on the `builder` instance before it was proved.

`PolicyAlone` (`PolicyDecides`) says which of two different schemas with one URI
answers for it: under `RefCollisionLastWins` the one a walk met last, under the
other policies the one met first, except that the schema being compiled has its
own URI in any case.  Registered documents are met in their order, then the
schema, then what is fetched in the order references ask for it, and within a
document its nodes from the root down; `add` knows none of this and only
compares with whoever holds the URI.  `DInv` is why that is enough:

* `Decided`: at every moment the map is right for the resources there are.  A
  resource that is opened comes after all with its URI (`RegistersDecides`), so
  to keep the holder or to replace it settles the matter; equal schemas may
  stand for one another.
* `Placed`: each resource belongs to a document that was met, so that a document
  that is fetched comes after all of them (`FetchedLast`).  `BInv` supplies that
  it was not walked before.
* `Seeding` or `Seeded`: until the schema is walked, all resources are of
  registered documents, and the walks to come lie on top of the calls in their
  order; from then on the schema has its URI and no such walk begins again
  (`OverForGood`).

A walk that fails half way leaves a part of its document in the map, and
`Progress` therefore holds after each node of a walk and not only at its end.

Only model-checked:

* liveness of all modules, which is beyond the prover;
* what recursive definitions compute: agreement with `Semantics` and with
  `MCAssertions`, the output tree and the generator;
* what `References` says of `Builder` beyond `ValidationReady` and `PolicyDecides`:
  `RefsMeanTheirURI` and `Sound` compare it with the meaning of URIs, which is
  recursive over documents.  They hold of the catalogue and not of
  every world: a relative root `$id` and two names of one location (section 3) are
  left out of it.

## 5. Not modelled

* *Formats, regular expressions, Punycode, the YAML, TOML, JSONC and JSON
  readers, the Go code generator, argument handling*: parsers and layout of
  single inputs without state or order.  `pattern`, `patternProperties` names
  and `format` are therefore sets of what matches.
* *Content keywords* (`content.go`): decoding one string for three sibling
  keywords.
* *Meta-schema cache*: a mutex around a map.  The compile under it has schema
  validation off, and the embedded documents name only their own drafts, so it
  cannot come back to the mutex.
* *Concurrent building* (`buildSubschemaIn`'s wait for another goroutine):
  `buildAll` freezes the builder before Compile returns, and `ValidationReady`
  says that it leaves nothing to build unless an evaluator failed, so only then
  has the wait anybody to wait for.
* *Validation against the meta-schema*, and the six drafts as six: `Builder` has
  two dialects, `Assertions` tells Draft 4 from the others.
* *`RenderError`* and the encoding of outputs: text and layout.
* *Generator*: the tokenizer of tags with its escapes, metadata keywords, `$id`
  and `$ref` tags, doc comments, ordered output, `WithInterfaceAsAny(false)`,
  `WithDurationAsString`.
* *HTTP policies*: redirects, address filters and size limits, which decide one
  of `fetch`'s outcomes.

What could follow, in this order: `Builder` with `$schema` in nested resources
and meta-schema validation; the content keywords in `Evaluator`'s walk; a
composition of `Compiler` with `HttpLoader` as its Loader, whose flights nest;
for `Builder`, the theorem that a reference is built from its target
(`BuiltIsTarget`), which needs an order between two builds of one location; the
size of instances in the budget (`evalsForCount`, `satAdd`, `countValues`).

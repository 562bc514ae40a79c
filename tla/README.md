# A verification project for doxy2md

doxy2md reads the XML output of doxygen and writes one Markdown page per XML
file. It is a sequential program: one thread, no network, no locks. What is
hard in it is not concurrency but bookkeeping that has to stay right over long
sequences of steps: an error of one file must not cost the others, the link
catalogue must hold exactly what was rendered, options must be read in an order
that makes `--help` complete and refusals harmless, and one set of recursive
handlers serves three passes over a document, so that an early return or a
missing test loses, repeats or leaks text that no test looks at (the two tests
of `tests/CMakeLists.txt` run the program and look at its exit code).

## Inventory

| Part | Source | State | Operations | Interacts with |
|---|---|---|---|---|
| Application | `Application.cpp` | link catalogue, ids of the open source, pages on disk, pending error | `run`, `check_error` | builds Options once and a DoxyJson per page; file system |
| Program | `main.cpp`, `IO.hpp`, `Application.hpp`, `Application.cpp:11-26, 117-124` | verbosity of the two printers, exit status | `main`, `set_verbose_level`, `check_error` | Options, then Application |
| Options | `Options.hpp`, `IO.hpp` | options, configuration, printer in use | constructor | `sys::Cli`, file system; leaves the process or an error for `run` |
| DoxyJson | `DoxyJson.cpp/.hpp`, `macros.hpp` | pass, stack of element names, ids, output | `process_file`, `print`, `handle`, 36 handlers | Configuration, the catalogue of earlier sources |
| Link urls | `DoxyJson.hpp:104-215` | none | `get_link_url`, `get_external_prefix`, `get_id_without_hash` | catalogue, `m_external_prefix`, page id |
| Configuration | `Configuration.*` | JSON object | `make_defaults`, accessors, `is_private`, `is_proteted` | read by all |
| StratifyLabs API | external | execution context | JSON, file system, printers, command line | called by all |

What makes each correct:

* Application: a failure costs one file; the catalogue has one complete entry
  per finished source, from exactly the pages that were rendered; every
  rendered page is on disk unless its write failed or it was written over; a
  page is rendered against exactly the earlier sources; the batch ends.
* Options: help lists every option that has a description, is always answered,
  and does nothing else; a run starts exactly when what the constructor looks at
  is there; a refusal changes nothing.
* DoxyJson: what must be in a page is there once; what the configuration hides
  is not; a listing has no links; ids are gathered before anything is printed;
  the members shown have their anchors.
* Link urls, over a whole run: exactly which links lead to a page or an anchor
  that is on disk at the end.
* Configuration: the user's file over the defaults, key by key.
* Program: errors and traces by the right printer in the right detail, nothing
  made after an error of the options, and what the exit status tells.

The hazards, each at its line with the properties that cover it, are in
`PROJECT.json`.

## Modules

| Module | Models | Checked by | Proofs |
|---|---|---|---|
| `Publication` | the promise of `run` about its catalogue (abstract) | as a property of `application` | |
| `Application` | `Application::run` | `MCApplication`, `Application.cfg` | `ApplicationProofs` |
| `Options` | the constructor of `Options` | `MCOptions`, `Options.cfg`, `OptionsParent.cfg`, `OptionsManual.cfg` | `ProgramProofs` |
| `LinkUrl` | `get_link_url` and its helpers, as operators | through `DoxyJson` and `Site` | |
| `DoxyJson` | `process_file` and all handlers | `MCDoxyJson`, `DoxyJson.cfg` | `DoxyJsonProofs`, `TextProofs`, `PageProofs`, `OnceProofs` |
| `Site` | `Application` and `DoxyJson` composed, and where links lead | `MCSite`, `Site.cfg` | `SiteProofs` |
| `Configuration` | accessors, defaults, update, and the user's file over several runs | `MCConfiguration`, `Configuration.cfg` | `ConfigurationProofs` |
| `Program` | `main` to exit over `Options` | `MCProgram`, `Program.cfg` | `ProgramProofs` |

`MCDocuments` turns a table with a row per element into the JSON values of
`DoxyJson`; the MC modules write their documents with it.

Operators named `...Again`, `...Always`, `...Leaks` and the like, marked as
wrong or mutant, are plausible bugs of the definition that follows them. No
specification uses them; `PROJECT.json` pairs each with the property that
catches it.

### Application

One action per stretch of the loop between two calls that can fail.
`ReadDirectory` to `PushLinkTag` follow `Application.cpp:33-114`; `phase` is the
place in the code. The order in which a folder lists its entries is left open.
`process_file` is one step, which succeeds with the ids of the file or fails
with or without them; that it gathers what it should is the business of
`DoxyJson`. Names, paths and ids are members of small sets, and a page records
who wrote it, whether the write went through, and how many catalogue entries it
could see. `rendered`, `failed`, `unwritten` and `unreadable` are history.

Two conventions of the external library are assumed, as the code uses them. A
pending error turns the library's calls into no-ops, as `API_RETURN_IF_ERROR`
does for the functions of this repository. `api::ErrorScope` puts the error it
found back when it is destroyed. A `write` that fails leaves the old page or a
torn one.

The model shows a limit of the error handling, which `ErrorsAreScoped` and
`FailuresAreIsolated` state as it is: `read_directory` is outside every scope, so
the first folder that cannot be listed silently ends the batch in effect, and
the sources after it are entered in the catalogue with no ids.

### Options

One action per option, in the order of the constructor; `Read` is
`Cli::get_option` with a description, which also enters the option in the help
menu. `Described` are the eight options read that way; `Option` has `--verbose`
besides, which `run()` reads before them and without a description
(`Application.cpp:12`), so that the menu never has it. The file system is what
the constructor asks of it: the configuration file is absent, not JSON, or valid;
the destination and its parent are absent, a folder, or (the destination) a file.
A destination of one component has no parent. The source folder is not part of
it: the constructor only asks that one is named, so a run starts without the
folder as well, and finds out in `read_directory`.

### DoxyJson

The handlers call each other recursively through `print()` and `handle()`. The
model makes the call stack explicit: `work` is what remains to be done, innermost
first. `Dispatch` is `handle()` with the HANDLE macro: it pushes the name and
leaves the call and the pop. A handler's action replaces its call by what the
body does, in order: tokens, `Visit` for `print(JsonValue)`, `Call` for a handler
called directly. Scopes of the Markdown printer (Header, List, Code) are an
opening and a closing token, the second where the destructor runs. So an early
return, a test of the pass, or a scope that ends before the children are printed
is where the code has it.

Newlines and labels are left out, a name stands for the text built from it
(`show_name`, `scope::name`, `namespace::name`). An attribute is a child whose name
begins with `@`, as `from_xml_string` makes it. `handle()` drops those: the
HANDLE_AT lines are inside `#if 0` (`DoxyJson.cpp:159-176`), and so the model has no
handlers of attributes. An id is the sequence of its parts
between underscores, so that `get_id_without_hash` is the sequence without its
last part. A document is a table of JSON values, as `from_xml_string` with
`IsXmlFlat::no` gives them: null, a string, or an array of single-key objects.
Errors in `process_file` come before the first pass (missing file, no XML, the
trace file not written); then no pass does anything.

What a page must have is read off the document by recursive functions that
know nothing of the passes, and the properties compare the output with them.
Most are instances of `Gathered`, which collects what an element and those below
it have, without what is inside a set of elements: `TextsWithout`, `AllIds`,
`MembersWithout`; `Descriptions` has its own recursion. They describe the elements
that have a handler. What must not be on a page is stated of every text there is:
`PrintedWithout` says that each is one of the `Words` of the program or a text found
outside the elements left out. What must be there once can only be told of a text
that is in one place of the document and is no word of the program (`Telltale`): a
constructor is called like its class, so the title of a class with one is printed
again as the name of a member, and `TitleLeads` then says only that the page starts
with it. Two limits of the code are stated there rather than hidden: elements
without a handler (`parameterlist`, `bold`, `verbatim`) are dropped with all they
contain, and `Typeless` members, those with a definition and no type, end with
their definition (`DoxyJson.cpp:540`), so constructors lose their documentation.
`handle_inbodydescription` has no test of the pass (`DoxyJson.cpp:375-378`): its
text is printed in the summary and again in the details. Nothing in the
repository says whether it should be, so it is neither among the `Descriptions`
that must be there once nor in `Detail`, the set of elements that a summary
leaves out, and `SummaryIsBrief` does not say that a summary is free of it. A section is hidden by its kind, so a private member
in a `user-defined` section is shown. `handle_memberdef` reads `@virtual`, which
doxygen does not write (it writes `@virt`).

### Site

`Site` extends `DoxyJson`, whose variables are those of the DoxyJson object of the
entry in hand, and takes the batch from `Application` as the instance `Run`, in
which `doxy_links` is the `link_container` of that object and `link_container` the one
of `run()`, here `source_links`. The steps of the passes stand in for the
one-step `ProcessFile`. `OpenEntry` makes a new DoxyJson with its `job` (the document of
the file, the folder, the configuration and the catalogue as it is),
`CloseEntry` drops it, and `PublishPage` keeps the tokens of the page in `pages`.
What is on disk at the end is the result of failures, torn writes and pages
written over.

`Resolve` reads an url as a browser does from the folder of a page: `..` goes up in
the folder without its `.` and empty components, above the root there is
nothing, and a base url stands for the root of a published site. The pages are files with `.md` behind their names
(`Application.cpp:85`), whatever `linkSuffix` puts behind the urls (empty by default,
`Configuration.cpp:15`): a link names what the site makes of the file, and
`ServedSuffix` is what that site puts behind its names. `AnchorForms` are the forms of
anchors it can be led to. `Lands` says that the url has the suffix of the site, that a
page is there, and the anchor in one of those forms where the url has one. `Promised` says the same from the
documents and the catalogue alone. `LinksLand` is that the two agree, so it names
the dead links too, the ones the code makes by design or by oversight:

* a member of another page of the same source (`#id` on the page itself,
  `DoxyJson.hpp:199`; `is_internal_link`, which tells such an id from one of the page,
  is never called);
* a member in a summary, whose link has no kindref and names a page
  (`DoxyJson.hpp:207`);
* an id of a later source, since the catalogue has only earlier ones;
* an id of an earlier source, from a folder that is not in normal form (`./a`
  counts two `../`, `DoxyJson.cpp:27`), or with a base url behind `../`
  (`Application.cpp:110`), or without relative paths and without a base url;
* a hidden member, and any page whose write failed or that was written over;
* every other page, when `linkSuffix` is not what the site has, and every member,
  when the configuration makes no anchors or only such as the site cannot be led
  to (`Configuration.hpp:31-32`, `DoxyJson.hpp:245-256`): links to members are made
  whether or not there are anchors.

`ImplementsApplication` is the refinement: hiding the DoxyJson, a run is a run of
`Application` (the instance `Batch`), where each file gives the ids `Ids` says, which
are those of its document (`IdsOf`). The mapping shows `doxy_links` as empty
until `process_file` returns.

### Configuration

`make_defaults`, the accessors of each part with the form they read, and
`JsonObject::update` with `recursive`, over JSON values of which the text is `default`,
`mine` or empty. Around them is what the README of the program tells a user to do:
show the configuration, save it as the configuration file, edit it, run with it.
Printing and parsing a file are not modelled (printer and parser are external):
a saved file is the value that was shown, and nothing is claimed about that. It is
assumed that users give the values of a part the form its accessor reads, or
null. An accessor of nothing reads the empty value of
its form.

### Program

`Program` extends `Options`: `SetVerboseLevel` before the options, `ReadOption` for a
step of the constructor, `Leave` for its `exit()`, `CheckError`, and a batch of which
`MakePage` keeps the reports of `check_error` and the trace files. The level of
verbosity is a function of the printer: the level asked for is set on the YAML
printer (`Application.cpp:12`), which `--json` leaves afterwards. `VerbosityOfTheRun` says
that nothing is ever reported in more detail than `--verbose` asks for, and that
without `--json` nothing is lost. With `--json` the level is lost; no document of the
repository mentions `--verbose`, so the property leaves that open.

## Runs

| Run | Asks | Bounds | States |
|---|---|---|---|
| `application` | the batch under every pattern of failures | up to 3 sources; 2 XML files and a third entry; 2 folders, 2 outputs; all include/exclude pairs over 2 patterns | 235,000 |
| `options` | every command line in every file system | all values of the 8 options | 151,000 |
| `options_parent` | the message at `Options.hpp:129` | the same | violation |
| `options_manual` | the help in `MANUAL.md` | the same | violation |
| `doxyjson` | the three passes | 14 documents, 16 configurations | 55,000 |
| `site` | a whole run, page by page | 6 lists of 2 sources over 4 documents, 5 settings, up to 1 failing call | 68,000 |
| `configuration` | the configuration over several runs | 2 edits of the file | 4,700 |
| `program` | the verbosity and the exit status | 3 verbosities, every file system | 104,000 |

**application.** `TypeOK`; `ErrorsAreScoped`, `FailuresAreIsolated`,
`PagesAreAccountedFor`, `PagesSeeEarlierSources`, `CatalogueLeadsToPages`; the
refinement `Publishes`; `Termination`. Two sources are needed for a page to be written over and for an
error to reach a later source, three for an unlisted folder between two others.
Two XML files in a folder give a failure with a neighbour before or after it.
Sources share a folder, an output, both or neither. Two patterns are enough for
a file to match one list, the other, both or none. Nothing in the code compares
or counts more than that.

**options.** `HelpListsAllButVerbose`, `HelpDoesNothingElse`, `HelpIsAnswered`,
`RunsExactlyWhenReady`, `RefusalsChangeNothing`, `ConfigurationIsShown`. The values are
all the constructor tells apart, so this run is exhaustive.

**options_parent.** A finding. `Options.hpp:125` tests the destination where it
means its parent; the test is in the branch in which the destination is not a
folder, so it is never true. Every destination of two components that does not
exist is refused with "(parent directory must exist)", whether its parent exists
or not.

**options_manual.** A finding. `MANUAL.md:6-13` shows the help of the program with
seven options; the menu has an eighth, `version`, which the constructor reads with
the description "Show the version" (`Options.hpp:32`).

**doxyjson.** `DescriptionsOnce`, `SummaryIsBrief`, `HiddenStaysHidden`,
`ListingsArePlain`, `TitleLeads`, `ListedOnce`, `IdsGathered`, `AnchorsOfMembers`. The
documents are nine parts of a doxygen file (base classes, inner classes, list of
members, functions, private and protected attributes, enumerations, brief and
detailed descriptions with listings and lists, a titled page), each alone, three
combinations, all together, and a file without a compound such as doxygen's
`index.xml`. Between them every handler runs in every pass. The configurations
are all combinations of summary, private and protected; anchors are both on or
both off, and so are titles. Every text in a document is its own, so that a text
in the output tells where it came from.

**site.** `LinksLand`, `ImplementsApplication`. The
documents are two classes of a library that refer to each other and to their own
members, an application class that refers to members, hidden members and pages
of the library, and a document of the same name in another folder. The sources
come in both orders, in one output folder, in two, in the root, in a folder not in
normal form, with and without a base url and relative paths; the configuration
makes a summary and shows nothing private. The five settings are relative paths
or not, with anchors the site can be led to; relative paths with the other form of
anchors; absolute paths without anchors; and relative paths with `.md` as the suffix of
links, where the site (`ServedSuffix` is empty, `AnchorForms` is `html`) has none. Every kind of url is promised somewhere and dead somewhere in the run.
`MaxFailures` is 1: any one call fails, a page, a write that tears or leaves the
old page, or a listing, whose error makes every later page fail too; `application`
has every pattern of failures. `HashLength` is 2 because the hashes of the documents
have two characters.

**configuration.** `UserValueFirst`. `MaxEdits` is 2: a file and an edit
over it, on what was saved or before it is shown and saved; the update is applied
key by key, and the files have every kind of entry (a part twice, a part that
is not an object, null, an unknown key, an unknown part, an array).

**program.** `VerbosityOfTheRun`, `ReportedInOneFormat`, `StatusOfTheRun`. All values of
the options that decide how they end (`--manual` is left out: it changes the looks of
the help only), in every file system; the levels below `debug` print the
same here, so `normal` stands for them.

Deadlock is checked in all runs; a finished program stutters.

## Fairness

`FairSpec` of Application and Options is weak fairness of the whole next-state
relation: the program is one thread that does not stop between two statements,
and the file system calls return. No action has a fairness of its own. In
Application it makes `Termination` a real question, since the loops could go
round without getting anywhere; `OpenPageAgain` is a bug that does.

## Proofs

TLC looks at a small instance; the theorems hold for every value of the
constants, under assumptions that TLC evaluates on its instances too:

| Assumption | Says |
|---|---|
| `InputAssumption`, `NoPageAssumption` | files, folders, patterns and ids have the types their comments say; no page looks like no page |
| `CommandLineAssumption` | command lines and file systems are of their types; what exists is in a folder that exists |
| `VerbositiesAssumption` | `--verbose` names a level of the printer, or is not given |
| `UserFilesAssumption` | users give the values of a part the form its accessor reads, or null |
| `JsonAssumption` | JSON values are null, strings or arrays, and finite: a child is smaller than its parent |
| `JobAssumption` | a job has a document and a folder |
| `CompoundAssumption` | a document is a doxygen element; it has one compounddef, which is nowhere deeper (doxygen writes one per file), and besides it attributes |
| `ListingAssumption` | a listing has lines of code, a line has runs of text, blanks and references (doxygen's schema) |
| `MembersAssumption` | members are in sections and sections in the compound (doxygen's schema); a member has an id, and no two have the same |
| `SiteAssumption` | the constants of `Application` and of `Site` are of their types (the served suffix and the forms of anchors among them); no page looks like no page |
| `DocumentsAssumption` | the documents of the listed files are among those of `Jobs`; the ids `Application` gives to a file are those of its document |

**ApplicationProofs**, over `Application::run` for every configuration and every
pattern of failures.

* `TypeCorrect`: `TypeOK` is inductive as it stands.
* `ErrorScoping`: `ErrorsAreScoped` speaks of the moments between two entries, so
  it is not inductive. `ErrorInv` adds what the scope holds during an entry:
  `saved` is then the error of the unlisted folders.
* `VisitInvariant`: a file leaves `pending` before its page is made, and only
  files of the sources seen so far are rendered. So a file is rendered once.
* `LinkInvariant`: at every place of the loop, the ids in `link_container`, with
  those of the DoxyJson object between success and publishing, are the ids of
  the rendered files; the catalogue has an entry for each finished source.
* `ImplementsPublication`: the refinement. A successful `ProcessFile` maps to
  `Render` (by `VisitInvariant`, and by `SelectedIsChosen`, which shows that the two
  lambdas select what their comments say), `PushLinkTag` maps to `Close` (by
  `LinkInvariant`), every other step to a stutter.
* `EarlierSources`: `PagesSeeEarlierSources`, from the length in `LinkInvariant`.
* `IsolatedFailures`: `FailuresAreIsolated` speaks of finished sources. `TriedInv`
  says what a source in progress has: the files tried, those still to be tried
  and the one in hand are the chosen ones, as long as every folder could be
  listed; after that nothing is ever in hand.
* `AccountedFor`: `PagesAreAccountedFor`, which says both that a rendered page is on
  disk or why it is not (`RenderedIsWritten`), and that a page on disk, whole or torn,
  was rendered by the source it names (`WrittenIsRendered`). `PageInv` adds that between
  `process_file` and `is_success()` the error tells whether the page was rendered.
  That no page is written over by its own source comes from `VisitInvariant`.
* `CatalogueLeads`: `CatalogueLeadsToPages`. `EntryInv` says that an entry of the
  catalogue is that of the rendered pages of its source, and goes on saying so
  when later sources render theirs.

**ProgramProofs**, over every command line and file system. First the six safety
properties of the constructor of Options. They speak of how it ends;
`ConstructorInv` says how far it is while it runs. `MenuInv`: the menu has the
options before the one whose turn it is (so `help`, the last, lists all of `Described`).
`RunningInv`: which questions have been settled at each option, and that nothing
was shown, nor touched before the destination's turn. `OutInv`: the ways out, each
with what it has done. The order of the options is cited through `Places` and
`NextPlace` only.

Then the run. `RunsTheConstructor` is a refinement without a mapping: a
behaviour of the program is, on the variables of Options, a behaviour of the
constructor, so the theorems above hold of the program and are used in the
others. `LevelInv` (the level asked for is on the YAML printer, never on the JSON
one, so none has a higher one), `PlaceInv` (how the constructor ended, in each place of the run) and
`ReportInv` (by which printer, in which detail, how often) give `VerbosityHolds`,
`OneFormat` and `StatusTells`.

**ConfigurationProofs**. `UserFirst` is a lemma about `update` and the accessors, and
`ProcessInv`, which says what a running process has as its configuration.

**DoxyJsonProofs**, over every document of any size and depth.

* What the recursive definitions compute has to be known for every document. The
  induction theorems of the library take a predicate as a parameter, which the
  provers cannot instantiate; the proofs use the least counterexample instead.
  `LeastNumber` is the one consequence of well-foundedness that is needed, and
  `GatheredOfElement` follows from it: a function `Gathered` satisfies its recursive
  equation at every element, since it does so for all elements up to each size.
  `AllIds`, the texts and the members are instances of it.
* `DoxyJsonTypeCorrect`: `TypeOK` says that names are pushed and popped in pairs,
  which needs to know where the pops are. `Nested` relates the name container and
  the remaining work: the names are, innermost first, those of the `Leave` items
  in `work`, which is what a call stack would give. The handlers only ever put
  items without a `Leave` in the place of their call (`HandlersReplace`).
* `PageIdsGathered`: `IdsGathered` speaks of the ends of the passes. `LinksInv` says
  in the middle of the links pass that the ids gathered and the ids of what is
  still to be visited are those of the document, and that the compound is ahead
  until its id is known. `LinksStep` shows it for one item.

**TextProofs**. What must not be printed, at any depth of any document.
`BodyOf` is the body of each handler as a case distinction, so that a step of a
handler is one step of the proof. `Telling` says of what is printed and of what
remains to be done that all its texts are allowed: words of the program, or texts
outside a set of elements. It is inductive for a set whose elements are `Quiet` (their
handlers print nothing) and `Unread` (no handler reads them for its own text, as it
does a name or a type); `NotPrinted` shows that of the elements of `Detail` in
the summary and of the hidden elements. `PageInv` carries the two along, and gives
`SummariesAreBrief` and `HiddenIsNotPrinted`.

**PageProofs**. What a page is made of.

* `ListingsHaveNoLinks`: each place between two items of the remaining work is
  outside the fences, in one, or in a line of code. `Leads` says that the items lead
  from one place to another (an opening fence from outside into it, a link only
  from outside to outside), and the bodies of the handlers lead back to where they
  start. That `ref` prints no link in a line comes from `Nested`: the `Leave` of
  the line is in the work, so its name is on the container. `Balanced` ties the
  place to the fences counted in the output.
* `AnchorsAreOfMembers`: the anchors printed and those that the remaining work
  leaves (`Marks`) are, together, those of the members, no two the same (`Apart`).
  A handler takes its item off and leaves the marks it had: members are in
  sections only, so that nothing below a member, and not the description that
  `compounddef` calls for, has a member in it. `PlacedInv` says that
  the calls are of elements of documents, which is what the assumptions speak of.

**OnceProofs**. What a page has once.

* `ClassesAreListedOnce`: a text that is in one place of the document is sought. Of
  the remaining work one item is hot, which leads to that place or prints the text,
  until it is printed; every other item is cold: it says texts among which the sought
  one is not, or is mute, which means that its way to the text ends at a handler that
  does not print it. In the pass that lists classes the work is `Once`, in the
  other it is `Calm`.
* `TitlesLead`: the same machinery shows that no other header is the title. That
  it comes first is `FirstInv`: until something is printed, the next items push
  and pop names, drop attributes or visit the document, up to the compound
  (`Leading`), and `compounddef` prints its title before all else.

**SiteProofs**, over every set of sources, documents and failures.

* `PagesStepByStep`: `ImplementsApplication`. `PlaceInv` and `EntryInv` are what the
  refinement needs: while a page is made, the job is the document of the file in
  hand, and the DoxyJson object is in a state that `StateInv` and `LinksInv` of
  `DoxyJsonProofs` describe. They are inductive because `OpenEntry` makes a new
  object and no step of the passes changes its job. The step that ends the last
  pass then has the ids of the document (`LinksInv` at `done`), and maps to a
  successful `ProcessFile`; a page fails before its first pass (`FailsEarly`), so with
  no ids, and maps to a failed one; the other steps of the passes are stutters,
  and every other step is its own image.

Only model-checked, and why:

* `DescriptionsOnce`. The proofs of `OnceProofs` follow one place of the document. The
  description of the compound is a place that is reached twice, by the call of
  `compounddef` and by `print()`, and which of the two is under way is known by
  the names on the container only (`DoxyJson.cpp:316`). An invariant for it needs the
  hot items of `OnceProofs`, the name stack of `Nested` and the places of every other
  description (what doxygen's schema says of each structural element) at once.
* `LinksLand`. Where a link leads depends on how the sources of a run lie to each
  other, which the configurations of `MCSite` enumerate; `Promised` states it for
  those, not for every layout.
* Liveness under fairness (`Termination`, `HelpIsAnswered`): out of the
  prover's reach.

## Not modelled

The StratifyLabs API, except by how it is used; the SDK headers (compile-time
settings of vendored libraries) and build files; the texts of labels, newlines,
list indentation and header depth, which no property is about; printing a
configuration and parsing it; the handlers of attributes, which are compiled and
inside `#if 0` in `handle()`; and
`handle_derivedcompoundref` and `handle_amp_refid`, which are compiled and which
`handle()` never names.

## Plan

1. `Application` and `Publication` with proofs. Done.
2. `Options`. Done. `DoxyJson` with `LinkUrl`. Done.
3. `Site`, with where links lead. Done. That it implements `Application`. Done,
   with a proof.
4. `Configuration` and `Program`. Done.
5. Proofs of the safety properties of `Application`, `Options`, `Program` and
   `Configuration`; type correctness, the name container and the ids of
   `DoxyJson`. Done.
6. Proofs of what a page must not have (`TextProofs`), of its listings and anchors
   (`PageProofs`), and of its classes and title (`OnceProofs`). Done.
7. Left: `DescriptionsOnce` for every document, see above.

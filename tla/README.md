# A formal model of the CI log analyzer

TLA+ modules, TLC model checks and TLAPS proofs for `agentic_pr_analyzer`: a
Python program that fetches the log of a failed GitHub Actions job, turns it
deterministically into a report of what failed, and serves that report to an
agent through three MCP tools. All paths below are relative to the repository's
root; `P/` stands for `src/agentic_pr_analyzer/`.

Contents: 1 the system, 2 the modules, 3 the runs, 4 the disagreements the
model found, 5 the proofs, 6 what is abstracted and what is not modelled,
7 the plan, 8 how to run it.

## 1. The system

    GitHub API --> github/client --> github/ingestion --> github/models
                                                       (.log + .json on disk)
                                                               |
          cli parse -- load_raw_log ---------------------------+
              |                                                |
              v                                                v
    parsing/pipeline.parse_log  <----------------  mcp/server (three tools)
       normalizer -> segmentation -> registry of parsers           |
       -> caps and tail rescue -> clustering -> FailureReport --> mcp/adapter
                                                              (summary, cache)

One process runs one command. The parser is a sequential function of a text;
what makes it hard is that its passes hand partial results to one another
(lines stamped before spans are known, evidence capped before clustering reads
it, an exit code taken from a slice of the text). The ingestion is hard because
GitHub moves on and requests fail between its steps and because it writes two
files per job with no transaction. The MCP server is hard because its cache
lives from one call to the next while the files change underneath.

| component | source | state | operations | what is hard | what makes it correct |
|---|---|---|---|---|---|
| GitHub client | `P/github/client.py` | none | list failed runs, list jobs of a run, fetch a job's log | every request may fail in five ways; one page of the listing is read | failures become the exit code that names them; nothing is taken for complete that is not |
| Ingestion | `P/github/ingestion.py`, `P/cli.py` | the run chosen, the jobs left | choose the latest failed run, list its failed jobs, save each | GitHub goes on between the requests; a later job's request fails after earlier ones were saved | exit 0 means every listed job is saved whole; only failures, under their own run |
| Raw log store | `P/github/models.py` | the `.log` and `.json` of each job | `save_raw_log`, `load_raw_log` | two files, stop in between, saving over an older copy | the sidecar vouches for the log |
| CLI, config, exceptions | `P/cli.py`, `P/config.py`, `P/exceptions.py` | none | `verify`, `ingest`, `parse`, `analyze` | the mapping of failures to exit codes | each failure has the documented exit code |
| Providers | `P/parsing/providers/` | none | detect the CI system, strip timestamps, classify markers | two marker prefixes | a marker is recognised at the start of a payload only |
| Normalizer, limits | `P/parsing/normalizer.py`, `P/parsing/limits.py` | the lines kept, four counters | split, cut by lines or characters, mask, number | off by one at the caps; the two caps interact | numbers are those of the original log; a cut is recorded, and only a cut |
| Segmentation | `P/parsing/segmentation.py` | the open-group stack, the sections | GROUP, ENDGROUP, other line, end of log | unbalanced markers; a line is stamped, and a parent chosen, before any span is known | a tree of spans; each line in its innermost section |
| Parsers | `P/parsing/parsers/`, `P/parsing/confidence.py` | the blocks and tables of one pass, the block being collected, the current file | `detect` and `parse` of pytest, jest/vitest, compilers/linters, fallback | blocks without an end, output that looks like a banner, names that match two tests, a test told twice (call and teardown) | each failure printed is one diagnostic, with its own id, outcome, words and lines |
| Stack traces | `P/parsing/stacktrace.py` | the frames, the exception, whether a run of E lines is being read | parse a Python traceback, parse a JavaScript stack, choose the primary frame | chained exceptions, continuation lines, blank E lines, frames of libraries | the exception raised last; a frame of the project, of that exception if it has one |
| Process failure | `P/parsing/process_failure.py` | none | find the last exit marker | every parser co-emits it | a report has one exit code |
| Pipeline | `P/parsing/pipeline.py` | the report under construction | registry and fallback, caps, tail rescue, catch-all | one step of several failing; what is cut before it is used | nothing is lost silently; the exit code survives truncation |
| Clustering | `P/parsing/clustering.py` | representatives, builders, clusters | deduplicate, correlate, attach exit codes and duplicates, rank | rules tried in order against clusters that grow meanwhile | each diagnostic in one cluster under one role; the best cluster first |
| Sanitizer | `P/parsing/sanitize.py` | none | thirteen masking rules in order, applied to a line when it is normalized and to what a tool answers | a rule that takes another one's text or its token; masking what is masked | a secret counts under its most specific class; an answer is the report's line |
| Data model | `P/parsing/model.py` | frozen records | serialisation | none | records are what the other modules pass around |
| MCP server, adapter, paths | `P/mcp/` | `_report_cache` | `analyze_ci_log`, `get_full_report`, `get_cluster_detail` | eviction between two calls; positional cluster ids; files that cannot be read | an id leads to what the summary showed under it |

There is no thread, no lock and no asynchronous code of the repository's own.
Overlap of MCP tool calls is a matter of the external `mcp` library; each tool
is a synchronous function with no suspension point, and is modelled as one
step.

## 2. The modules

| module | models | checked by | proved in |
|---|---|---|---|
| `EagerSegmentation` | the reference algorithm of `tests/test_parsing_segmentation.py:78-126` | through `Segmentation` | |
| `Segmentation` | `P/parsing/segmentation.py` | `MCSegmentation` | `Segmentation_proofs` |
| `Pipeline` | `parse_log`: normalizer cuts, registry, caps, rescue, catch-all | `MCPipeline` | `Pipeline_proofs` |
| `ParserLog` | what the parsers share: the lines, the list of diagnostics, the registry's order, `P/parsing/process_failure.py`, the primary frame | through `ToolParsers` | `ToolParsers_proofs` |
| `StackTrace` | `parse_python_traceback` of `P/parsing/stacktrace.py` | through `ToolParsers` | `ToolParsers_proofs` |
| `PytestParser` | `P/parsing/parsers/pytest_parser.py`, with `StackTrace` | through `ToolParsers` | `ToolParsers_proofs` |
| `JsTestParser` | `P/parsing/parsers/js_test_parser.py` | through `ToolParsers` | `ToolParsers_proofs` |
| `CompilerParser` | `P/parsing/parsers/compiler_parser.py` | through `ToolParsers` | `ToolParsers_proofs` |
| `ToolParsers` | the registry that runs the parsers over one log, and `generic_parser.py` | `MCToolParsers` | `ToolParsers_proofs` |
| `Sanitizer` | `P/parsing/sanitize.py`, with `_mask_response` of `P/mcp/server.py` | `MCSanitizer` | `Sanitizer_proofs` |
| `Clustering` | `build_clusters`, called by the pipeline | `MCClustering` | `Clustering_proofs` |
| `McpServer` | `P/mcp/server.py` and `P/mcp/adapter.py` | `MCMcpServer` | `McpServer_proofs` |
| `Ingestion` | `P/github/` under the `ingest` and `parse` commands of `P/cli.py` | `MCIngestion` | `Ingestion_proofs` |
| `OrderTheorems` | facts about orders and finite sets that the proofs share; no code | | itself |

A mutant of a definition (`Finish_innermost` beside `Finish`) stands before
it with the comment "Mutant:". It is used nowhere in the models: it records a
plausible bug that the named property is known to catch.

**Segmentation.** `log` is the sequence of the lines' markers; `built`, `stack`,
`nextId`, `pos` and `sectionOf` are `built`, `open_stack`, `next_id`,
`last_lineno` and the stamped `section_id`. `OpenGroup`, `CloseGroup` and
`PlainLine` are the three branches of the loop, `Finish` the assignment after
it. `EagerSegmentation` is the quadratic algorithm it replaced, which rewrites
the end of every open section on every line; it is the abstract specification.
The refinement mapping replaces the stale end of an open section by the last
line read (`EagerBuilt`).

**Clustering.** A diagnostic is its emission index. `FirstOccurrence` and
`LaterOccurrence` are the iterations of the dedup loop (`dedup_key`),
`JoinSummary`, `JoinMember` and `OpenCluster` those of `_correlate` with the
rules S1, C1, C2a, C2b and C3 tried rule by rule (`IsTarget`),
`ExitCodeAlone` and `ExitCodeFollows` the handling of process failures (rule
C4), `AttachDuplicates` the pass after it and `EmitCluster` the ranked output.
`AddMember`, `AddSummary`, `AddConsequence` and `WithDuplicates` are what the code
appends to the four lists of a builder. `MemberRank` and `ClusterRank` are the two
ranking tuples. Two assumptions say what the parsers emit: an exit code is an error
that names no test (`ExitCodesAreErrors`), and what names a test comes before what
does not, exit codes aside (`TestsComeFirst`).

**Pipeline.** One action per step of `_parse_log_inner` and of `_run_registry`:
`Normalize`; `ParserRuns`, `ParserDetectsNothing` and `ParserRaises` for each
specialized parser in registry order; `SpecializedSuffice`, `FallbackRuns` or
`FallbackRaises`; `CapDiagnostics`; `RescueTail` or `NoRescue`; `CapEvidence`;
`MakeReport`; and `Fatal`, the catch-all of `parse_log`, which may strike at any
point. `LineCut` and `CharCut` are `_bounded_splitlines` and the character cap;
a slice is described by its first and last character, so the head of
the log and the tail the rescue reads are the same operator `Normalized`.
A parser reports the lines of its kind in order (`Ascending`). `RegistryAssumption`
says that the registry lists each parser once, which it does.
`Status` and `Excerpt` are what the adapter makes of the report: the status
the agent reads first, and the lines shown, for which the text is normalized
once more.

**ToolParsers** composes the parsers by EXTENDS: `lines`, `turn` and
`diagnostics` are shared, and each parser adds variables of its own. `turn` is
the loop of `_run_registry`; a parser whose `detect` is false is skipped
(`PytestSkips`, `JsSkips`, `CompilerSkips`), one that runs appends what it finds and
then the exit code (`PytestReturns`, ...), and the fallback runs when nothing was found.
A line is what the parsers' expressions see in it: a `kind`, the test id it
names and one more word. A value that a parser copies from a line (a message, a
file) is the number of that line, so that a property can say whose words they
are. The field `whose`, and the words "raised", "rest" and "captured", are
the ground truth: `MCToolParsers` prints logs from what failed and records there
for which failure a line was printed. No parser reads them. What they mean for any log is
`PrintedAssumption` of `ParserLog`, about the tools and not about this code: the lines of
a failure follow its headline or bullet and end at the next one or at a banner
(`PytestPrints`, `JestPrints`), an exception is raised on an E line that begins a run, the
last progress line of a failed test that the same run of pytest prints (`Session`) says failed
or error, and the rows of a file follow its path (`EslintPrints`). Lines that look like rulers
or frames may stand among those of a
failure, and anything may stand elsewhere. TLC evaluates the assumption on all 22,405 logs.

*PytestParser*: `ScanBlockStart`, `ScanBanner`, `ScanLine` and `EndBlocks` are
the loop of `_find_blocks`; `ChunkFrom` is `_split_failure_chunks`;
`OpenChunk`, `ReadChunk` (the traceback's automaton, module `StackTrace`) and
`BuildDiagnostic` are `_build_diagnostic`, with `TestId`, `Outcome` and
`ShortMessage` for its lookups. The two dictionaries it fills are functions of the
lines: keys stand in the order of first occurrence, and hold the last value. `Sorted` is
the lines of a set in their order, which is how a loop over the log meets them.
*StackTrace*: `raised` is the line that the exception's type and message come from, `in_exception_run`
the flag of the code. *JsTestParser*: `j` is the index moved by hand,
`ReadSuite`, `ReadBullet`, `ReadJsLine` and `EndBlock` its two loops.
*CompilerParser*: `ExtractTsc` and then the eslint loop, with `header` for
`current_file`.

`Pipeline` and `ToolParsers` see the same registry from two sides: the first has parsers
that may raise or be cut and knows of each only where its failures begin; the second has
the parsers themselves, on logs that are whole.

**Sanitizer.** A line is a sequence of atoms, the longest pieces whose inside makes no
difference to a rule: a blank, a sign, a word, an opaque value, a name with its "=", a secret
of a class. A rule is the set of places where a match that begins at an atom ends
(`UrlCreds`, `HttpAuth`, `Bearer`, `EnvSecret`; the rules that know a secret by its shape
are one case of `Ends`), `Subn` is `Pattern.subn`, and `mask_counted` applies it for
each of `Rules` in order. A mask token is three atoms, since a rule can see its colon and must not see
into it otherwise. `MaskLine` is the masking of a line by `normalize`, `MaskResponse`
the second one of what a tool answers.

**McpServer.** `cache` is the key order of `_report_cache`, `file` what is on
disk; `issued` and `latest` are history variables: the ids handed out, and the last of them. One action per
outcome of a tool; `Rewrite` is the world changing a file.

**Ingestion.** `runs` is GitHub: runs start, fail, succeed and are restarted at
any time. `phase` walks the `ingest` command through its requests and file
operations; opening a file empties it, writing fills it, and `Stopped` may come
between any two. Disk survives, the command may be begun again. `ParseResult`
is the exit code of the `parse` command on what is on disk. `newest` and
`vouched` are history variables.

## 3. The runs

Passing runs (states are distinct states found by TLC):

| run | question | bounds | states |
|---|---|---|---|
| `segmentation` | do the spans, parents and stamps come out right, and as in the reference? | every log of at most 7 lines over the three kinds of marker | 27,884 |
| `pipeline` | what survives cuts, caps, raising parsers and the rescue? | every log of at most 4 lines of seven kinds, with and without a final line break, four settings of the limits | 1,702,238 |
| `parsers` | does every failure a tool printed become one diagnostic that tells its own story? | up to two failed calls and an error out of seven, three bodies, with and without progress lines and summary; every traceback of at most 4 lines; jest runs of at most 5 lines of six kinds; tsc and eslint output of at most 5 lines of six kinds; mixtures of the tools, and two runs of pytest of which one or both fail: 22,405 logs | 232,890 |
| `sanitizer` | what do thirteen rules in order make of a line, and of their own result? | every line of at most 4 atoms of 14 kinds, and pairs of phrases of up to 7: 39,857 lines | 119,571 |
| `clustering` | is every diagnostic reported once, beside what it belongs to, and the best failure first? | any choice of at most 3 test failures and 4 compiler errors out of 12, three fates of the exit code, the fallback's output, hand-made emissions | 145,200 |
| `mcp_server` | what can an agent rely on between two calls? | 2 paths, 4 logs, a cache of 2, 2 clusters shown, cluster labels 0 to 4 | 92,561 |
| `ingestion` | what is on disk after commands that fail, are stopped and are repeated? | 2 runs, one with two attempts, 4 jobs of which 3 fail, pages of 2 | 307,138 |

What they show:

- `segmentation`: `SpansMatchBrackets` (each GROUP has its section, closed by
  the matching ENDGROUP or the end of the log), `SpansNest`,
  `ParentIsInnermost`, `StampIsInnermost`, and the refinement
  `ImplementsReference`.
- `pipeline`: `ExitCodeSurvives`, in two parts. What the exit code is: the last one in
  the lines that were read; where these gave none and the log was cut at the line limit, the
  last one in the tail; otherwise none. When that is the log's own last code: always, but for
  a cut by characters, after which there is no rescue; a cut by lines behind a marker, for
  then the head's last one is reported and the tail is not read; a last marker out of the
  tail's reach (`TailHoldsLast`); the cap on diagnostics, without a cut by lines; and no
  parser that did not raise. Then `OneExitCode`, `LinesAreTheLogs` (a cited
  line, and a line of an excerpt, is the line of the original log),
  `NothingLostSilently`, `CleanMeansClean` (an agent that is told that no
  failures were found, by a report that counts no parser failure and no cut, has a log
  in which no parser knows a failure).
- `parsers`: `LostOnlyToRulers` (each failure of pytest's is one diagnostic
  on exactly its lines, with one named exception), `IdIsTheTests`,
  `StoryIsItsOwn` (its outcome is its own where its run of pytest is the only or the last one
  in the log that speaks of the test; otherwise it is that of the last one), `LastRaised`,
  `LocatedInProject`, `JsTestsKeepTheirLines`,
  `RowsUnderTheirFile`, `TestsComeFirst` (on which `Clustering` relies), and
  the liveness property `ParsingEnds`.
- `sanitizer`: `CountedByShape` (the contract on the order of the rules) and
  `SecondPassTouchesUrlsOnly`.
- `clustering`: `NonLossy`, `RepeatsBesideOriginal`, `ExitCodeNeverExplains`,
  `BestFirst`, `TestIsUnitOfFailure`.
- `mcp_server`: `EvictedOnlyByNewer`, `EvictsOldestForNew` (an action property).
- `ingestion`: `SuccessMeansSaved`, `AcceptedLogIsWhole`,
  `OnlyNewestFailuresSaved`, `SavedStaysSaved` (an action property) and the liveness
  property `CommandEnds`.

Why the bounds are enough. *Segmentation* has no data beyond the markers; a
stray ENDGROUP, three nested pairs, or seven open groups that never end, in any
order, fit in seven lines, and the theorems of section 5 hold for every length.
*Pipeline*: with lines of two characters and limits of 2 or 3 lines or 5
characters, four lines reach: exactly the line cap, above it, below it, two lines beyond it, a cut
inside a line, a tail that starts inside a line, both caps competing, one
parser's failures capped away, a block longer than the evidence cap. The cap
`max_total_lines` of 2 and 3 with a tail of five characters, two lines and a half, makes the
tail overlap the head and reach beyond it, lets it hold two different exit codes, of which
the last one counts, and lets it begin behind one of the head. *ToolParsers*: the parsers remember little
from line to line (a block start, a flag, a current file), so short logs reach every combination.
The ids are two tests of one name in two files, a second
test in one of the files, a method, and a file that could not be collected; a setup, a teardown
and a collection error put a block before FAILURES, and a test may fail in both. Two runs
of pytest over one test, of which one or both fail, with or without progress lines and
summary, are all that a log of several can differ in for one failure.
Four lines of traceback hold two exceptions with a continuation or with frames
between them; five of jest hold a suite, a failure, a second suite and its
failure with a line to spare; five of eslint hold two paths, a blank line and rows. *Sanitizer*:
the longest context a rule reads is five atoms; two phrases put any rule's match before,
after or inside another's. Two classes told by shape, one of which comes before the rules
about credentials and one after, stand for the nine. The model was compared
with the program on 19,753 of these lines: text, counts and second pass agree on all. *Clustering* uses failures that were
picked so that each pair of them meets one rule or one guard of a rule: same
test twice, two tests at one location, a compiler error under two spellings of
a path, an annotation that repeats it, a warning on its line, a linter on the
line of a test, stack frames in common. Three clusters are needed to tell a wrong
rank from a right one, and up to eight diagnostics arise. *McpServer* needs
`MaxCache + 1` logs for an eviction and one more for an eviction of an id that
was given out again. *Ingestion* needs a restart between two listings (two
attempts), two runs to choose between and two failed jobs to fail between.

Fairness. `Ingestion` has the liveness property `CommandEnds`, under
`FairSpec == Spec /\ WF_vars(Ingest)`: a command that runs keeps taking its own
steps, because each request has a timeout (`P/github/client.py:23,36`), after
which a silent server makes it raise, logs are finite, and file operations
return. GitHub and the user are not fair:
nothing forces a run to start or the command to be begun. The loop over the jobs is
what `CommandEnds` is about. `ToolParsers` has `ParsingEnds`, under
`FairSpec == Spec /\ WF_vars(Next)`: the parsers are one sequential function, and a
function that is called goes on until it returns. Fairness adds only that the
process is not abandoned halfway; what the property is about are the
hand-moved indices, which a wrong step would leave where they are. Other modules terminate by construction of the
code's loops; there the deadlock check does the work: every state that is not
the end has a step (`Returned` is the end of `Clustering` and of `Pipeline`).
`MCSegmentation` switches the deadlock check off: `build_sections` returns
and its specification, like the one it refines, has no step after that.

## 4. Disagreements with the repository's own statements

Each is a run of its own that checks a single property, a sentence of the
repository, and is expected to be violated.

| run | property | the statement | what the code does |
|---|---|---|---|
| `forged` | `RescueForgesNothing` | `P/parsing/pipeline.py:114-116`: "A mid-line slice cannot forge a marker either" | the slice may begin at a marker that was quoted in the middle of a line; it is then at the start of the payload |
| `pytest_ids` | `TwoTestsTwoIds` | `docs/plans/section-5-correlation.md:148-151`: "two diagnostics with different non-None test_ids never share a cluster. The test is the unit of failure" | an id is looked up by the bare name and the first that ends with it is taken (`P/parsing/parsers/pytest_parser.py:203-210`): of two tests of one name, both reports carry the first's id, words and outcome |
| `blank_e` | `HeaderIsReported` | `P/parsing/stacktrace.py:34-36,87-91`: the first line of a run of E lines is the exception, the others continue it | an E line with nothing behind it ends the run, and the next continuation line is taken for the exception |
| `mcp_undecodable` | `UndecodableIsAnError` | `tests/test_mcp_server.py:8-12`: the `decode_error` result | `UnicodeDecodeError` is not an `OSError` and escapes the tool |
| `paged` | `OneFixturePerFailedJob` | `tests/test_ingestion.py:81`: "saves one fixture per failed job" | one page of jobs is requested; failed jobs beyond it are dropped and the command exits 0 |

The two about parsers were reproduced by running the parser on such logs.

The properties name further limits of the code as their exceptions:

- a line of captured output that looks like pytest's closing rule ends the
  block; the rest of that failure's lines and the block's later failures are lost
  (`RulerBefore` in `LostOnlyToRulers`);
- the headline of a test in a class, `K.t`, is the end of no id, so it is
  reported under that headline (`Len(...) <= 2` in `IdIsTheTests`);
- a captured line of the form `file:line:` is taken for a frame (`LocatedInProject`);
- when a test fails in its call and again in its teardown, the progress lines' last word,
  error, is the outcome of both reports (`StoryIsItsOwn` allows either);
- of several runs of pytest in one log (a retry, the environments of tox) the last progress line
  counts for all: a failure whose test passes in a later run is reported with the outcome
  `passed` (`Session` in `StoryIsItsOwn`; the logs of `parsers` have the case);
- the banner of a slow jest suite, which ends with a duration, is not recognised;
  its failures are given the suite before it (`JsTestsKeepTheirLines`), and where it is the only
  banner and no command names jest, the parser does not run (`JsDetects`).

- masking is not idempotent, though `docs/plans/section-7-security.md:273` says so:
  a token that stands for a user's name in a URL has a colon in it, and is
  taken for credentials by the second pass (`SecondPassTouchesUrlsOnly`);
- a token can be matched again by a later rule, which `P/parsing/sanitize.py:15-19` excludes:
  `Authorization: token «REDACTED:github_token»` becomes an `http_auth` token, counted
  once more (`CountedByShape` names the three rules that do it).

Three more are visible in the models, and have no run of their own: a log that
`max_total_chars` cut gets no tail rescue (`NeedsRescue` in `Pipeline`), though
`docs/plans/section-6-scale.md:730` says that "the tail rescue still recovers the exit code"
(`ExitCodeSurvives` says that without a cut by lines there is none, and names the loss); a log of exactly
`max_total_lines` ended lines, of which nothing is cut, is recorded as truncated
(`LineCut` in `Pipeline`); and the 33rd report evicts the first, while
`docs/plans/section-8-mcp-adapter.md`, section 4.2, describes reports as cached for
the lifetime of the server process (`EvictsOldestForNew` in `McpServer`).

The run `paged` uses pages of one job instead of GitHub's default size, and is otherwise the
instance of `ingestion`.

## 5. The proofs

TLC checks small instances; the theorems below hold for every value of the
constants. Each module `X_proofs` has the same shape. An inductive invariant,
built from named parts; a lemma per action (or per action and part) that
the invariant is preserved; one theorem that it always holds; and one theorem per
property that it implies. Every inductive invariant was checked by TLC as an invariant
of the instance of the run before it was proved, except two for which that takes too long:
`ClusterInv` was checked with at most two compiler errors, and what the rules of
`Sanitizer` keep with lines of at most three atoms. What is
assumed are the `ASSUME`s of the modules, which TLC evaluates on every
run; nothing else is.

**Segmentation** (`LogsAssumption`: logs are finite sequences of the three
markers). Theorems: `TypeCorrect`, `SpansAreBrackets` (`SpansMatchBrackets`),
`SpansAlwaysNest`, `StampsAlwaysInnermost`, `ParentsAlwaysInnermost`, and
`RefinesReference` (`Spec => ImplementsReference`). The safety properties say
nothing until the log has been read to its end, so none of them is inductive.
`SegInv` says of every prefix what they say of the whole: it speaks of
`CurrentEnd`, the end a section would have if the log ended here, because the
`end` field of an open section is stale until `Finish`. Its parts:

- `StartsInOrder`: sections start on lines already read, in the order of their ids;
- `StackSorted`: the stack is increasing, so its top is the latest open section;
- `ClosedNest`: what was opened after a closed section began lies after it, or
  was closed inside it; this is where the stack discipline enters;
- `StampsRight`: a stamp names the latest section whose current span holds the
  line, and no section holds a line stamped None;
- `ParentsRight`: between a section and its parent every section ended before it began;
- `FinishedInv`: after `Finish` the fields and the current ends agree.

`BracketInv` adds the counts: since the first line of an open section, more groups
were opened than closed, at every line, and by as many as there are sections
from it to the top of the stack (`OpenAreUnmatched`); since that of a closed one, as many at
its end and not before (`ClosedAreMatched`). A line adds one to one of two counts
(`CountNext`), so this goes line by line and needs no induction over the log.
`RefinesReference` maps `Finish` to a stutter and each other action to its namesake.

**Pipeline** (`PipelineAssumption`: what limits and logs are; `RegistryAssumption`:
no parser is listed twice and no name means two things; `NoneAssumption`). Theorems:
`TypeCorrect`, `ExitCodeSurvivesAll`, `NamesOneExitCode`, `LinesAreTheLogsOwn`,
`LossesAreTold`, `CleanIsClean`, one for each property of the run. `PipelineInv`
follows the phases: past `normalize` and short of the catch-all (`Going`), the
lines are the head of the log with its two cut flags (`HeadOfLog`); each diagnostic
is a failure or the last exit marker of those lines, or was rescued (`Sourced`);
exit codes come from different parsers, and a rescued one is alone (`ExitsApart`);
what raised, or found something, has had its turn (`RegistryPosition`); whoever found
anything found the exit code with it, and after the rescue a code that is not the head's is the last
one of the tail (`ExitFound`); and what a parser that did not raise knows is all there, unless the cap
on diagnostics fell (`AllKept`). The report is these (`TheReport`). The lemmas below
it say what a slice of a text is normalized to: its lines are lines of the log, in
their places, for any positions and limits. That the last code of a tail is that of the log
(`TailEndsAsTheLog`) needs the converse too, that a tail which the limits spare loses none of
its lines (`BreaksAreCounted`); `WhoseExitCode` is the first half of `ExitCodeSurvives`, from which
the theorem follows by cases. `CleanIsClean` needs most of it: a log
with a failure is not summed up as clean, however parsers raise and whatever is cut.

**Clustering** (`EmissionsAssumption`, `ExitCodesAreErrors`, `TestsComeFirst`).
Theorems: `TypeCorrect`, `NothingLost` (`NonLossy`), `RepeatsAreBeside`,
`OneClusterPerTest` (`TestIsUnitOfFailure`), `ExitCodesExplainNothing`,
`BestComesFirst`, and `NoTies`. Paths, messages and their normalization, marker
lines and the emissions are arbitrary. `ClusterInv` follows the passes:
`FirstOfKey` (a representative is the first with its key, and there is one for each
diagnostic handled), `Work` (what a pass has still to handle), `Partition` (every
representative but those still to be handled is in one builder, under one role; the
duplicates follow when the last pass attaches them), `ExitCodesApart`, `TestsApart`
(a builder is about the test of its anchor and no other builder is), `InOrder` (members
come before what is still to be read: this is where `TestsComeFirst` is used),
`Echoes` (what a summary repeats is in its builder), `EmittedOnce` and
`EmittedInOrder`. The ranks are tuples of integers compared as Python compares tuples;
`OrderTheorems` shows that this is a strict total order and that finite sets have
a least element in one. `NoTies` is a property of its own: wherever the code asks for the
best or the first, exactly one qualifies, so a sort's stability is never relied on and
no choice of the model is one between different outcomes.

**McpServer** (`McpServerAssumption`). Theorems: `TypeCorrect`, `LostOnlyToNewer`
(`EvictedOnlyByNewer`), and the action property `OldestLeaves`
(`EvictsOldestForNew`). `CacheInv` is the type invariant, that no report is in the
cache twice (so that its length is its number of reports), and that what is cached was issued and
what was issued and is not cached left a full cache that holds the latest.

**Ingestion** (`IngestionAssumption`: finite sets of runs and jobs, each job of one run
and attempt; `NoneAssumption`). Theorems: `TypeCorrect`, `SuccessIsSaved`,
`SavedAreNewestFailures`, `AcceptedIsWhole`, and the action properties
`SavedIsStable` and `VouchedAreWhole`. `IngestInv` says in which phase each field
can be relied on: the run that was chosen is one of GitHub's and was not on a later
attempt when it was listed (`ChosenRun`), `todo` and `listed` of an earlier command
are gone before they are read (`LeftOver`), the jobs listed are those of the run
(`ListedAreTheRuns`), those no longer to do are on disk in full (`LoopSaved`), and a
sidecar with content vouches for its job (`SidecarVouches`). GitHub's steps, being
stopped, and failing requests preserve it at any point.

**ToolParsers** (`LogsAssumption`: a log is a sequence of lines, and what names a test has a
name; `PrintedAssumption`, section 2; `NoneAssumption`). Theorems, one for each safety property
of the run: `ToolParsersTypeOK`, `ToolParsersTestsComeFirst`, `ToolParsersLostOnlyToRulers`,
`ToolParsersIdIsTheTests`, `ToolParsersLastRaised`, `ToolParsersStoryIsItsOwn`,
`ToolParsersLocatedInProject`, `ToolParsersJsTestsKeepTheirLines` and
`ToolParsersRowsUnderTheirFile`. The first two do not use `PrintedAssumption`: they hold of
any lines at all. The module's first part is about `Sorted`, `Min` and `Max` of sets of lines
and about a log into which chunks are cut: one begins at each headline under an open title, and they
are disjoint. There is one invariant per parser, each on top of `Typed` (`TypeOK`, and that
the chunk at hand is the one its headline begins), because the properties speak of the
diagnostics and none of them of the pass that is under way:

- `PytestInv`: the blocks found are the lines under an open title, up to the line read
  (`BlocksInv`); the frames and the exception of the traceback are those of the chunk's
  lines read so far, where the exception is the last E line that follows no other
  (`TraceIs`); every headline passed has exactly one diagnostic, and it says what its chunk
  and the two tables say of it (`ReportsInv`). The five claims about pytest follow from the
  last part, `PrintedAssumption` and the lines of a chunk. `StoryIsItsOwn` compares the last
  progress line of the log, which the code takes, with the last one of the failure's own session,
  of which alone the assumption says anything.
- `JsInv`: the suite is the last banner that was recognised (`SuiteIs`), the lines between the
  current bullet and the index end no block (`JsBlockInv`), and every bullet before it has one
  diagnostic (`JsReportsInv`). The index that the inner loop leaves is read again by the
  outer one, so the invariant is about the index, not about the block.
- `RowsInv`: the current file is the last path-like line not cut off by a blank one
  (`HeaderInv`), and every row read under a file has one diagnostic with that file
  (`RowsReportsInv`).
- `FirstInv`: before the compilers' turn there are no compiler errors (`RunnersOnly`). This is
  what makes `TestsComeFirst` inductive, and thereby the assumption of that name
  in `Clustering` a theorem about the parsers.

`ToolParsersParsingGoesOn` is the half of `ParsingEnds` that is a safety property:
`Remaining` is a triple of natural numbers (the passes still to come, the lines still to
take, what is still to do with those taken), and every step that is not a stutter makes
it smaller until the fallback has spoken (`ParsingGoesOn`). `AmountsAreWellFounded`
shows that such triples do not get smaller for ever. It needs only that no chunk ends
behind the log (`OnInv`), and nothing of `PrintedAssumption`.

**Sanitizer** (`SanitizerAssumption`: a line is a sequence of atoms that does not hold a
token yet, and secrets that stand in it by themselves have a shape). Theorems: `SubnIsLaid`, `FirstPass`,
`SecondPass`, and for the program `SanitizerTypeOK`, `SanitizerCountedByShape` and
`SanitizerSecondPassTouchesUrlsOnly`, one for each property of the run. `Subn` and
`mask_counted` are recursive functions over data, and the library's principle of induction
cannot be used for them. What replaces it are least-number arguments
(`LeastNatural` of `OrderTheorems`): that a function with the equations of `Subn` exists on a line,
and that there is no other, is shown by looking at the last place for which it is not so
(`ScanExists`, `SubnIs`, and `ChainExists`, `MaskCountedIs` for the chain of rules).

- `SubnIsLaid` says of one rule and any line what the result is, without recursion: the stops
  `K` at which it copies an atom or replaces a match, the places `g` where these lie
  in the result, and the count. Everything after it is about that layout: `OriginIs` finds
  where an atom of the result comes from, `FollowsIs` what stands next to it.
- A pass keeps every token whole (`PassIsWhole`), brings no secret (`PassSecrets`), is the
  identity where nothing fires (`PassIsIdle`), and opens no place where `http_auth`,
  `bearer_token` or `env_secret` could fire (`PassHttp`, `PassBearer`, `PassEnv`). This is what makes
  the order of the rules and the look-around in their expressions matter: the token
  that one rule leaves is read by those after it.
- The invariant over the thirteen rules is in four parts. `Cleared`: what a rule that has run
  told by its shape is gone, and those that look around can fire nowhere; `Bounded`: there are never
  more places for a rule than in the line that was read; `Counted`: so no rule fires
  more often than that, and `github_token`, the first, exactly as often as it stands
  there; `Traced`: a token that is gone was taken whole by a later rule. `FirstPass` is
  these after the last rule, and gives `Still`, where `SecondPass` begins.

Nothing like it holds of `url_creds`: a token has a colon, so between "://" and "@" it has
itself the form of credentials, whichever rule put it there. `SecondPass` is as much as is
true.

Only model-checked:

- `CommandEnds` and `ParsingEnds`: liveness is out of the prover's reach (of the second,
  the safety half is proved, see above);
- the five disagreements of section 4, which are counterexamples.

## 6. Abstractions, and what is not modelled

- A log line in `Segmentation` is its marker; titles and kinds are copied by
  the code and left out. In `Pipeline` it is what a parser would see in it, two
  characters long; `max_line_length`, the byte order mark, timestamps and
  masking do not appear. A half line means nothing, except the second half of a
  line that quotes an exit marker.
- What a parser finds is a block of `BlockLines` lines from a line it knows; the
  order in which it emits the failures and the exit code is the code's. Any parser may
  raise at any time and anything else may raise too: that is more than the
  code is known to do, and every property of `Pipeline` holds all the same.
- `Pipeline` ends where `build_clusters` begins; the emissions `Clustering`
  is given are those the pipeline can produce (specialized parsers
  in registry order, exit code last; the fallback's with the exit code first; a
  rescued one without evidence), plus hand-made ones as in
  `tests/test_parsing_clustering.py`. The latter are needed for rule C3, which
  no parser of today can trigger: only test failures have frames, and they have
  test ids. `norm_path` and `normalize_message` are constants with the values they
  have on the strings used.
- `TestIsUnitOfFailure` rests on the order of emission: the guard G1 looks at a
  cluster's anchor alone, so an anchor without a test would take in two tests.
  The emissions of `MCClustering` have tests first, and
  `TestsComeFirst` of `ToolParsers` is why the case does not arise. It takes ids
  of different tests to be different, which the run `pytest_ids` shows they need not be.
- In `ToolParsers` the regular expressions are the kinds of lines. Kinds are
  disjoint, as the expressions are on what the tools print, except that a banner is
  a ruler of `=` whatever stands in it, and that any unindented line may be
  eslint's path. Lines of a traceback are read after the chunk has been found, as
  the code does. Counts, error codes, rules and expected and actual values, which are
  copied into `metadata`, are left out, and so is the choice between the
  names jest and vitest. A headline's underscores in captured output are left out:
  they begin a chunk, as a headline does.
- `dedup_key` joins its fields to one string, in which a missing field and an empty one look
  alike; `DedupKey` is a tuple, and two diagnostics that differ in nothing else are left out.
- The evidence cap runs before clustering, which reads evidence in rule S1. It
  does no harm with the parsers of today: S1 looks for the marker lines of a run, and
  a block of several lines never begins with them.
- In `Sanitizer` a piece with letters or digits at its ends never touches another
  (`IsLexed`), so the word boundaries of the expressions hold; a word has fewer than
  eight letters, and "-" as the sign before a name is left out (";" stands for the others).
  The title of a section is masked apart from its line; the two counts are merged by
  maximum (`P/parsing/normalizer.py:56-69`), which is left out.
- Lists that the code reads through `min`, `any` and `len` alone are sets.
- A report in `McpServer` is the text it was parsed from, because the id is the
  hash of the text; of two different texts the ids are taken to differ.
- In `Ingestion` the listing order and which elements make up a page are
  arbitrary, and the log of a finished job does not change. The window between
  opening a file and writing it is visible; a write is otherwise atomic.

Not modelled, and why:

- `P/parsing/providers/`: the recognition of markers is a regular expression;
  what it makes of a cut line is in `Pipeline`.
- `P/parsing/confidence.py`, `P/exceptions.py`, `P/config.py`, the serialisation
  in `P/parsing/model.py`, and the `verify` and `analyze` commands: constants, declarations and conversions without
  state. The values that matter (ranks, exit codes) are in the models.
- `P/mcp/paths.py`: a predicate over the file system; `AllowedPaths` is its
  result.

## 7. Plan

Done, in this order: `EagerSegmentation` and `Segmentation` (whose stamps the
clusters depend on), `Clustering`, `Pipeline`, `McpServer`, `Ingestion`, the proofs about
`Segmentation`; then `ParserLog`, `StackTrace`, `PytestParser`, `JsTestParser`,
`CompilerParser` and their composition `ToolParsers`, the adapter's status and
excerpts in `Pipeline`, and `Sanitizer`; then the proofs about `Ingestion`,
`McpServer`, `Clustering` and `Pipeline`, the brackets of `Segmentation`,
`ToolParsers` and `Sanitizer`, and that the parsers come to an end.

Next, models: an abstract cache that never forgets, with `McpServer` as an
implementation of it up to eviction; and the step names that the adapter gathers from
sections.

## 8. Running it

    tlc -workers 2 -config MCSegmentation.cfg MCSegmentation.tla
    tlapm Segmentation_proofs.tla

and likewise for the other configurations, and for `OrderTheorems`,
`Pipeline_proofs`, `Clustering_proofs`, `McpServer_proofs`, `Ingestion_proofs`,
`ToolParsers_proofs` and `Sanitizer_proofs`; the last two take several minutes each.
The configuration of each run is listed in `PROJECT.json`, with the module it
belongs to, the mutants, the source lines of every definition, the theorems and the hazards
the properties are for.

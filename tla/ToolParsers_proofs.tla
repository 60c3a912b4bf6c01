-------------------------- MODULE ToolParsers_proofs --------------------------
(***************************************************************************)
(* What the tool parsers make of a log.  The type and the order of what    *)
(* they emit are proved for every sequence of lines; that each failure is  *)
(* told once, in its own words, for every log in which the tools print     *)
(* failures as PrintedAssumption says, however their outputs are mixed.    *)
(* The invariants say what has become of the lines read so far, parser by  *)
(* parser.                                                                 *)
(***************************************************************************)
EXTENDS ToolParsers, OrderTheorems, SequenceTheorems

-----------------------------------------------------------------------------
(* Lines and their numbers. *)

(* The least line of some. *)
LEMMA MinIs ==
  ASSUME NEW S \in SUBSET Nat, S # {}
  PROVE  Min(S) \in S /\ \A n \in S : Min(S) <= n
  <1>1. \E x \in S : \A y \in S : x <= y
    BY LeastNatural
  <1>2. QED BY <1>1 DEF Min

(* The greatest line of finitely many. *)
LEMMA MaxIs ==
  ASSUME NEW S \in SUBSET Nat, IsFiniteSet(S), S # {}
  PROVE  Max(S) \in S /\ \A n \in S : n <= Max(S)
  <1>1. PICK x \in S : \A y \in S : y <= x
    BY GreatestOfFinite
  <1>2. \A y \in S : x >= y
    BY <1>1
  <1>3. QED
    <2>1. Max(S) \in S /\ \A y \in S : Max(S) >= y
      BY <1>2 DEF Max
    <2>2. QED BY <2>1

(* The lines of a log are finitely many. *)
LEMMA LinesAreFinite ==
  ASSUME NEW s \in Seq(Line), NEW S \in SUBSET DOMAIN s
  PROVE  IsFiniteSet(S) /\ S \in SUBSET Nat
  <1>1. DOMAIN s = 1..Len(s) /\ Len(s) \in Nat
    BY LenProperties
  <1>2. IsFiniteSet(DOMAIN s)
    BY <1>1, FS_Interval
  <1>3. QED BY <1>1, <1>2, FS_Subset

(* Some lines in their order. *)
LEMMA SortedIs ==
  ASSUME NEW S \in SUBSET Nat, IsFiniteSet(S)
  PROVE  /\ Cardinality(S) \in Nat /\ Sorted(S) \in [1..Cardinality(S) -> S]
         /\ \A k, m \in DOMAIN Sorted(S) : k < m => Sorted(S)[k] < Sorted(S)[m]
         /\ \A n \in S : \E k \in DOMAIN Sorted(S) : Sorted(S)[k] = n
  <1>1. Cardinality(S) \in Nat
    BY FS_CardinalityType
  <1>2. \E s \in [1..Cardinality(S) -> S] : Lists(s, S)
    BY AscendingList
  <1>3. \E s \in [1..Cardinality(S) -> S] :
          /\ \A k, m \in DOMAIN s : k < m => s[k] < s[m]
          /\ \A n \in S : \E k \in DOMAIN s : s[k] = n
    BY <1>2 DEF Lists
  <1>4. QED BY <1>1, <1>3 DEF Sorted

-----------------------------------------------------------------------------
(* The registry and the diagnostics. *)

Parsers == {"pytest", "js_test", "compiler", "generic"}

(* The four parsers of the registry. *)
LEMMA RegistryIs == {Registry[k] : k \in DOMAIN Registry} = Parsers
  BY DEF Registry, Parsers

(* The order in which they have their turn. *)
LEMMA TurnsAre ==
  /\ TurnAfter("none") = "pytest" /\ TurnAfter("pytest") = "js_test"
  /\ TurnAfter("js_test") = "compiler" /\ TurnAfter("compiler") = "generic"
  /\ TurnAfter("generic") = "done"
  BY DEF TurnAfter

Types == {"TEST_FAILURE", "COMPILER_ERROR", "LINT_ERROR", "PROCESS_FAILURE", "UNKNOWN"}

(* What is said of a diagnostic of which only the line is known. *)
LEMMA FoundIs ==
  ASSUME NEW parser \in Parsers, NEW type \in Types, NEW start \in Nat
  PROVE  /\ Found(parser, type, start) \in Diagnostic
         /\ Found(parser, type, start).parser = parser
         /\ Found(parser, type, start).type = type
         /\ Found(parser, type, start).start = start
         /\ Found(parser, type, start).evidence = {start}
  BY RegistryIs DEF Found, Diagnostic, Types, Numbers

(* The exit code, of whichever parser. *)
LEMMA ExitIs ==
  ASSUME lines \in Seq(Line), NEW parser \in Parsers
  PROVE  /\ ProcessFailure(parser) \in Seq(Diagnostic)
         /\ \A k \in DOMAIN ProcessFailure(parser) :
              LET d == ProcessFailure(parser)[k]
              IN  /\ d.type = "PROCESS_FAILURE" /\ d.parser = parser
                  /\ d.start \in DOMAIN lines /\ d.evidence = {d.start}
                  /\ d.message = None /\ d.exception = None /\ d.located = None
                  /\ d.file = None /\ d.suite = None
  <1>1. CASE LinesOf({"exit"}) = {}
    BY <1>1 DEF ProcessFailure
  <1>2. CASE LinesOf({"exit"}) # {}
    <2> DEFINE n == Max(LinesOf({"exit"}))
    <2>1. n \in DOMAIN lines
      BY <1>2, LinesAreFinite, MaxIs DEF LinesOf
    <2>2. n \in Nat
      BY <2>1, LinesAreFinite
    <2>3. ProcessFailure(parser) = <<Found(parser, "PROCESS_FAILURE", n)>>
      BY <1>2 DEF ProcessFailure
    <2> HIDE DEF n
    <2>4. Found(parser, "PROCESS_FAILURE", n) \in Diagnostic
      BY <2>2, FoundIs DEF Types
    <2>5. QED BY <2>1, <2>3, <2>4 DEF Found
  <1>3. QED BY <1>1, <1>2

-----------------------------------------------------------------------------
(* The invariant of what pytest's parser reads. *)

(* Where an exception begins in a traceback that starts at line `first`: at *)
(* the first E line of a run.                                               *)
RunStarts(first, last) ==
  {n \in first..last : lines[n].kind = "E" /\ (n = first \/ lines[n - 1].kind # "E")}

(* Chunks are read once the blocks of a log of pytest's are found, and the  *)
(* one that is being read is that of a headline in a block.                 *)
ChunkIs ==
  /\ step = "chunks" => PytestDetects
  /\ chunk # None =>
       /\ turn = "pytest" /\ step = "chunks"
       /\ chunk.first \in Separators /\ chunk = ChunkFrom(chunk.first)

(* What has been read of its traceback. *)
TraceIs ==
  chunk # None =>
    /\ frames = {n \in chunk.first..at - 1 : lines[n].kind = "frame"}
    /\ in_exception_run <=> at > chunk.first /\ lines[at - 1].kind = "E"
    /\ raised = None => RunStarts(chunk.first, at - 1) = {}
    /\ raised # None =>
         /\ raised \in RunStarts(chunk.first, at - 1)
         /\ \A n \in RunStarts(chunk.first, at - 1) : n <= raised

Typed == lines \in Logs /\ TypeOK /\ ChunkIs

(* The log has numbered lines, each of a known kind. *)
LEMMA LogIs ==
  ASSUME Typed
  PROVE  /\ lines \in Seq(Line) /\ Len(lines) \in Nat /\ DOMAIN lines = 1..Len(lines)
         /\ \A n \in DOMAIN lines : lines[n] \in Line
         /\ \A n \in DOMAIN lines :
              /\ lines[n].kind \in {"progress", "separator", "short"} =>
                   lines[n].test \in Seq(STRING) \ {<< >>}
              /\ lines[n].kind = "progress" => lines[n].word \in Outcomes
  <1>1. lines \in Logs /\ lines \in Seq(Line)
    BY DEF Typed, TypeOK
  <1>2. Len(lines) \in Nat /\ DOMAIN lines = 1..Len(lines) /\ \A n \in DOMAIN lines : lines[n] \in Line
    BY <1>1, LenProperties, ElementOfSeq
  <1>3. \A n \in DOMAIN lines : lines[n].test \in Ids \cup {None}
    BY <1>2 DEF Line
  <1>4. QED
    BY <1>1, <1>2, <1>3, LogsAssumption

(* The chunk of a headline lies in the log, from the headline on. *)
LEMMA ChunkBounds ==
  ASSUME Typed, NEW n \in Separators
  PROVE  /\ n \in DOMAIN lines /\ lines[n].kind = "separator"
         /\ ChunkFrom(n) \in [first : Nat, last : Nat]
         /\ ChunkFrom(n).first = n /\ n <= ChunkFrom(n).last /\ ChunkFrom(n).last <= Len(lines)
         /\ \E k \in BlockAt(n) :
              /\ k \in DOMAIN blocks /\ blocks[k].first <= n
              /\ ChunkFrom(n).last <= blocks[k].last
              /\ ChunkFrom(n).last = blocks[k].last
                   \/ (/\ ChunkFrom(n).last + 1 \in Separators
                       /\ BlockAt(ChunkFrom(n).last + 1) = BlockAt(n))
         /\ \A m \in Separators :
              m > n /\ m <= ChunkFrom(n).last => BlockAt(m) # BlockAt(n)
  <1> DEFINE later == {m \in Separators : m > n /\ BlockAt(m) = BlockAt(n)}
             k == CHOOSE k \in BlockAt(n) : TRUE
  <1>1. n \in DOMAIN lines /\ lines[n].kind = "separator" /\ BlockAt(n) # {}
    BY DEF Separators, LinesOf
  <1>2. k \in BlockAt(n)
    BY <1>1
  <1>3. /\ k \in DOMAIN blocks /\ n \in blocks[k].first..blocks[k].last
        /\ blocks[k].first \in Nat /\ blocks[k].last \in 0..Len(lines)
    <2>1. k \in DOMAIN blocks /\ n \in blocks[k].first..blocks[k].last
      BY <1>2 DEF BlockAt
    <2>2. blocks \in Seq([first : Nat, last : 0..Len(lines)])
      BY DEF Typed, TypeOK, PytestTypeOK
    <2>3. \A x \in DOMAIN blocks : blocks[x] \in [first : Nat, last : 0..Len(lines)]
      BY <2>2, ElementOfSeq, LenProperties
    <2>4. QED BY <2>1, <2>3
  <1>4. n \in Nat /\ Len(lines) \in Nat /\ DOMAIN lines = 1..Len(lines)
    BY <1>1, LogIs
  <1>5. later \in SUBSET Nat
    BY LogIs DEF Separators, LinesOf
  <1>6. ChunkFrom(n) = [first |-> n, last |-> IF later # {} THEN Min(later) - 1 ELSE blocks[k].last]
    BY DEF ChunkFrom
  <1> HIDE DEF k
  <1>7. CASE later # {}
    <2>1. Min(later) \in later /\ \A m \in later : Min(later) <= m
      BY <1>5, <1>7, MinIs
    <2>2. ChunkFrom(n).first = n /\ ChunkFrom(n).last = Min(later) - 1
      BY <1>6, <1>7
    <2>3. Min(later) > n /\ Min(later) \in Separators /\ BlockAt(Min(later)) = BlockAt(n)
          /\ Min(later) \in Nat
      BY <1>5, <2>1
    <2>4. Min(later) \in blocks[k].first..blocks[k].last
      BY <1>2, <2>3 DEF BlockAt
    <2>5. \A m \in Separators : m > n /\ BlockAt(m) = BlockAt(n) => Min(later) <= m
      BY <2>1
    <2>6. \A m \in Separators : m \in Nat
      BY LogIs DEF Separators, LinesOf
    <2> DEFINE c == Min(later)
    <2> HIDE DEF c, later
    <2>7. ChunkFrom(n).last \in Nat /\ n <= ChunkFrom(n).last /\ ChunkFrom(n).last <= Len(lines)
          /\ ChunkFrom(n).last <= blocks[k].last /\ ChunkFrom(n).last + 1 = Min(later)
      BY <1>3, <1>4, <2>2, <2>3, <2>4
    <2>8. \A m \in Separators : m > n /\ m <= ChunkFrom(n).last => BlockAt(m) # BlockAt(n)
      BY <2>2, <2>3, <2>5, <2>6
    <2>9. ChunkFrom(n) \in [first : Nat, last : Nat]
      BY <1>4, <1>6, <1>7, <2>2, <2>7
    <2>10. QED BY <1>1, <1>2, <1>3, <2>2, <2>3, <2>7, <2>8, <2>9
  <1>8. CASE later = {}
    <2>1. ChunkFrom(n).first = n /\ ChunkFrom(n).last = blocks[k].last
      BY <1>6, <1>8
    <2>2. \A m \in Separators : m > n => BlockAt(m) # BlockAt(n)
      BY <1>8
    <2> HIDE DEF later
    <2>3. ChunkFrom(n) \in [first : Nat, last : Nat]
      BY <1>3, <1>4, <1>6, <1>8
    <2>4. QED BY <1>1, <1>2, <1>3, <1>4, <2>1, <2>2, <2>3
  <1>9. QED BY <1>7, <1>8

-----------------------------------------------------------------------------
(* What a diagnostic is built from. *)

(* The frame by which a failure is located: the last one of the project, or *)
(* else the last one.                                                       *)
LEMMA PrimaryFrameIs ==
  ASSUME lines \in Seq(Line), NEW S \in SUBSET DOMAIN lines
  PROVE  /\ S = {} => PrimaryFrame(S) = None
         /\ S # {} => PrimaryFrame(S) \in S
         /\ PrimaryFrame(S) \in Nat \cup {None}
         /\ \A n \in S : InProject(n) =>
              /\ InProject(PrimaryFrame(S)) /\ n <= PrimaryFrame(S)
  <1> DEFINE P == {n \in S : InProject(n)}
  <1>1. IsFiniteSet(S) /\ S \in SUBSET Nat /\ IsFiniteSet(P) /\ P \in SUBSET Nat
    BY LinesAreFinite
  <1>2. CASE P # {}
    <2>1. Max(P) \in P /\ \A n \in P : n <= Max(P)
      BY <1>1, <1>2, MaxIs
    <2>2. PrimaryFrame(S) = Max(P)
      BY <1>2 DEF PrimaryFrame
    <2> DEFINE x == PrimaryFrame(S)
    <2>3. x \in P /\ \A n \in P : n <= x
      BY <2>1, <2>2
    <2> HIDE DEF x
    <2>4. x \in S /\ InProject(x) /\ \A n \in S : InProject(n) => n <= x
      BY <2>3
    <2>5. QED BY <1>1, <2>4 DEF x
  <1>3. CASE P = {} /\ S # {}
    <2>1. Max(S) \in S
      BY <1>1, <1>3, MaxIs
    <2>2. PrimaryFrame(S) = Max(S) /\ \A n \in S : ~InProject(n)
      BY <1>3 DEF PrimaryFrame
    <2>3. QED BY <1>1, <1>3, <2>1, <2>2
  <1>4. CASE S = {}
    BY <1>4 DEF PrimaryFrame
  <1>5. QED BY <1>2, <1>3, <1>4

(* An id is a line's of a table, or the name in the headline. *)
LEMMA TestIdIs ==
  ASSUME Typed, NEW n \in DOMAIN lines, lines[n].kind = "separator"
  PROVE  /\ TestId(n) \in Seq(STRING)
         /\ \/ TestId(n) = Name(n)
            \/ \E m \in ShortSummary \cup Progress :
                 Matches(lines[m].test, BareName(n)) /\ TestId(n) = lines[m].test
         /\ (\E m \in ShortSummary \cup Progress : Matches(lines[m].test, BareName(n))) =>
              \E m \in ShortSummary \cup Progress :
                Matches(lines[m].test, BareName(n)) /\ TestId(n) = lines[m].test
  <1> DEFINE short == Matching(ShortSummary, BareName(n))
             run   == Matching(Progress, BareName(n))
  <1>1. \A m \in ShortSummary \cup Progress : m \in DOMAIN lines /\ lines[m].test \in Seq(STRING)
    BY LogIs DEF ShortSummary, Progress, LinesOf
  <1>2. short \in SUBSET Nat /\ run \in SUBSET Nat
    BY <1>1, LogIs DEF Matching
  <1>3. \A m \in short \cup run : m \in ShortSummary \cup Progress /\ Matches(lines[m].test, BareName(n))
    BY DEF Matching
  <1>4. \A m \in ShortSummary \cup Progress :
          Matches(lines[m].test, BareName(n)) => m \in short \cup run
    BY DEF Matching
  <1>5. lines[n].test \in Seq(STRING) \ {<< >>} /\ lines[n].word \in STRING
    BY LogIs DEF Line
  <1>6. Headline(n) \in Seq(STRING)
    <2>1. Tail(lines[n].test) \in Seq(STRING)
      BY <1>5, HeadTailProperties
    <2>2. QED BY <1>5, <2>1 DEF Headline
  <1>7. Name(n) \in Seq(STRING)
    <2>1. <<lines[n].word>> \in Seq(STRING)
      BY <1>5
    <2>2. <<lines[n].word>> \o Headline(n) \in Seq(STRING)
      BY <1>6, <2>1, ConcatProperties
    <2>3. QED BY <1>6, <2>2 DEF Name
  <1>8. TestId(n) = IF short # {} THEN lines[Min(short)].test
                    ELSE IF run # {} THEN lines[Min(run)].test ELSE Name(n)
    BY DEF TestId
  <1> HIDE DEF short, run
  <1>9. CASE short # {}
    <2>1. Min(short) \in short /\ TestId(n) = lines[Min(short)].test
      BY <1>2, <1>8, <1>9, MinIs
    <2>2. QED BY <1>1, <1>3, <2>1
  <1>10. CASE short = {} /\ run # {}
    <2>1. Min(run) \in run /\ TestId(n) = lines[Min(run)].test
      BY <1>2, <1>8, <1>10, MinIs
    <2>2. QED BY <1>1, <1>3, <2>1
  <1>11. CASE short = {} /\ run = {}
    BY <1>4, <1>7, <1>8, <1>11
  <1>12. QED BY <1>9, <1>10, <1>11

(* The last progress line of a test. *)
LEMMA ProgressLineIs ==
  ASSUME Typed, NEW test_id
  PROVE  ProgressLine(test_id) # None =>
           /\ ProgressLine(test_id) \in DOMAIN lines /\ ProgressLine(test_id) \in Nat
           /\ lines[ProgressLine(test_id)].kind = "progress"
           /\ lines[ProgressLine(test_id)].test = test_id
           /\ lines[ProgressLine(test_id)].word \in Outcomes
           /\ \A m \in Entries(Progress, test_id) : m <= ProgressLine(test_id)
  <1> DEFINE S == Entries(Progress, test_id)
  <1>1. S \in SUBSET DOMAIN lines
    BY DEF Entries, Progress, LinesOf
  <1>2. \A m \in S : lines[m].kind = "progress" /\ lines[m].test = test_id
    BY DEF Entries, Progress, LinesOf
  <1>3. CASE S = {}
    BY <1>3 DEF ProgressLine
  <1>4. CASE S # {}
    <2>1. IsFiniteSet(S) /\ S \in SUBSET Nat
      BY <1>1, LogIs, LinesAreFinite
    <2>2. Max(S) \in S /\ \A m \in S : m <= Max(S)
      BY <1>4, <2>1, MaxIs
    <2>3. ProgressLine(test_id) = Max(S)
      BY <1>4 DEF ProgressLine
    <2>4. ProgressLine(test_id) \in S /\ \A m \in S : m <= ProgressLine(test_id)
      BY <2>2, <2>3
    <2>5. QED BY <1>1, <1>2, <2>1, <2>4, LogIs
  <1>5. QED BY <1>3, <1>4

(* The summary's words for a test. *)
LEMMA ShortMessageIs ==
  ASSUME Typed, NEW test_id
  PROVE  ShortMessage(test_id) # None =>
           /\ ShortMessage(test_id) \in Nat
           /\ ShortMessage(test_id) \in ShortSummary
           /\ lines[ShortMessage(test_id)].test = test_id
  <1> DEFINE S == Entries(ShortSummary, test_id)
  <1>1. S \in SUBSET DOMAIN lines
    BY DEF Entries, ShortSummary, LinesOf
  <1>2. CASE S = {}
    BY <1>2 DEF ShortMessage
  <1>3. CASE S # {}
    <2>1. IsFiniteSet(S) /\ S \in SUBSET Nat
      BY <1>1, LogIs, LinesAreFinite
    <2>2. Max(S) \in S
      BY <1>3, <2>1, MaxIs
    <2>3. ShortMessage(test_id) # None => ShortMessage(test_id) = Max(S)
      BY DEF ShortMessage
    <2>4. QED BY <2>1, <2>2, <2>3 DEF Entries
  <1>4. QED BY <1>2, <1>3

(* The outcome of a failure. *)
LEMMA OutcomeIs ==
  ASSUME Typed, NEW n \in DOMAIN lines
  PROVE  Outcome(n) \in Outcomes
  BY ProgressLineIs DEF Outcome, Outcomes

(* The diagnostic of a test that failed under pytest. *)
LEMMA BuiltIs ==
  ASSUME Typed, chunk # None
  PROVE  LET d == Built(chunk.first)
         IN  /\ d \in Diagnostic
             /\ d.parser = "pytest" /\ d.type = "TEST_FAILURE" /\ d.start = chunk.first
             /\ d.test_id = TestId(chunk.first) /\ d.outcome = Outcome(chunk.first)
             /\ d.message = IF ShortMessage(TestId(chunk.first)) # None
                            THEN ShortMessage(TestId(chunk.first)) ELSE raised
             /\ d.exception = raised /\ d.located = PrimaryFrame(frames)
             /\ d.evidence = (chunk.first .. chunk.last)
                               \cup ({ProgressLine(TestId(chunk.first))} \ {None})
  <1> DEFINE n == chunk.first
             test_id == TestId(n)
             out == Outcome(n)
             short == ShortMessage(test_id)
             message == IF short # None THEN short ELSE raised
             located == PrimaryFrame(frames)
             evidence == (chunk.first .. chunk.last) \cup ({ProgressLine(test_id)} \ {None})
  <1>1. chunk \in [first : Nat, last : Nat] /\ n \in Separators /\ n \in Nat
    BY DEF Typed, TypeOK, PytestTypeOK, TraceTypeOK, ChunkIs
  <1>2. n \in DOMAIN lines /\ lines[n].kind = "separator"
    BY <1>1 DEF Separators, LinesOf
  <1>3. test_id \in Seq(STRING) \cup {None}
    BY <1>2, TestIdIs
  <1>4. out \in Outcomes \cup {None}
    BY <1>2, OutcomeIs
  <1>5. raised \in Nat \cup {None} /\ frames \in SUBSET DOMAIN lines
    <2>1. raised \in DOMAIN lines \cup {None} /\ frames \in SUBSET DOMAIN lines
      BY DEF Typed, TypeOK, PytestTypeOK, TraceTypeOK
    <2>2. QED BY <2>1, LogIs
  <1>6. message \in Numbers
    BY <1>5, ShortMessageIs DEF Numbers
  <1>7. located \in Numbers
    BY <1>5, LogIs, PrimaryFrameIs DEF Numbers
  <1>8. evidence \in SUBSET Nat
    BY <1>1, ProgressLineIs
  <1> DEFINE f == Found("pytest", "TEST_FAILURE", n)
  <1>9. f \in Diagnostic /\ f.parser = "pytest" /\ f.type = "TEST_FAILURE" /\ f.start = n
    BY <1>1, FoundIs DEF Parsers, Types
  <1>10. Built(n) =
          [f EXCEPT
             !.test_id = test_id, !.outcome = out, !.message = message,
             !.exception = raised, !.located = located, !.file = located,
             !.evidence = evidence]
    BY DEF Built
  <1> HIDE DEF test_id, out, short, message, located, evidence, f
  <1>11. /\ Built(n) \in Diagnostic
         /\ Built(n).parser = f.parser /\ Built(n).type = f.type /\ Built(n).start = f.start
         /\ Built(n).test_id = test_id /\ Built(n).outcome = out
         /\ Built(n).message = message /\ Built(n).exception = raised
         /\ Built(n).located = located /\ Built(n).evidence = evidence
    BY ZenonT(40), <1>3, <1>4, <1>5, <1>6, <1>7, <1>8, <1>9, <1>10 DEF Diagnostic, Numbers
  <1>12. QED BY <1>9, <1>11 DEF test_id, out, short, message, located, evidence

(* The diagnostic of a test that failed under jest or vitest. *)
LEMMA JsBuiltIs ==
  ASSUME Typed, bullet # None
  PROVE  LET d == JsBuilt(bullet..j)
         IN  /\ d \in Diagnostic
             /\ d.parser = "js_test" /\ d.type = "TEST_FAILURE" /\ d.start = bullet
             /\ d.suite = current_file /\ d.evidence = bullet..j
  <1> DEFINE block == bullet..j
             message == JsMessage(block)
             located == PrimaryFrame(JsFrames(block))
             file == IF JsFrames(block) # {} THEN located ELSE current_file
  <1>1. bullet \in Nat /\ j \in Nat /\ bullet \in 1..j /\ j <= Len(lines)
    BY LogIs DEF Typed, TypeOK, JsTypeOK
  <1>2. current_file \in Nat \cup {None}
    BY LogIs DEF Typed, TypeOK, JsTypeOK
  <1>3. JsFrames(block) \in SUBSET DOMAIN lines /\ block \in SUBSET Nat
    BY <1>1 DEF JsFrames, LinesOf
  <1>4. located \in Nat \cup {None}
    BY <1>3, LogIs, PrimaryFrameIs
  <1>5. file \in Nat \cup {None}
    BY <1>2, <1>4
  <1>6. message \in Nat \cup {None}
    <2> DEFINE worded == {n \in block \ {bullet} :
                   lines[n].kind # "blank" /\ lines[n].word \notin {"Expected:", "Received:"}}
    <2>1. worded \in SUBSET Nat
      BY <1>3
    <2>2. message = IF worded = {} THEN None ELSE Min(worded)
      BY DEF JsMessage
    <2> HIDE DEF worded
    <2>3. worded # {} => Min(worded) \in Nat
      BY <2>1, MinIs
    <2>4. QED BY <2>2, <2>3
  <1> DEFINE f == Found("js_test", "TEST_FAILURE", bullet)
  <1>7. f \in Diagnostic /\ f.parser = "js_test" /\ f.type = "TEST_FAILURE" /\ f.start = bullet
    BY <1>1, FoundIs DEF Parsers, Types
  <1> DEFINE d == JsBuilt(block)
  <1>8. d = [f EXCEPT !.suite = current_file, !.outcome = "failed", !.message = message,
                      !.located = located, !.file = file, !.evidence = block]
    BY DEF JsBuilt
  <1>9. "failed" \in Outcomes \cup {None} /\ block \in SUBSET Nat
    BY <1>3 DEF Outcomes
  <1> HIDE DEF message, located, file, block, f, d
  <1>10. d \in Diagnostic
    BY <1>2, <1>4, <1>5, <1>6, <1>7, <1>8, <1>9 DEF Diagnostic, Numbers
  <1>11. /\ d.parser = f.parser /\ d.type = f.type /\ d.start = f.start
         /\ d.suite = current_file /\ d.evidence = block
    BY <1>7, <1>8 DEF Diagnostic
  <1>12. QED BY <1>7, <1>10, <1>11 DEF d, block

(* What tsc's errors and the errors known to the fallback alone become: a    *)
(* diagnostic that says where its line is.                                  *)
OnItsLine(parser, type, n) == [Found(parser, type, n) EXCEPT !.message = n, !.file = n]

(* Such a diagnostic. *)
LEMMA OnItsLineIs ==
  ASSUME NEW parser \in Parsers, NEW type \in Types, NEW n \in Nat
  PROVE  /\ OnItsLine(parser, type, n) \in Diagnostic
         /\ OnItsLine(parser, type, n).parser = parser
         /\ OnItsLine(parser, type, n).type = type
         /\ OnItsLine(parser, type, n).start = n
  <1> DEFINE f == Found(parser, type, n)
  <1>1. f \in Diagnostic /\ f.parser = parser /\ f.type = type /\ f.start = n
    BY FoundIs
  <1>2. OnItsLine(parser, type, n) = [f EXCEPT !.message = n, !.file = n]
    BY DEF OnItsLine
  <1> HIDE DEF f
  <1>3. QED BY <1>1, <1>2 DEF Diagnostic, Numbers

EachLine(parser, type, S) ==
  [k \in DOMAIN Sorted(S) |->
     OnItsLine(parser, type, Sorted(S)[k])]

(* There is one of each of the lines, in the order of the lines. *)
LEMMA EachLineIs ==
  ASSUME Typed, NEW S \in SUBSET DOMAIN lines, NEW parser \in Parsers, NEW type \in Types
  PROVE  /\ EachLine(parser, type, S) \in Seq(Diagnostic)
         /\ \A k \in DOMAIN EachLine(parser, type, S) :
              LET d == EachLine(parser, type, S)[k]
              IN  d.parser = parser /\ d.type = type /\ d.start \in S
         /\ \A k, m \in DOMAIN EachLine(parser, type, S) :
              k < m => EachLine(parser, type, S)[k].start < EachLine(parser, type, S)[m].start
         /\ \A n \in S :
              \E k \in DOMAIN EachLine(parser, type, S) :
                EachLine(parser, type, S)[k].start = n
  <1> DEFINE lineOf == Sorted(S)
             c == Cardinality(S)
             s == EachLine(parser, type, S)
  <1>1. S \in SUBSET Nat /\ IsFiniteSet(S)
    BY LogIs, LinesAreFinite
  <1>2. /\ c \in Nat /\ lineOf \in [1..c -> S]
        /\ \A k, m \in DOMAIN lineOf : k < m => lineOf[k] < lineOf[m]
        /\ \A n \in S : \E k \in DOMAIN lineOf : lineOf[k] = n
    BY <1>1, SortedIs
  <1>3. s = [k \in DOMAIN lineOf |-> OnItsLine(parser, type, lineOf[k])]
    BY DEF EachLine
  <1> HIDE DEF lineOf, c, s
  <1>4. DOMAIN s = 1..c /\ DOMAIN lineOf = 1..c
    BY <1>2, <1>3
  <1>5. ASSUME NEW k \in 1..c
        PROVE  /\ s[k] \in Diagnostic /\ s[k].parser = parser /\ s[k].type = type
               /\ s[k].start = lineOf[k] /\ lineOf[k] \in S
    <2>1. s[k] = OnItsLine(parser, type, lineOf[k]) /\ lineOf[k] \in S
      BY <1>2, <1>3, <1>4, <1>5
    <2>2. lineOf[k] \in Nat
      BY <1>1, <2>1
    <2>3. QED BY <2>1, <2>2, OnItsLineIs
  <1>6. s \in [1..c -> Diagnostic]
    BY <1>3, <1>4, <1>5
  <1>7. s \in Seq(Diagnostic)
    BY <1>2, <1>6, SeqDef
  <1>8. \A k \in DOMAIN s :
          s[k].parser = parser /\ s[k].type = type /\ s[k].start \in S
    BY <1>4, <1>5
  <1>9. \A k, m \in DOMAIN s : k < m => s[k].start < s[m].start
    BY <1>2, <1>4, <1>5
  <1>10. \A n \in S : \E k \in DOMAIN s : s[k].start = n
    BY <1>2, <1>4, <1>5
  <1>11. QED BY <1>7, <1>8, <1>9, <1>10 DEF s

(* They are tsc's errors, and the fallback's failures. *)
LEMMA TheyAreEachLine ==
  /\ TscErrors = EachLine("compiler", "COMPILER_ERROR", LinesOf({"tsc"}))
  /\ GenericFailures = EachLine("generic", "UNKNOWN", LinesOf({"fileError"}))
  <1>1. TscErrors = EachLine("compiler", "COMPILER_ERROR", LinesOf({"tsc"}))
    BY Zenon DEF TscErrors, EachLine, OnItsLine
  <1>2. GenericFailures = EachLine("generic", "UNKNOWN", LinesOf({"fileError"}))
    BY Zenon DEF GenericFailures, EachLine, OnItsLine
  <1>3. QED BY <1>1, <1>2

(* One diagnostic of each of tsc's errors. *)
LEMMA TscErrorsAre ==
  ASSUME Typed
  PROVE  /\ TscErrors \in Seq(Diagnostic)
         /\ \A k \in DOMAIN TscErrors :
              TscErrors[k].parser = "compiler" /\ TscErrors[k].type = "COMPILER_ERROR"
  <1> DEFINE S == LinesOf({"tsc"})
             p == "compiler"
             t == "COMPILER_ERROR"
             e == EachLine(p, t, S)
  <1>1. p \in Parsers /\ t \in Types /\ S \in SUBSET DOMAIN lines
    BY DEF Parsers, Types, LinesOf
  <1>2. TscErrors = e
    BY TheyAreEachLine
  <1> HIDE DEF S, p, t
  <1>3. e \in Seq(Diagnostic) /\ \A k \in DOMAIN e : e[k].parser = p /\ e[k].type = t
    BY <1>1, EachLineIs
  <1> HIDE DEF e
  <1>4. QED BY <1>2, <1>3 DEF p, t

(* One diagnostic of each of the lines known to the fallback alone. *)
LEMMA GenericFailuresAre ==
  ASSUME Typed
  PROVE  /\ GenericFailures \in Seq(Diagnostic)
         /\ \A k \in DOMAIN GenericFailures :
              GenericFailures[k].parser = "generic" /\ GenericFailures[k].type = "UNKNOWN"
  <1> DEFINE S == LinesOf({"fileError"})
             p == "generic"
             t == "UNKNOWN"
             e == EachLine(p, t, S)
  <1>1. p \in Parsers /\ t \in Types /\ S \in SUBSET DOMAIN lines
    BY DEF Parsers, Types, LinesOf
  <1>2. GenericFailures = e
    BY TheyAreEachLine
  <1> HIDE DEF S, p, t
  <1>3. e \in Seq(Diagnostic) /\ \A k \in DOMAIN e : e[k].parser = p /\ e[k].type = t
    BY <1>1, EachLineIs
  <1> HIDE DEF e
  <1>4. QED BY <1>2, <1>3 DEF p, t


-----------------------------------------------------------------------------
(* Every step keeps to the types, and reads a chunk of the blocks found.    *)

(* The chunks are those of the blocks. *)
LEMMA SameChunks ==
  ASSUME lines' = lines
  PROVE  /\ PytestDetects' = PytestDetects
         /\ blocks' = blocks => Separators' = Separators /\ \A n : ChunkFrom(n)' = ChunkFrom(n)
  <1>1. PytestDetects' = PytestDetects
    BY DEF PytestDetects, LinesOf, Commands
  <1>2. ASSUME blocks' = blocks
        PROVE  Separators' = Separators /\ \A n : ChunkFrom(n)' = ChunkFrom(n)
    BY <1>2 DEF Separators, ChunkFrom, BlockAt, LinesOf
  <1>3. QED BY <1>1, <1>2

(* What is added to the diagnostics keeps their type. *)
LEMMA AddedIs ==
  ASSUME diagnostics \in Seq(Diagnostic), NEW s \in Seq(Diagnostic),
         diagnostics' = diagnostics \o s
  PROVE  diagnostics' \in Seq(Diagnostic)
  BY ConcatProperties

(* The parsers of which it is not the turn keep theirs. *)
LEMMA TypesKept ==
  ASSUME TypeOK, lines' = lines
  PROVE  /\ UNCHANGED pytestVars => PytestTypeOK'
         /\ UNCHANGED jsVars => JsTypeOK'
         /\ UNCHANGED compilerVars => CompilerTypeOK'
  <1>1. UNCHANGED pytestVars => PytestTypeOK'
    BY DEF TypeOK, PytestTypeOK, TraceTypeOK, pytestVars, blockVars, traceVars
  <1>2. UNCHANGED jsVars => JsTypeOK'
    BY DEF TypeOK, JsTypeOK, jsVars
  <1>3. UNCHANGED compilerVars => CompilerTypeOK'
    BY DEF TypeOK, CompilerTypeOK, compilerVars
  <1>4. QED BY <1>1, <1>2, <1>3

(* pytest's parser finds its blocks. *)
LEMMA TypedScan ==
  ASSUME Typed, PytestSkips \/ ScanBlockStart \/ ScanBanner \/ ScanLine \/ EndBlocks,
         UNCHANGED <<jsVars, compilerVars>>
  PROVE  Typed'
  <1>1. lines' = lines /\ diagnostics' = diagnostics /\ lines \in Logs /\ TypeOK /\ ChunkIs
    BY DEF Typed, PytestSkips, ScanBlockStart, ScanBanner, ScanLine, EndBlocks, Scans
  <1>2. JsTypeOK' /\ CompilerTypeOK'
    BY <1>1, TypesKept
  <1>3. Len(lines) \in Nat /\ i \in 0..Len(lines) /\ block_start \in 1..Len(lines) + 1 \cup {None}
        /\ short_summary_start \in 1..Len(lines) + 1 \cup {None}
        /\ blocks \in Seq([first : Nat, last : 0..Len(lines)])
    BY <1>1, LogIs DEF TypeOK, PytestTypeOK
  <1>4. \A n \in 1..Len(lines) + 1 : ClosedBy(n) \in Seq([first : Nat, last : 0..Len(lines)])
    <2> TAKE n \in 1..Len(lines) + 1
    <2>1. block_start # None =>
            [first |-> block_start, last |-> n - 1] \in [first : Nat, last : 0..Len(lines)]
      BY <1>3
    <2>2. block_start # None =>
            Append(blocks, [first |-> block_start, last |-> n - 1])
              \in Seq([first : Nat, last : 0..Len(lines)])
      BY <1>3, <2>1, AppendProperties
    <2>3. QED BY <1>3, <2>2 DEF ClosedBy
  <1>5. chunk = None
    BY <1>1 DEF ChunkIs, PytestSkips, ScanBlockStart, ScanBanner, ScanLine, EndBlocks, Scans
  <1>6. CASE PytestSkips
    <2>1. PytestTypeOK' /\ turn' = "js_test" /\ chunk' = None /\ step' = step
      BY <1>1, <1>5, <1>6, TypesKept, TurnsAre DEF PytestSkips, pytestVars, blockVars, traceVars
    <2>2. ChunkIs'
      BY <1>1, <2>1, SameChunks DEF ChunkIs
    <2>3. QED BY <1>1, <1>2, <2>1, <2>2, RegistryIs DEF Typed, TypeOK, Parsers
  <1>7. ASSUME turn' = turn, UNCHANGED traceVars, step' = "chunks" => PytestDetects,
               step' \in {"blocks", "chunks"}, i' \in 0..Len(lines),
               block_start' \in 1..Len(lines) + 1 \cup {None},
               short_summary_start' \in 1..Len(lines) + 1 \cup {None},
               blocks' \in Seq([first : Nat, last : 0..Len(lines)])
        PROVE  Typed'
    <2>1. PytestTypeOK'
      BY <1>1, <1>7 DEF TypeOK, PytestTypeOK, TraceTypeOK, traceVars
    <2>2. ChunkIs'
      BY <1>1, <1>5, <1>7, SameChunks DEF ChunkIs, traceVars
    <2>3. QED BY <1>1, <1>2, <1>7, <2>1, <2>2 DEF Typed, TypeOK
  <1>8. CASE ScanBlockStart
    <2>1. i + 1 \in 1..Len(lines) + 1 /\ i + 2 \in 1..Len(lines) + 1
      BY <1>3, <1>8 DEF ScanBlockStart, Scans
    <2>2. blocks' = ClosedBy(i + 1) /\ block_start' = i + 2 /\ i' = i + 1 /\ step' = "blocks"
          /\ turn' = turn /\ UNCHANGED traceVars /\ short_summary_start' = short_summary_start
      BY <1>8 DEF ScanBlockStart, Scans
    <2>3. i' \in 0..Len(lines)
      BY <1>3, <1>8, <2>2 DEF ScanBlockStart, Scans
    <2>4. QED BY <1>3, <1>4, <1>7, <2>1, <2>2, <2>3
  <1>9. CASE ScanBanner
    <2>1. i + 1 \in 1..Len(lines) + 1 /\ i + 2 \in 1..Len(lines) + 1
      BY <1>3, <1>9 DEF ScanBanner, Scans
    <2>2. blocks' = ClosedBy(i + 1) /\ block_start' = None /\ i' = i + 1 /\ step' = "blocks"
          /\ turn' = turn /\ UNCHANGED traceVars
          /\ short_summary_start' \in {short_summary_start, i + 2}
      BY <1>9 DEF ScanBanner, Scans
    <2>3. i' \in 0..Len(lines)
      BY <1>3, <1>9, <2>2 DEF ScanBanner, Scans
    <2>4. QED BY <1>3, <1>4, <1>7, <2>1, <2>2, <2>3
  <1>10. CASE ScanLine
    <2>1. i' \in 0..Len(lines) /\ step' = "blocks"
      BY <1>3, <1>10 DEF ScanLine, Scans
    <2>2. QED BY <1>3, <1>7, <1>10, <2>1 DEF ScanLine, Scans
  <1>11. CASE EndBlocks
    <2>1. Len(lines) + 1 \in 1..Len(lines) + 1
      BY <1>3
    <2>2. blocks' = ClosedBy(Len(lines) + 1) /\ PytestDetects /\ step' = "chunks"
      BY <1>11 DEF EndBlocks
    <2>3. UNCHANGED <<turn, i, block_start, short_summary_start, traceVars>>
      BY <1>11 DEF EndBlocks
    <2>4. QED BY <1>3, <1>4, <1>7, <2>1, <2>2, <2>3
  <1>12. QED BY <1>6, <1>8, <1>9, <1>10, <1>11

(* It reads the chunks of the headlines in them. *)
LEMMA TypedChunks ==
  ASSUME Typed, OpenChunk \/ ReadChunk \/ BuildDiagnostic \/ PytestReturns,
         UNCHANGED <<jsVars, compilerVars>>
  PROVE  Typed'
  <1>1. lines' = lines /\ lines \in Logs /\ TypeOK /\ ChunkIs
    BY DEF Typed, OpenChunk, ReadChunk, BuildDiagnostic, PytestReturns
  <1>2. JsTypeOK' /\ CompilerTypeOK'
    BY <1>1, TypesKept
  <1>3. UNCHANGED blockVars
    BY DEF OpenChunk, ReadChunk, BuildDiagnostic, PytestReturns, pytestVars
  <1>4. ASSUME TraceTypeOK', turn' \in {"pytest", "js_test"}, diagnostics' \in Seq(Diagnostic),
               chunk' # None =>
                 /\ turn' = "pytest" /\ step = "chunks"
                 /\ chunk'.first \in Separators /\ chunk' = ChunkFrom(chunk'.first)
        PROVE  Typed'
    <2>1. PytestTypeOK'
      BY <1>1, <1>3, <1>4 DEF TypeOK, PytestTypeOK, blockVars
    <2>2. step' = step /\ blocks' = blocks
      BY <1>3 DEF blockVars
    <2>3. PytestDetects' = PytestDetects /\ Separators' = Separators
          /\ \A n : ChunkFrom(n)' = ChunkFrom(n)
      BY <1>1, <2>2, SameChunks
    <2>4. chunk' # None => chunk' = ChunkFrom(chunk.first)'
      BY <1>4, <2>3
    <2>5. ChunkIs'
      BY <1>1, <1>4, <2>2, <2>3, <2>4 DEF ChunkIs
    <2>6. QED BY <1>1, <1>2, <1>4, <2>1, <2>5, RegistryIs DEF Typed, TypeOK, Parsers
  <1>5. CASE OpenChunk
    <2> DEFINE n == Min(Unread)
    <2>1. Unread \in SUBSET Nat /\ Unread # {}
      BY <1>5, LogIs DEF OpenChunk, Unread, Separators, LinesOf
    <2>2. n \in Separators
      BY <2>1, MinIs DEF Unread
    <2>3. /\ turn = "pytest" /\ step = "chunks" /\ turn' = turn /\ diagnostics' = diagnostics
          /\ chunk' = ChunkFrom(n) /\ at' = ChunkFrom(n).first
          /\ frames' = {} /\ raised' = None /\ in_exception_run' = FALSE
      BY <1>5 DEF OpenChunk, StartTrace
    <2> HIDE DEF n
    <2>4. /\ ChunkFrom(n) \in [first : Nat, last : Nat] /\ ChunkFrom(n).first = n
          /\ n <= ChunkFrom(n).last
      BY <2>2, ChunkBounds
    <2> DEFINE c == ChunkFrom(n)
    <2> HIDE DEF c
    <2>5. /\ c \in [first : Nat, last : Nat] /\ c.first \in c.first .. c.last + 1
          /\ chunk' = c /\ at' = c.first
      BY <2>3, <2>4 DEF c
    <2>6. TraceTypeOK'
      BY <2>3, <2>5 DEF TraceTypeOK
    <2>7. QED BY <1>1, <1>4, <2>2, <2>3, <2>4, <2>6 DEF TypeOK
  <1>6. CASE ReadChunk
    <2>1. turn = "pytest" /\ turn' = turn /\ diagnostics' = diagnostics /\ ReadTrace
      BY <1>6 DEF ReadChunk
    <2>2. chunk # None /\ chunk' = chunk /\ at <= chunk.last /\ at' = at + 1
          /\ frames' \in {frames, frames \cup {at}} /\ raised' \in {raised, at}
          /\ in_exception_run' \in BOOLEAN
      BY <2>1 DEF ReadTrace, ReadFrame, ReadException, ReadOther, Reads
    <2>3. /\ chunk \in [first : Nat, last : Nat] /\ at \in chunk.first .. chunk.last + 1
          /\ frames \in SUBSET DOMAIN lines /\ raised \in DOMAIN lines \cup {None}
      BY <1>1, <2>2 DEF TypeOK, PytestTypeOK, TraceTypeOK
    <2>4. chunk.first \in DOMAIN lines /\ chunk.last <= Len(lines)
      BY <1>1, <2>2, ChunkBounds DEF ChunkIs
    <2>5. at \in DOMAIN lines
      BY <2>2, <2>3, <2>4, LogIs
    <2>6. TraceTypeOK'
      BY <1>1, <2>2, <2>3, <2>5 DEF TraceTypeOK
    <2>7. QED BY <1>1, <1>4, <2>1, <2>2, <2>6 DEF ChunkIs, TypeOK
  <1>7. CASE BuildDiagnostic
    <2>1. turn = "pytest" /\ turn' = turn /\ chunk # None /\ chunk' = None /\ at' = chunk.last
          /\ frames' = {} /\ raised' = None /\ in_exception_run' = FALSE
          /\ diagnostics' = Append(diagnostics, Built(chunk.first))
      BY <1>7 DEF BuildDiagnostic, TraceRead
    <2>2. Built(chunk.first) \in Diagnostic
      BY <2>1, BuiltIs
    <2>3. diagnostics' \in Seq(Diagnostic)
      BY <1>1, <2>1, <2>2, AppendProperties DEF TypeOK
    <2>4. chunk.last \in Nat
      BY <1>1, <2>1 DEF TypeOK, PytestTypeOK, TraceTypeOK
    <2>5. TraceTypeOK'
      BY <2>1, <2>4 DEF TraceTypeOK
    <2>6. QED BY <1>4, <2>1, <2>3, <2>5
  <1>8. CASE PytestReturns
    <2>1. turn' = "js_test" /\ chunk' = None /\ diagnostics' = diagnostics \o ProcessFailure("pytest")
          /\ UNCHANGED pytestVars
      BY <1>8, TurnsAre DEF PytestReturns, pytestVars, traceVars
    <2>2. ProcessFailure("pytest") \in Seq(Diagnostic)
      BY LogIs, ExitIs DEF Parsers
    <2>3. diagnostics' \in Seq(Diagnostic)
      BY <1>1, <2>1, <2>2, AddedIs DEF TypeOK
    <2>4. TraceTypeOK'
      BY <1>1, <2>1, TypesKept DEF PytestTypeOK
    <2>5. QED BY <1>4, <2>1, <2>3, <2>4
  <1>9. QED BY <1>5, <1>6, <1>7, <1>8

(* jest's and vitest's parser. *)
LEMMA TypedJs ==
  ASSUME Typed, JsNext, UNCHANGED <<pytestVars, compilerVars>>
  PROVE  Typed'
  <1>1. lines' = lines /\ lines \in Logs /\ TypeOK /\ ChunkIs
    BY DEF Typed, JsNext, JsSkips, ReadSuite, ReadBullet, ReadJsLine, EndBlock, JsReturns, JsRuns
  <1>2. PytestTypeOK' /\ CompilerTypeOK'
    BY <1>1, TypesKept
  <1>3. turn = "js_test"
    BY DEF JsNext, JsSkips, ReadSuite, ReadBullet, ReadJsLine, EndBlock, JsReturns, JsRuns
  <1>4. chunk' = None /\ step' = step
    BY <1>1, <1>3 DEF ChunkIs, pytestVars, traceVars, blockVars
  <1>5. ChunkIs'
    BY <1>1, <1>4, SameChunks DEF ChunkIs
  <1>6. Len(lines) \in Nat /\ DOMAIN lines = 1..Len(lines)
        /\ j \in 0..Len(lines) /\ current_file \in DOMAIN lines \cup {None}
        /\ bullet \in 1..j \cup {None} /\ diagnostics \in Seq(Diagnostic)
    BY <1>1, LogIs DEF TypeOK, JsTypeOK
  <1>7. ASSUME turn' \in {"js_test", "compiler"}, j' \in 0..Len(lines),
               current_file' \in DOMAIN lines \cup {None}, bullet' \in 1..j' \cup {None},
               diagnostics' \in Seq(Diagnostic)
        PROVE  Typed'
    BY <1>1, <1>2, <1>5, <1>7, RegistryIs DEF Typed, TypeOK, JsTypeOK, Parsers
  <1>8. CASE JsSkips
    BY <1>6, <1>7, <1>8, TurnsAre DEF JsSkips, jsVars
  <1>9. CASE ReadSuite \/ ReadBullet \/ ReadJsLine
    <2>1. j + 1 \in DOMAIN lines /\ j' = j + 1 /\ turn' = turn /\ diagnostics' = diagnostics
      BY <1>6, <1>9 DEF ReadSuite, ReadBullet, ReadJsLine, Ahead
    <2>2. current_file' \in {current_file, j + 1} /\ bullet' \in {bullet, j + 1}
      BY <1>9 DEF ReadSuite, ReadBullet, ReadJsLine
    <2>3. QED BY <1>3, <1>6, <1>7, <2>1, <2>2
  <1>10. CASE EndBlock
    <2>1. bullet # None /\ bullet' = None /\ UNCHANGED <<turn, j, current_file>>
          /\ diagnostics' = Append(diagnostics, JsBuilt(bullet..j))
      BY <1>10 DEF EndBlock
    <2>2. diagnostics' \in Seq(Diagnostic)
      BY <1>6, <2>1, JsBuiltIs, AppendProperties
    <2>3. QED BY <1>3, <1>6, <1>7, <2>1, <2>2
  <1>11. CASE JsReturns
    <2>1. turn' = "compiler" /\ UNCHANGED jsVars
          /\ diagnostics' = diagnostics \o ProcessFailure("js_test")
      BY <1>11, TurnsAre DEF JsReturns
    <2>2. ProcessFailure("js_test") \in Seq(Diagnostic)
      BY LogIs, ExitIs DEF Parsers
    <2>3. diagnostics' \in Seq(Diagnostic)
      BY <1>6, <2>1, <2>2, AddedIs
    <2>4. QED BY <1>6, <1>7, <2>1, <2>3 DEF jsVars
  <1>12. QED BY <1>8, <1>9, <1>10, <1>11 DEF JsNext

(* A row of eslint's, under the path that was read last. *)
LintRow(n) == [Found("compiler", "LINT_ERROR", n) EXCEPT !.message = n, !.file = header]

(* Such a row. *)
LEMMA LintRowIs ==
  ASSUME Typed, NEW n \in Nat
  PROVE  /\ LintRow(n) \in Diagnostic
         /\ LintRow(n).parser = "compiler" /\ LintRow(n).type = "LINT_ERROR"
         /\ LintRow(n).start = n /\ LintRow(n).file = header
  <1> DEFINE f == Found("compiler", "LINT_ERROR", n)
  <1>1. f \in Diagnostic /\ f.parser = "compiler" /\ f.type = "LINT_ERROR" /\ f.start = n
    BY FoundIs DEF Parsers, Types
  <1>2. header \in Nat \cup {None}
    BY LogIs DEF Typed, TypeOK, CompilerTypeOK
  <1>3. LintRow(n) = [f EXCEPT !.message = n, !.file = header]
    BY DEF LintRow
  <1> HIDE DEF f
  <1>4. QED BY <1>1, <1>2, <1>3 DEF Diagnostic, Numbers

(* The compilers' parser. *)
LEMMA TypedCompiler ==
  ASSUME Typed, CompilerNext, UNCHANGED <<pytestVars, jsVars>>
  PROVE  Typed'
  <1>1. lines' = lines /\ lines \in Logs /\ TypeOK /\ ChunkIs
    BY DEF Typed, CompilerNext, CompilerSkips, ExtractTsc, ReadRow, PassOver, ReadBlank, ReadPath,
           CompilerReturns, EslintReads, CompilerRuns
  <1>2. PytestTypeOK' /\ JsTypeOK'
    BY <1>1, TypesKept
  <1>3. turn = "compiler"
    BY DEF CompilerNext, CompilerSkips, ExtractTsc, ReadRow, PassOver, ReadBlank, ReadPath,
           CompilerReturns, EslintReads, CompilerRuns
  <1>4. chunk' = None /\ step' = step
    BY <1>1, <1>3 DEF ChunkIs, pytestVars, traceVars, blockVars
  <1>5. ChunkIs'
    BY <1>1, <1>4, SameChunks DEF ChunkIs
  <1>6. Len(lines) \in Nat /\ pass \in {"tsc", "eslint"} /\ read \in 0..Len(lines)
        /\ header \in 1..read \cup {None} /\ diagnostics \in Seq(Diagnostic)
    BY <1>1, LogIs DEF TypeOK, CompilerTypeOK
  <1>7. ASSUME turn' \in {"compiler", "generic"}, pass' \in {"tsc", "eslint"},
               read' \in 0..Len(lines), header' \in 1..read' \cup {None},
               diagnostics' \in Seq(Diagnostic)
        PROVE  Typed'
    BY <1>1, <1>2, <1>5, <1>7, RegistryIs DEF Typed, TypeOK, CompilerTypeOK, Parsers
  <1>8. CASE CompilerSkips
    BY <1>6, <1>7, <1>8, TurnsAre DEF CompilerSkips, compilerVars
  <1>9. CASE ExtractTsc
    <2>1. turn' = turn /\ pass' = "eslint" /\ UNCHANGED <<read, header>>
          /\ diagnostics' = diagnostics \o TscErrors
      BY <1>9 DEF ExtractTsc
    <2>2. TscErrors \in Seq(Diagnostic)
      BY TscErrorsAre
    <2>3. diagnostics' \in Seq(Diagnostic)
      BY <1>6, <2>1, <2>2, AddedIs
    <2>4. QED BY <1>3, <1>6, <1>7, <2>1, <2>3
  <1>10. CASE ReadRow \/ PassOver \/ ReadBlank \/ ReadPath
    <2>1. turn' = turn /\ pass' = pass /\ read < Len(lines) /\ read' = read + 1
          /\ header' \in {header, None, read + 1}
      BY <1>10 DEF ReadRow, PassOver, ReadBlank, ReadPath, EslintReads
    <2>2. diagnostics' \in {diagnostics, Append(diagnostics, LintRow(read + 1))}
      BY <1>10 DEF ReadRow, PassOver, ReadBlank, ReadPath, LintRow
    <2>3. LintRow(read + 1) \in Diagnostic
      BY <1>6, LintRowIs
    <2>4. diagnostics' \in Seq(Diagnostic)
      BY <1>6, <2>2, <2>3, AppendProperties
    <2>5. QED BY <1>3, <1>6, <1>7, <2>1, <2>4
  <1>11. CASE CompilerReturns
    <2>1. turn' = "generic" /\ UNCHANGED compilerVars
          /\ diagnostics' = diagnostics \o ProcessFailure("compiler")
      BY <1>11, TurnsAre DEF CompilerReturns
    <2>2. ProcessFailure("compiler") \in Seq(Diagnostic)
      BY LogIs, ExitIs DEF Parsers
    <2>3. diagnostics' \in Seq(Diagnostic)
      BY <1>6, <2>1, <2>2, AddedIs
    <2>4. QED BY <1>6, <1>7, <2>1, <2>3 DEF compilerVars
  <1>12. QED BY <1>8, <1>9, <1>10, <1>11 DEF CompilerNext

(* The fallback. *)
LEMMA TypedFallback ==
  ASSUME Typed, Fallback \/ NoFallback
  PROVE  Typed'
  <1>1. /\ lines' = lines /\ lines \in Logs /\ TypeOK /\ ChunkIs
        /\ UNCHANGED <<pytestVars, jsVars, compilerVars>>
        /\ turn = "generic" /\ turn' = "done"
    BY TurnsAre DEF Typed, Fallback, NoFallback
  <1>2. PytestTypeOK' /\ JsTypeOK' /\ CompilerTypeOK'
    BY <1>1, TypesKept
  <1>3. chunk' = None /\ step' = step
    BY <1>1 DEF ChunkIs, pytestVars, traceVars, blockVars
  <1>4. ChunkIs'
    BY <1>1, <1>3, SameChunks DEF ChunkIs
  <1>5. ProcessFailure("generic") \in Seq(Diagnostic) /\ GenericFailures \in Seq(Diagnostic)
    BY LogIs, ExitIs, GenericFailuresAre DEF Parsers
  <1>6. ProcessFailure("generic") \o GenericFailures \in Seq(Diagnostic)
    BY <1>5, ConcatProperties
  <1>7. diagnostics' \in Seq(Diagnostic)
    BY <1>1, <1>6 DEF Fallback, NoFallback, TypeOK
  <1>8. QED BY <1>1, <1>2, <1>4, <1>7 DEF Typed, TypeOK

(* Every step. *)
LEMMA TypedNext == Typed /\ [Next]_vars => Typed'
  <1> SUFFICES ASSUME Typed, [Next]_vars PROVE Typed'
    OBVIOUS
  <1>1. CASE PytestNext /\ UNCHANGED <<jsVars, compilerVars>>
    BY <1>1, TypedScan, TypedChunks DEF PytestNext
  <1>2. CASE JsNext /\ UNCHANGED <<pytestVars, compilerVars>>
    BY <1>2, TypedJs
  <1>3. CASE CompilerNext /\ UNCHANGED <<pytestVars, jsVars>>
    BY <1>3, TypedCompiler
  <1>4. CASE Fallback \/ NoFallback
    BY <1>4, TypedFallback
  <1>5. CASE UNCHANGED vars
    <2>1. /\ lines' = lines /\ turn' = turn /\ diagnostics' = diagnostics /\ chunk' = chunk
          /\ step' = step /\ blocks' = blocks /\ UNCHANGED <<pytestVars, jsVars, compilerVars>>
      BY <1>5 DEF vars, pytestVars, traceVars, blockVars
    <2>2. TypeOK'
      BY <2>1, TypesKept DEF Typed, TypeOK
    <2>3. ChunkIs'
      BY <2>1, SameChunks DEF Typed, ChunkIs
    <2>4. QED BY <2>1, <2>2, <2>3 DEF Typed
  <1>6. QED BY <1>1, <1>2, <1>3, <1>4, <1>5 DEF Next, Returned

(* At the start no parser has read a line. *)
LEMMA TypedInit == Init => Typed
  <1> SUFFICES ASSUME Init PROVE Typed
    OBVIOUS
  <1>1. lines \in Logs /\ turn = "pytest" /\ diagnostics = << >> /\ chunk = None /\ step = "blocks"
    BY TurnsAre DEF Init, PytestInit, NoTrace
  <1>2. lines \in Seq(Line)
    BY <1>1, LogsAssumption
  <1>3. Len(lines) \in Nat
    BY <1>2, LenProperties
  <1>4. blocks = << >> /\ << >> \in Seq([first : Nat, last : 0..Len(lines)])
    BY DEF Init, PytestInit
  <1>5. TraceTypeOK
    BY DEF Init, PytestInit, NoTrace, TraceTypeOK
  <1>6. PytestTypeOK
    BY <1>3, <1>4, <1>5 DEF Init, PytestInit, PytestTypeOK
  <1>7. JsTypeOK /\ CompilerTypeOK
    BY <1>3 DEF Init, JsInit, CompilerInit, JsTypeOK, CompilerTypeOK
  <1>8. diagnostics \in Seq(Diagnostic)
    BY <1>1
  <1>9. TypeOK
    BY <1>1, <1>2, <1>6, <1>7, <1>8, RegistryIs DEF TypeOK, Parsers
  <1>10. QED BY <1>1, <1>9 DEF Typed, ChunkIs

(* TypeOK for every log: whatever the tools printed and in whatever order,  *)
(* every block that pytest's parser finds ends inside the log, its chunks    *)
(* are read inside the log, and every diagnostic of every parser is one.     *)
THEOREM ToolParsersTypeOK == Spec => []TypeOK
  <1>1. Typed => TypeOK
    BY DEF Typed
  <1>2. QED BY TypedInit, TypedNext, <1>1, PTL DEF Spec

-----------------------------------------------------------------------------
(* What a step adds. *)

(* The diagnostics that are added are of the parser whose turn it is, and of *)
(* its types.                                                                *)
TypesOf(parser) ==
  IF parser \in {"pytest", "js_test"} THEN {"TEST_FAILURE", "PROCESS_FAILURE"}
  ELSE IF parser = "compiler" THEN {"COMPILER_ERROR", "LINT_ERROR", "PROCESS_FAILURE"}
  ELSE {"PROCESS_FAILURE", "UNKNOWN"}

Adds(s) ==
  /\ diagnostics' = diagnostics \o s
  /\ \A k \in DOMAIN s : s[k].parser = turn /\ s[k].type \in TypesOf(turn)

(* A failed test is added by the step that has read its chunk or its block. *)
AddsTest(s) ==
  \A k \in DOMAIN s : s[k].type = "TEST_FAILURE" =>
    \/ BuildDiagnostic /\ s = <<Built(chunk.first)>>
    \/ EndBlock /\ s = <<JsBuilt(bullet..j)>>

(* A step that adds one diagnostic. *)
LEMMA AddsOne ==
  ASSUME Typed, NEW d \in Diagnostic, diagnostics' = Append(diagnostics, d),
         d.parser = turn, d.type \in TypesOf(turn)
  PROVE  Adds(<<d>>) /\ <<d>> \in Seq(Diagnostic)
  <1>1. diagnostics \in Seq(Diagnostic)
    BY DEF Typed, TypeOK
  <1>2. Append(diagnostics, d) = diagnostics \o <<d>>
    BY <1>1, AppendIsConcat
  <1>3. QED BY <1>2 DEF Adds

(* A step that adds none. *)
LEMMA AddsNone ==
  ASSUME Typed, diagnostics' = diagnostics
  PROVE  Adds(<< >>) /\ AddsTest(<< >>) /\ << >> \in Seq(Diagnostic)
  <1>1. diagnostics \in Seq(Diagnostic)
    BY DEF Typed, TypeOK
  <1>2. diagnostics \o << >> = diagnostics
    BY <1>1, ConcatEmptySeq
  <1>3. QED BY <1>2 DEF Adds, AddsTest

(* The step by which a parser returns. *)
LEMMA AddsExit ==
  ASSUME Typed, turn \in Parsers, diagnostics' = diagnostics \o ProcessFailure(turn)
  PROVE  /\ Adds(ProcessFailure(turn)) /\ AddsTest(ProcessFailure(turn))
         /\ ProcessFailure(turn) \in Seq(Diagnostic)
  BY LogIs, ExitIs DEF Adds, AddsTest, TypesOf

(* Every step adds to the diagnostics, and changes none of them. *)
LEMMA StepAdds ==
  ASSUME Typed, [Next]_vars
  PROVE  \E s \in Seq(Diagnostic) : Adds(s) /\ AddsTest(s)
  <1>1. CASE diagnostics' = diagnostics
    BY <1>1, AddsNone
  <1>2. CASE BuildDiagnostic
    <2>1. turn = "pytest" /\ chunk # None /\ diagnostics' = Append(diagnostics, Built(chunk.first))
      BY <1>2 DEF BuildDiagnostic, TraceRead
    <2>2. Built(chunk.first) \in Diagnostic /\ Built(chunk.first).parser = "pytest"
          /\ Built(chunk.first).type = "TEST_FAILURE"
      BY <2>1, BuiltIs
    <2>3. Adds(<<Built(chunk.first)>>) /\ <<Built(chunk.first)>> \in Seq(Diagnostic)
      BY <2>1, <2>2, AddsOne DEF TypesOf
    <2>4. QED BY <1>2, <2>3 DEF AddsTest
  <1>3. CASE EndBlock
    <2>1. turn = "js_test" /\ bullet # None /\ diagnostics' = Append(diagnostics, JsBuilt(bullet..j))
      BY <1>3 DEF EndBlock, JsRuns
    <2>2. JsBuilt(bullet..j) \in Diagnostic /\ JsBuilt(bullet..j).parser = "js_test"
          /\ JsBuilt(bullet..j).type = "TEST_FAILURE"
      BY <2>1, JsBuiltIs
    <2>3. Adds(<<JsBuilt(bullet..j)>>) /\ <<JsBuilt(bullet..j)>> \in Seq(Diagnostic)
      BY <2>1, <2>2, AddsOne DEF TypesOf
    <2>4. QED BY <1>3, <2>3 DEF AddsTest
  <1>4. CASE PytestReturns \/ JsReturns \/ CompilerReturns
    <2>1. turn \in Parsers /\ diagnostics' = diagnostics \o ProcessFailure(turn)
      BY <1>4 DEF PytestReturns, JsReturns, CompilerReturns, JsRuns, CompilerRuns, Parsers
    <2>2. QED BY <2>1, AddsExit
  <1>5. CASE ExtractTsc
    <2>1. turn = "compiler" /\ diagnostics' = diagnostics \o TscErrors
      BY <1>5 DEF ExtractTsc, CompilerRuns
    <2>2. TscErrors \in Seq(Diagnostic)
          /\ \A k \in DOMAIN TscErrors : TscErrors[k].parser = "compiler"
                                         /\ TscErrors[k].type = "COMPILER_ERROR"
      BY TscErrorsAre
    <2>3. QED BY <2>1, <2>2 DEF Adds, AddsTest, TypesOf
  <1>6. CASE ReadRow
    <2>1. turn = "compiler" /\ read + 1 \in Nat
          /\ diagnostics' = Append(diagnostics, LintRow(read + 1))
      BY <1>6, LogIs DEF ReadRow, EslintReads, CompilerRuns, LintRow, Typed, TypeOK, CompilerTypeOK
    <2>2. LintRow(read + 1) \in Diagnostic /\ LintRow(read + 1).parser = "compiler"
          /\ LintRow(read + 1).type = "LINT_ERROR"
      BY <2>1, LintRowIs
    <2>3. Adds(<<LintRow(read + 1)>>) /\ <<LintRow(read + 1)>> \in Seq(Diagnostic)
      BY <2>1, <2>2, AddsOne DEF TypesOf
    <2>4. QED BY <2>2, <2>3 DEF AddsTest
  <1>7. CASE Fallback
    <2> DEFINE s == ProcessFailure("generic") \o GenericFailures
    <2>1. turn = "generic" /\ diagnostics = << >> /\ diagnostics' = s
      BY <1>7 DEF Fallback
    <2>2. /\ ProcessFailure("generic") \in Seq(Diagnostic)
          /\ \A k \in DOMAIN ProcessFailure("generic") :
               LET d == ProcessFailure("generic")[k]
               IN  d.parser = "generic" /\ d.type = "PROCESS_FAILURE"
      BY LogIs, ExitIs DEF Parsers
    <2>3. /\ GenericFailures \in Seq(Diagnostic)
          /\ \A k \in DOMAIN GenericFailures :
               GenericFailures[k].parser = "generic" /\ GenericFailures[k].type = "UNKNOWN"
      BY GenericFailuresAre
    <2>4. /\ s \in Seq(Diagnostic)
          /\ Len(s) = Len(ProcessFailure("generic")) + Len(GenericFailures)
          /\ \A k \in 1..Len(s) :
               s[k] = IF k <= Len(ProcessFailure("generic")) THEN ProcessFailure("generic")[k]
                      ELSE GenericFailures[k - Len(ProcessFailure("generic"))]
      BY <2>2, <2>3, ConcatProperties
    <2>5. << >> \o s = s
      BY <2>4, ConcatEmptySeq
    <2>6. \A k \in DOMAIN s : s[k].parser = "generic" /\ s[k].type \in {"PROCESS_FAILURE", "UNKNOWN"}
      BY <2>2, <2>3, <2>4, LenProperties
    <2> HIDE DEF s
    <2>7. QED BY <2>1, <2>4, <2>5, <2>6 DEF Adds, AddsTest, TypesOf
  <1>8. QED
    BY <1>1, <1>2, <1>3, <1>4, <1>5, <1>6, <1>7
    DEF Next, PytestNext, JsNext, CompilerNext, PytestSkips, ScanBlockStart, ScanBanner, ScanLine,
        EndBlocks, Scans, OpenChunk, ReadChunk, JsSkips, ReadSuite, ReadBullet, ReadJsLine,
        CompilerSkips, PassOver, ReadBlank, ReadPath, NoFallback, Returned, vars

(* Where the diagnostics of a step stand. *)
LEMMA PositionsAre ==
  ASSUME Typed, NEW s \in Seq(Diagnostic), Adds(s)
  PROVE  /\ Len(diagnostics) \in Nat /\ Len(s) \in Nat
         /\ DOMAIN diagnostics = 1..Len(diagnostics) /\ DOMAIN s = 1..Len(s)
         /\ DOMAIN diagnostics' = 1..Len(diagnostics) + Len(s)
         /\ \A k \in DOMAIN diagnostics : diagnostics'[k] = diagnostics[k]
         /\ \A k \in DOMAIN diagnostics' : k \notin DOMAIN diagnostics =>
              /\ k - Len(diagnostics) \in DOMAIN s
              /\ diagnostics'[k] = s[k - Len(diagnostics)]
              /\ diagnostics'[k].parser = turn /\ diagnostics'[k].type \in TypesOf(turn)
  <1>1. diagnostics \in Seq(Diagnostic) /\ diagnostics' = diagnostics \o s
    BY DEF Typed, TypeOK, Adds
  <1>2. Len(diagnostics) \in Nat /\ Len(s) \in Nat
        /\ DOMAIN diagnostics = 1..Len(diagnostics) /\ DOMAIN s = 1..Len(s)
    BY <1>1, LenProperties
  <1>3. /\ diagnostics \o s \in Seq(Diagnostic)
        /\ Len(diagnostics \o s) = Len(diagnostics) + Len(s)
        /\ \A k \in 1..Len(diagnostics) + Len(s) :
             (diagnostics \o s)[k] = IF k <= Len(diagnostics) THEN diagnostics[k]
                                     ELSE s[k - Len(diagnostics)]
    BY <1>1, ConcatProperties
  <1>4. DOMAIN (diagnostics \o s) = 1..Len(diagnostics) + Len(s)
    BY <1>3, LenProperties
  <1>5. \A k \in DOMAIN s : s[k].parser = turn /\ s[k].type \in TypesOf(turn)
    BY DEF Adds
  <1>6. ASSUME NEW k \in DOMAIN diagnostics', k \notin DOMAIN diagnostics
        PROVE  /\ k - Len(diagnostics) \in DOMAIN s
               /\ diagnostics'[k] = s[k - Len(diagnostics)]
    BY <1>1, <1>2, <1>3, <1>4, <1>6
  <1>7. \A k \in DOMAIN diagnostics : diagnostics'[k] = diagnostics[k]
    BY <1>1, <1>2, <1>3
  <1>8. DOMAIN diagnostics' = 1..Len(diagnostics) + Len(s)
    BY <1>1, <1>4
  <1>9. QED BY <1>2, <1>5, <1>6, <1>7, <1>8

-----------------------------------------------------------------------------
(* The failed tests come first. *)

(* While the test runners' parsers have their turn there are only failed    *)
(* tests and exit codes.                                                    *)
RunnersOnly ==
  turn \in {"pytest", "js_test"} =>
    \A k \in DOMAIN diagnostics : diagnostics[k].type \in {"TEST_FAILURE", "PROCESS_FAILURE"}

FirstInv == Typed /\ RunnersOnly /\ TestsComeFirst

(* No parser has its turn again. *)
LEMMA TurnsGoOn ==
  ASSUME Typed, [Next]_vars
  PROVE  turn' \in {"pytest", "js_test"} => turn \in {"pytest", "js_test"}
  <1>1. turn' \in {turn, TurnAfter(turn)}
    BY DEF Next, PytestNext, JsNext, CompilerNext, PytestSkips, ScanBlockStart, ScanBanner, ScanLine,
           EndBlocks, Scans, OpenChunk, ReadChunk, BuildDiagnostic, PytestReturns, JsSkips, ReadSuite,
           ReadBullet, ReadJsLine, EndBlock, JsReturns, JsRuns, CompilerSkips, ExtractTsc, ReadRow,
           PassOver, ReadBlank, ReadPath, CompilerReturns, EslintReads, CompilerRuns, Fallback,
           NoFallback, Returned, vars
  <1>2. turn \in Parsers \cup {"done"}
    BY RegistryIs DEF Typed, TypeOK
  <1>3. CASE turn \in {"compiler", "generic"}
    BY <1>1, <1>3, TurnsAre
  <1>4. CASE turn = "done"
    <2>1. ~PytestNext /\ ~JsNext /\ ~CompilerNext /\ ~Fallback /\ ~NoFallback
      BY <1>4
      DEF PytestNext, JsNext, CompilerNext, PytestSkips, ScanBlockStart, ScanBanner, ScanLine,
          EndBlocks, Scans, OpenChunk, ReadChunk, BuildDiagnostic, PytestReturns, JsSkips, ReadSuite,
          ReadBullet, ReadJsLine, EndBlock, JsReturns, JsRuns, CompilerSkips, ExtractTsc, ReadRow,
          PassOver, ReadBlank, ReadPath, CompilerReturns, EslintReads, CompilerRuns, Fallback,
          NoFallback
    <2>2. turn' = turn
      BY <2>1 DEF Next, Returned, vars
    <2>3. QED BY <1>4, <2>2
  <1>5. QED BY <1>2, <1>3, <1>4 DEF Parsers

(* Every step keeps the failed tests first. *)
LEMMA FirstNext ==
  ASSUME FirstInv, [Next]_vars
  PROVE  FirstInv'
  <1>1. Typed /\ Typed'
    BY TypedNext DEF FirstInv
  <1>2. PICK s \in Seq(Diagnostic) : Adds(s)
    BY <1>1, StepAdds
  <1>3. /\ Len(diagnostics) \in Nat /\ Len(s) \in Nat
        /\ DOMAIN diagnostics = 1..Len(diagnostics)
        /\ DOMAIN diagnostics' = 1..Len(diagnostics) + Len(s)
        /\ \A k \in DOMAIN diagnostics : diagnostics'[k] = diagnostics[k]
        /\ \A k \in DOMAIN diagnostics' : k \notin DOMAIN diagnostics =>
             diagnostics'[k].type \in TypesOf(turn)
    BY <1>1, <1>2, PositionsAre
  <1>4. RunnersOnly'
    <2>1. turn' \in {"pytest", "js_test"} => turn \in {"pytest", "js_test"}
      BY <1>1, TurnsGoOn
    <2>2. QED BY <1>3, <2>1 DEF FirstInv, RunnersOnly, TypesOf
  <1>5. TestsComeFirst'
    <2> SUFFICES ASSUME NEW k \in DOMAIN diagnostics', NEW m \in DOMAIN diagnostics',
                        diagnostics'[k].type = "TEST_FAILURE",
                        diagnostics'[m].type \in {"COMPILER_ERROR", "LINT_ERROR"}
                 PROVE  k < m
      BY DEF TestsComeFirst
    <2>1. CASE turn \in {"pytest", "js_test"}
      BY <1>3, <2>1 DEF FirstInv, RunnersOnly, TypesOf
    <2>2. CASE turn \notin {"pytest", "js_test"}
      <3>1. k \in DOMAIN diagnostics
        BY <1>3, <2>2 DEF TypesOf
      <3>2. CASE m \in DOMAIN diagnostics
        BY <1>3, <3>1, <3>2 DEF FirstInv, TestsComeFirst
      <3>3. CASE m \notin DOMAIN diagnostics
        BY <1>3, <3>1, <3>3
      <3>4. QED BY <3>2, <3>3
    <2>3. QED BY <2>1, <2>2
  <1>6. QED BY <1>1, <1>4, <1>5 DEF FirstInv

(* TestsComeFirst for every log, however it mixes the tools: the order that *)
(* clustering relies on is the registry's.                                  *)
THEOREM ToolParsersTestsComeFirst == Spec => []TestsComeFirst
  <1>1. Init => FirstInv
    <2> SUFFICES ASSUME Init PROVE FirstInv
      OBVIOUS
    <2>1. Typed /\ diagnostics = << >>
      BY TypedInit DEF Init
    <2>2. QED BY <2>1 DEF FirstInv, RunnersOnly, TestsComeFirst
  <1>2. FirstInv /\ [Next]_vars => FirstInv'
    BY FirstNext
  <1>3. FirstInv => TestsComeFirst
    BY DEF FirstInv
  <1>4. QED BY <1>1, <1>2, <1>3, PTL DEF Spec

-----------------------------------------------------------------------------
(* The blocks of pytest's report. *)

(* A line stands under a block's title: no other banner is in between. *)
UnderBlock(n) ==
  \E m \in LinesOf({"block"}) :
    m < n /\ \A x \in m + 1..n : lines[x].kind \notin Banners

(* A block found holds lines under its title, up to a banner or the end. *)
BlockIs(b) ==
  /\ \A n \in b.first..b.last : lines[n].kind \notin Banners /\ UnderBlock(n)
  /\ b.last = Len(lines) \/ lines[b.last + 1].kind \in Banners

(* The blocks found follow one another. *)
BlocksAre(bs, end) ==
  \A k \in DOMAIN bs :
    /\ BlockIs(bs[k]) /\ bs[k].last \in Nat /\ bs[k].last < end
    /\ \A m \in DOMAIN bs : k < m => bs[k].last < bs[m].first

(* The lines in them. *)
In(n, bs) == \E k \in DOMAIN bs : n \in bs[k].first..bs[k].last

(* The block that is open. *)
OpenIs ==
  IF block_start # None
  THEN /\ block_start \in 2..i + 1 /\ lines[block_start - 1].kind = "block"
       /\ \A n \in block_start..i : lines[n].kind \notin Banners
       /\ \A k \in DOMAIN blocks : blocks[k].last < block_start
  ELSE \A m \in 1..i : lines[m].kind = "block" => \E x \in m + 1..i : lines[x].kind \in Banners

(* What _find_blocks has found: while it runs, in the lines it has read.    *)
BlocksInv ==
  /\ step = "blocks" =>
       /\ BlocksAre(blocks, i) /\ OpenIs
       /\ \A n \in 1..i : UnderBlock(n) =>
            In(n, blocks) \/ (block_start # None /\ n >= block_start)
  /\ step = "chunks" =>
       /\ BlocksAre(blocks, Len(lines) + 1)
       /\ \A n \in DOMAIN lines : UnderBlock(n) => In(n, blocks)

(* A block found is a slice of the log. *)
LEMMA BlockBounds ==
  ASSUME Typed
  PROVE  /\ Len(lines) \in Nat
         /\ \A k \in DOMAIN blocks :
              /\ k \in Nat /\ blocks[k].first \in Nat
              /\ blocks[k].last \in Nat /\ blocks[k].last <= Len(lines)
  <1>1. blocks \in Seq([first : Nat, last : 0..Len(lines)]) /\ Len(lines) \in Nat
    BY LogIs DEF Typed, TypeOK, PytestTypeOK
  <1>2. Len(blocks) \in Nat /\ DOMAIN blocks = 1..Len(blocks)
        /\ \A k \in DOMAIN blocks : blocks[k] \in [first : Nat, last : 0..Len(lines)]
    BY <1>1, ElementOfSeq, LenProperties
  <1>3. QED BY <1>1, <1>2

(* The next line is a banner, or there is none. *)
AtBanner == i = Len(lines) \/ lines[i + 1].kind \in Banners

(* A banner, or the end of the log, closes the block that is open. *)
LEMMA ClosedIs ==
  ASSUME Typed, BlocksInv, step = "blocks", AtBanner
  PROVE  /\ BlocksAre(ClosedBy(i + 1), i + 1)
         /\ \A n \in 1..i : UnderBlock(n) => In(n, ClosedBy(i + 1))
  <1>1. Len(lines) \in Nat /\ DOMAIN lines = 1..Len(lines) /\ i \in 0..Len(lines)
        /\ blocks \in Seq([first : Nat, last : 0..Len(lines)])
        /\ block_start \in 1..Len(lines) + 1 \cup {None}
    BY LogIs DEF Typed, TypeOK, PytestTypeOK
  <1>2. BlocksAre(blocks, i) /\ OpenIs
        /\ \A n \in 1..i : UnderBlock(n) =>
             In(n, blocks) \/ (block_start # None /\ n >= block_start)
    BY DEF BlocksInv
  <1>3. Len(blocks) \in Nat /\ DOMAIN blocks = 1..Len(blocks)
        /\ \A k \in DOMAIN blocks : blocks[k].first \in Nat /\ blocks[k].last \in Nat
    <2>1. \A k \in DOMAIN blocks : blocks[k] \in [first : Nat, last : 0..Len(lines)]
      BY <1>1, ElementOfSeq, LenProperties
    <2>2. QED BY <1>1, <2>1, LenProperties
  <1>4. CASE block_start = None
    <2>1. ClosedBy(i + 1) = blocks
      BY <1>4 DEF ClosedBy
    <2>2. BlocksAre(blocks, i + 1)
      BY <1>1, <1>2, <1>3 DEF BlocksAre
    <2>3. QED BY <1>2, <1>4, <2>1, <2>2
  <1>5. CASE block_start # None
    <2> DEFINE b == [first |-> block_start, last |-> i]
               bs == ClosedBy(i + 1)
    <2>1. bs = Append(blocks, b)
      BY <1>1, <1>5 DEF ClosedBy
    <2>2. block_start \in 2..i + 1 /\ lines[block_start - 1].kind = "block"
          /\ (\A n \in block_start..i : lines[n].kind \notin Banners)
          /\ \A k \in DOMAIN blocks : blocks[k].last < block_start
      BY <1>2, <1>5 DEF OpenIs
    <2>3. b \in [first : Nat, last : 0..Len(lines)] /\ b.first = block_start /\ b.last = i
      BY <1>1, <2>2
    <2>4. BlockIs(b)
      <3>1. block_start - 1 \in LinesOf({"block"})
        BY <1>1, <2>2 DEF LinesOf
      <3>2. ASSUME NEW n \in block_start..i
            PROVE  lines[n].kind \notin Banners /\ UnderBlock(n)
        <4>1. block_start - 1 < n
              /\ \A x \in (block_start - 1) + 1..n : lines[x].kind \notin Banners
          BY <1>1, <2>2, <3>2
        <4>2. QED BY <2>2, <3>1, <3>2, <4>1 DEF UnderBlock
      <3>3. QED BY <1>1, <2>3, <3>2 DEF BlockIs, AtBanner
    <2> HIDE DEF b, bs
    <2>5. Len(bs) = Len(blocks) + 1 /\ DOMAIN bs = 1..Len(blocks) + 1
          /\ (\A k \in 1..Len(blocks) : bs[k] = blocks[k]) /\ bs[Len(blocks) + 1] = b
      <3>1. /\ Append(blocks, b) \in Seq([first : Nat, last : 0..Len(lines)])
            /\ Len(Append(blocks, b)) = Len(blocks) + 1
            /\ \A k \in 1..Len(blocks) : Append(blocks, b)[k] = blocks[k]
            /\ Append(blocks, b)[Len(blocks) + 1] = b
        BY <1>1, <2>3, AppendProperties
      <3>2. DOMAIN Append(blocks, b) = 1..Len(blocks) + 1
        BY <3>1, LenProperties
      <3>3. QED BY <2>1, <3>1, <3>2
    <2>6. BlocksAre(bs, i + 1)
      <3> SUFFICES ASSUME NEW k \in DOMAIN bs
                   PROVE  /\ BlockIs(bs[k]) /\ bs[k].last \in Nat /\ bs[k].last < i + 1
                          /\ \A m \in DOMAIN bs : k < m => bs[k].last < bs[m].first
        BY DEF BlocksAre
      <3>1. CASE k \in DOMAIN blocks
        <4>1. BlockIs(blocks[k]) /\ blocks[k].last < i
              /\ \A m \in DOMAIN blocks : k < m => blocks[k].last < blocks[m].first
          BY <1>2, <3>1 DEF BlocksAre
        <4>2. bs[k] = blocks[k] /\ blocks[k].last < block_start
          BY <1>3, <2>2, <2>5, <3>1
        <4>3. BlockIs(bs[k]) /\ bs[k].last \in Nat /\ bs[k].last < i + 1
          BY <1>1, <1>3, <3>1, <4>1, <4>2
        <4>4. ASSUME NEW m \in DOMAIN bs, k < m
              PROVE  bs[k].last < bs[m].first
          <5>1. CASE m \in DOMAIN blocks
            BY <1>3, <2>5, <4>1, <4>2, <4>4, <5>1
          <5>2. CASE m = Len(blocks) + 1
            BY <2>3, <2>5, <4>2, <5>2
          <5>3. QED BY <1>3, <2>5, <5>1, <5>2
        <4>5. QED BY <4>3, <4>4
      <3>2. CASE k = Len(blocks) + 1
        <4>1. bs[k] = b /\ b.last \in Nat /\ b.last < i + 1
          BY <1>1, <2>3, <2>5, <3>2
        <4>2. \A m \in DOMAIN bs : ~(k < m)
          BY <1>3, <2>5, <3>2
        <4>3. QED BY <2>4, <4>1, <4>2
      <3>3. QED BY <1>3, <2>5, <3>1, <3>2
    <2>7. ASSUME NEW n \in 1..i, UnderBlock(n)
          PROVE  In(n, bs)
      <3>1. CASE In(n, blocks)
        <4>1. PICK k \in DOMAIN blocks : n \in blocks[k].first..blocks[k].last
          BY <3>1 DEF In
        <4>2. k \in DOMAIN bs /\ bs[k] = blocks[k]
          BY <1>3, <2>5, <4>1
        <4>3. QED BY <4>1, <4>2 DEF In
      <3>2. CASE n >= block_start
        <4>1. n \in b.first..b.last /\ Len(blocks) + 1 \in DOMAIN bs
          BY <1>1, <1>3, <2>2, <2>3, <2>5, <2>7, <3>2
        <4>2. QED BY <2>5, <4>1 DEF In
      <3>3. QED BY <1>2, <2>7, <3>1, <3>2
    <2>8. QED BY <2>6, <2>7 DEF bs
  <1>6. QED BY <1>4, <1>5

(* What is said of a log does not change while it is read. *)
LEMMA SameLines ==
  ASSUME lines' = lines, NEW bs, blocks' = bs, NEW end, i' = end
  PROVE  /\ \A n : UnderBlock(n)' = UnderBlock(n)
         /\ \A n : In(n, blocks)' = In(n, bs)
         /\ BlocksAre(blocks, i)' = BlocksAre(bs, end)
         /\ BlocksAre(blocks, Len(lines) + 1)' = BlocksAre(bs, Len(lines) + 1)
  <1>1. \A n : UnderBlock(n)' = UnderBlock(n)
    BY DEF UnderBlock, LinesOf
  <1>2. \A n : In(n, blocks)' = In(n, bs)
    BY DEF In
  <1>3. /\ BlocksAre(blocks, i)' = BlocksAre(bs, end)
        /\ BlocksAre(blocks, Len(lines) + 1)' = BlocksAre(bs, Len(lines) + 1)
    BY DEF UnderBlock, BlockIs, BlocksAre, LinesOf
  <1>4. QED BY <1>1, <1>2, <1>3

(* _find_blocks keeps its invariant. *)
LEMMA BlocksScan ==
  ASSUME Typed, BlocksInv, ScanBlockStart \/ ScanBanner \/ ScanLine \/ EndBlocks
  PROVE  BlocksInv'
  <1>1. Len(lines) \in Nat /\ DOMAIN lines = 1..Len(lines) /\ i \in 0..Len(lines)
        /\ block_start \in 1..Len(lines) + 1 \cup {None}
    BY LogIs DEF Typed, TypeOK, PytestTypeOK
  <1>2. lines' = lines /\ step = "blocks"
    BY DEF ScanBlockStart, ScanBanner, ScanLine, EndBlocks, Scans
  <1>3. BlocksAre(blocks, i) /\ OpenIs
        /\ \A n \in 1..i : UnderBlock(n) =>
             In(n, blocks) \/ (block_start # None /\ n >= block_start)
    BY <1>2 DEF BlocksInv
  <1>4. /\ \A n : UnderBlock(n)' = UnderBlock(n)
        /\ \A n : In(n, blocks)' = In(n, blocks')
        /\ BlocksAre(blocks, i)' = BlocksAre(blocks', i')
        /\ BlocksAre(blocks, Len(lines) + 1)' = BlocksAre(blocks', Len(lines) + 1)
    BY <1>2, SameLines
  <1>5. CASE EndBlocks
    <2>1. i = Len(lines) /\ step' = "chunks" /\ blocks' = ClosedBy(i + 1)
      BY <1>5 DEF EndBlocks
    <2>2. AtBanner
      BY <2>1 DEF AtBanner
    <2>3. BlocksAre(blocks', i + 1) /\ \A n \in 1..i : UnderBlock(n) => In(n, blocks')
      BY <1>2, <2>1, <2>2, ClosedIs
    <2>4. QED BY <1>1, <1>2, <1>4, <2>1, <2>3 DEF BlocksInv
  <1>6. CASE ScanBlockStart \/ ScanBanner
    <2>1. /\ i < Len(lines) /\ i' = i + 1 /\ step' = step /\ blocks' = ClosedBy(i + 1)
          /\ lines[i + 1].kind \in Banners
          /\ lines[i + 1].kind = "block" => block_start' = i + 2
          /\ lines[i + 1].kind # "block" => block_start' = None
      BY <1>6 DEF ScanBlockStart, ScanBanner, Scans, Banners
    <2>2. AtBanner
      BY <2>1 DEF AtBanner
    <2>3. BlocksAre(blocks', i + 1) /\ \A n \in 1..i : UnderBlock(n) => In(n, blocks')
      BY <1>2, <2>1, <2>2, ClosedIs
    <2>4. ~UnderBlock(i + 1)
      <3>1. ASSUME NEW m \in LinesOf({"block"}), m < i + 1,
                   \A x \in m + 1..i + 1 : lines[x].kind \notin Banners
            PROVE  FALSE
        <4>1. m \in Nat
          BY <1>1, <3>1 DEF LinesOf
        <4>2. i + 1 \in m + 1..i + 1
          BY <1>1, <3>1, <4>1
        <4>3. QED BY <2>1, <3>1, <4>2
      <3>2. QED BY <3>1 DEF UnderBlock
    <2>5. \A n \in 1..i + 1 : UnderBlock(n) => In(n, blocks')
      BY <1>1, <2>3, <2>4
    <2>6. \A k \in DOMAIN blocks' : blocks'[k].last \in Nat /\ blocks'[k].last < i + 1
      BY <2>3 DEF BlocksAre
    <2>7. OpenIs'
      <3>1. CASE lines[i + 1].kind = "block"
        <4>1. block_start' = i + 2 /\ i' = i + 1 /\ block_start' # None
          BY <1>1, <2>1, <3>1, NoneAssumption
        <4>2. \A k \in DOMAIN blocks' : blocks'[k].last < i + 2
          BY <1>1, <2>6
        <4>3. QED BY <1>1, <1>2, <3>1, <4>1, <4>2 DEF OpenIs
      <3>2. CASE lines[i + 1].kind # "block"
        <4>1. block_start' = None /\ i' = i + 1
          BY <2>1, <3>2
        <4>2. \A m \in 1..i + 1 : lines[m].kind = "block" =>
                \E x \in m + 1..i + 1 : lines[x].kind \in Banners
          <5> SUFFICES ASSUME NEW m \in 1..i + 1, lines[m].kind = "block"
                       PROVE  \E x \in m + 1..i + 1 : lines[x].kind \in Banners
            OBVIOUS
          <5>1. i + 1 \in m + 1..i + 1
            BY <1>1, <3>2
          <5>2. QED BY <2>1, <5>1
        <4>3. QED BY <1>2, <4>1, <4>2 DEF OpenIs
      <3>3. QED BY <3>1, <3>2
    <2>8. QED BY <1>2, <1>4, <2>1, <2>3, <2>5, <2>7 DEF BlocksInv
  <1>7. CASE ScanLine
    <2>1. /\ i < Len(lines) /\ i' = i + 1 /\ step' = step /\ blocks' = blocks
          /\ block_start' = block_start /\ lines[i + 1].kind \notin Banners
      BY <1>7 DEF ScanLine, Scans
    <2>2. BlocksAre(blocks, i + 1)
      <3>1. \A k \in DOMAIN blocks : blocks[k].last \in Nat
        BY BlockBounds
      <3>2. QED BY <1>1, <1>3, <3>1 DEF BlocksAre
    <2>3. OpenIs'
      <3>1. CASE block_start # None
        BY <1>1, <1>2, <1>3, <2>1, <3>1 DEF OpenIs
      <3>2. CASE block_start = None
        BY <1>1, <1>2, <1>3, <2>1, <3>2 DEF OpenIs, Banners
      <3>3. QED BY <3>1, <3>2
    <2>4. UnderBlock(i + 1) => block_start # None /\ i + 1 >= block_start
      <3>1. ASSUME UnderBlock(i + 1), block_start = None
            PROVE  FALSE
        <4>1. PICK m \in LinesOf({"block"}) :
                m < i + 1 /\ \A x \in m + 1..i + 1 : lines[x].kind \notin Banners
          BY <3>1 DEF UnderBlock
        <4>2. m \in 1..i /\ lines[m].kind = "block"
          BY <1>1, <4>1 DEF LinesOf
        <4>3. PICK x \in m + 1..i : lines[x].kind \in Banners
          BY <1>3, <3>1, <4>2 DEF OpenIs
        <4>4. QED BY <1>1, <4>1, <4>2, <4>3
      <3>2. block_start # None => i + 1 >= block_start
        BY <1>1, <1>3 DEF OpenIs
      <3>3. QED BY <3>1, <3>2
    <2>5. \A n \in 1..i + 1 : UnderBlock(n) =>
            In(n, blocks) \/ (block_start # None /\ n >= block_start)
      BY <1>1, <1>3, <2>4
    <2>6. QED BY <1>2, <1>4, <2>1, <2>2, <2>3, <2>5 DEF BlocksInv
  <1>8. QED BY <1>5, <1>6, <1>7

(* The blocks, once found, are kept. *)
LEMMA BlocksNext ==
  ASSUME Typed, BlocksInv, [Next]_vars
  PROVE  BlocksInv'
  <1>1. CASE ScanBlockStart \/ ScanBanner \/ ScanLine \/ EndBlocks
    BY <1>1, BlocksScan
  <1>2. CASE lines' = lines /\ UNCHANGED blockVars
    <2>1. step' = step /\ i' = i /\ block_start' = block_start /\ blocks' = blocks /\ lines' = lines
      BY <1>2 DEF blockVars
    <2>2. /\ \A n : UnderBlock(n)' = UnderBlock(n)
          /\ \A n : In(n, blocks)' = In(n, blocks)
          /\ BlocksAre(blocks, i)' = BlocksAre(blocks, i)
          /\ BlocksAre(blocks, Len(lines) + 1)' = BlocksAre(blocks, Len(lines) + 1)
      BY <2>1, SameLines
    <2>3. OpenIs' = OpenIs
      BY <2>1 DEF OpenIs
    <2>4. QED BY <2>1, <2>2, <2>3 DEF BlocksInv
  <1>3. QED
    BY <1>1, <1>2
    DEF Next, PytestNext, JsNext, CompilerNext, PytestSkips, OpenChunk, ReadChunk, BuildDiagnostic,
        PytestReturns, JsSkips, ReadSuite, ReadBullet, ReadJsLine, EndBlock, JsReturns, JsRuns,
        CompilerSkips, ExtractTsc, ReadRow, PassOver, ReadBlank, ReadPath, CompilerReturns,
        EslintReads, CompilerRuns, Fallback, NoFallback, Returned, vars, pytestVars

(* The lines of a block are in no other. *)
LEMMA BlocksApart ==
  ASSUME Typed, BlocksInv, step = "chunks", NEW k \in DOMAIN blocks,
         NEW n \in blocks[k].first..blocks[k].last
  PROVE  BlockAt(n) = {k}
  <1>1. \A x \in DOMAIN blocks : x \in Nat /\ blocks[x].first \in Nat /\ blocks[x].last \in Nat
    BY BlockBounds
  <1>2. \A x, y \in DOMAIN blocks : x < y => blocks[x].last < blocks[y].first
    BY DEF BlocksInv, BlocksAre
  <1>3. k \in BlockAt(n)
    BY DEF BlockAt
  <1>4. ASSUME NEW x \in BlockAt(n)
        PROVE  x = k
    <2>1. x \in DOMAIN blocks /\ n \in blocks[x].first..blocks[x].last
      BY <1>4 DEF BlockAt
    <2>2. ~(x < k) /\ ~(k < x)
      BY <1>1, <1>2, <2>1
    <2>3. QED BY <1>1, <2>1, <2>2
  <1>5. QED BY <1>3, <1>4

(* The headlines that are read are those under the title of a block. *)
LEMMA SeparatorsAre ==
  ASSUME Typed, BlocksInv, step = "chunks"
  PROVE  Separators = {n \in LinesOf({"separator"}) : UnderBlock(n)}
  <1>1. ASSUME NEW n \in LinesOf({"separator"}), UnderBlock(n)
        PROVE  BlockAt(n) # {}
    BY <1>1 DEF BlocksInv, In, BlockAt, LinesOf
  <1>2. ASSUME NEW n \in LinesOf({"separator"}), BlockAt(n) # {}
        PROVE  UnderBlock(n)
    BY <1>2 DEF BlocksInv, BlocksAre, BlockIs, BlockAt
  <1>3. QED BY <1>1, <1>2 DEF Separators

(* A chunk reaches from its headline to the next headline, the next banner  *)
(* or the end of the log.                                                   *)
LEMMA ChunkLines ==
  ASSUME Typed, BlocksInv, step = "chunks", NEW n \in Separators
  PROVE  LET last == ChunkFrom(n).last
         IN  /\ \A m \in n + 1..last : lines[m].kind \notin Banners \cup {"separator"}
             /\ last = Len(lines) \/ lines[last + 1].kind \in Banners \cup {"separator"}
             /\ last \in Nat /\ n <= last /\ last <= Len(lines)
  <1> DEFINE last == ChunkFrom(n).last
  <1>1. /\ n \in DOMAIN lines /\ ChunkFrom(n) \in [first : Nat, last : Nat]
        /\ n <= last /\ last <= Len(lines)
        /\ \E k \in BlockAt(n) :
              /\ k \in DOMAIN blocks /\ blocks[k].first <= n
              /\ last <= blocks[k].last
              /\ last = blocks[k].last \/ last + 1 \in Separators
        /\ \A m \in Separators : m > n /\ m <= last => BlockAt(m) # BlockAt(n)
    BY ChunkBounds
  <1>2. n \in Nat /\ last \in Nat /\ Len(lines) \in Nat /\ DOMAIN lines = 1..Len(lines)
    BY <1>1, LogIs
  <1> HIDE DEF last
  <1>3. PICK k \in BlockAt(n) :
              /\ k \in DOMAIN blocks /\ blocks[k].first <= n
              /\ last <= blocks[k].last
              /\ last = blocks[k].last \/ last + 1 \in Separators
    BY <1>1
  <1>4. blocks[k].first \in Nat /\ blocks[k].last \in Nat /\ BlockIs(blocks[k])
    BY <1>3, BlockBounds DEF BlocksInv, BlocksAre
  <1>5. ASSUME NEW m \in n + 1..last
        PROVE  lines[m].kind \notin Banners \cup {"separator"}
    <2>1. m \in blocks[k].first..blocks[k].last /\ n \in blocks[k].first..blocks[k].last
      BY <1>2, <1>3, <1>4, <1>5
    <2>2. lines[m].kind \notin Banners
      BY <1>4, <2>1 DEF BlockIs
    <2>3. BlockAt(m) = {k} /\ BlockAt(n) = {k}
      BY <1>3, <2>1, BlocksApart
    <2>4. m \notin Separators
      BY <1>1, <1>2, <1>5, <2>3
    <2>5. m \in DOMAIN lines
      BY <1>1, <1>2, <1>5
    <2>6. lines[m].kind # "separator"
      BY <2>3, <2>4, <2>5 DEF Separators, LinesOf
    <2>7. QED BY <2>2, <2>6
  <1>6. last = Len(lines) \/ lines[last + 1].kind \in Banners \cup {"separator"}
    BY <1>3, <1>4 DEF BlockIs, Separators, LinesOf
  <1>7. QED BY <1>1, <1>2, <1>5, <1>6 DEF last

-----------------------------------------------------------------------------
(* A traceback, as far as it has been read. *)

(* The exceptions that begin up to a line, and up to the next. *)
LEMMA RunStartsNext ==
  ASSUME NEW first \in Nat, NEW n \in Nat, first <= n
  PROVE  RunStarts(first, n) =
           RunStarts(first, n - 1)
             \cup (IF lines[n].kind = "E" /\ (n = first \/ lines[n - 1].kind # "E") THEN {n} ELSE {})
  <1>1. first..n = (first..n - 1) \cup {n}
    OBVIOUS
  <1>2. QED BY <1>1 DEF RunStarts

(* The trace follows the lines of the chunk. *)
LEMMA TraceNext ==
  ASSUME Typed, TraceIs, [Next]_vars
  PROVE  TraceIs'
  <1>1. CASE OpenChunk
    <2> DEFINE n == Min(Unread)
               c == ChunkFrom(n)
    <2>1. Unread \in SUBSET Nat /\ Unread # {}
      BY <1>1, LogIs DEF OpenChunk, Unread, Separators, LinesOf
    <2>2. n \in Separators
      BY <2>1, MinIs DEF Unread
    <2>3. c \in [first : Nat, last : Nat]
      BY <2>2, ChunkBounds
    <2>4. /\ lines' = lines /\ chunk' = c /\ at' = c.first
          /\ frames' = {} /\ raised' = None /\ in_exception_run' = FALSE
      BY <1>1 DEF OpenChunk, StartTrace
    <2> HIDE DEF n, c
    <2>5. c.first..c.first - 1 = {} /\ ~(c.first > c.first)
      BY <2>3
    <2>6. QED BY <2>4, <2>5 DEF TraceIs, RunStarts
  <1>2. CASE ReadChunk
    <2>1. chunk # None /\ chunk' = chunk /\ at' = at + 1 /\ lines' = lines /\ at <= chunk.last
          /\ ReadTrace
      BY <1>2 DEF ReadChunk, ReadTrace, ReadFrame, ReadException, ReadOther, Reads
    <2> DEFINE first == chunk.first
    <2>2. first \in Nat /\ at \in Nat /\ first <= at /\ chunk.last \in Nat
      BY <2>1 DEF Typed, TypeOK, PytestTypeOK, TraceTypeOK
    <2>3. /\ frames = {n \in first..at - 1 : lines[n].kind = "frame"}
          /\ in_exception_run <=> at > first /\ lines[at - 1].kind = "E"
          /\ raised = None => RunStarts(first, at - 1) = {}
          /\ raised # None =>
               /\ raised \in RunStarts(first, at - 1)
               /\ \A n \in RunStarts(first, at - 1) : n <= raised
      BY <2>1 DEF TraceIs
    <2>4. RunStarts(first, at) =
            RunStarts(first, at - 1)
              \cup (IF lines[at].kind = "E" /\ (at = first \/ lines[at - 1].kind # "E") THEN {at} ELSE {})
      BY <2>2, RunStartsNext
    <2>5. \A n \in RunStarts(first, at - 1) : n \in Nat /\ n < at
      BY <2>2 DEF RunStarts
    <2>6. first..at = (first..at - 1) \cup {at} /\ at \in Nat /\ at # None
      BY <2>2, NoneAssumption
    <2> DEFINE starts == RunStarts(first, at - 1)
               now == RunStarts(first, at)
    <2>7. SUFFICES /\ frames' = {n \in first..at : lines[n].kind = "frame"}
                   /\ in_exception_run' <=> lines[at].kind = "E"
                   /\ raised' = None => now = {}
                   /\ raised' # None => raised' \in now /\ \A n \in now : n <= raised'
      <3>1. at' - 1 = at /\ at' > first
        BY <2>1, <2>2
      <3>2. RunStarts(first, at)' = RunStarts(first, at')
        BY <2>1 DEF RunStarts
      <3>3. \A x : RunStarts(first, x)' = RunStarts(first, x)
        BY <2>1 DEF RunStarts
      <3>4. QED BY <2>1, <3>1 DEF TraceIs, RunStarts
    <2>8. CASE ReadFrame
      <3>1. /\ lines[at].kind = "frame" /\ frames' = frames \cup {at}
            /\ in_exception_run' = FALSE /\ raised' = raised
        BY <2>8 DEF ReadFrame, Reads
      <3>2. now = starts
        BY <2>4, <3>1
      <3>3. frames' = {n \in first..at : lines[n].kind = "frame"}
        BY <2>3, <2>6, <3>1
      <3>4. QED BY <2>3, <3>1, <3>2, <3>3
    <2>9. CASE ReadOther
      <3>1. /\ lines[at].kind \notin {"frame", "E"} /\ frames' = frames
            /\ in_exception_run' = FALSE /\ raised' = raised
        BY <2>9 DEF ReadOther, Reads
      <3>2. now = starts
        BY <2>4, <3>1
      <3>3. frames' = {n \in first..at : lines[n].kind = "frame"}
        BY <2>3, <2>6, <3>1
      <3>4. QED BY <2>3, <3>1, <3>2, <3>3
    <2>10. CASE ReadException
      <3>1. /\ lines[at].kind = "E" /\ frames' = frames /\ in_exception_run' = TRUE
            /\ raised' = IF in_exception_run THEN raised ELSE at
        BY <2>10 DEF ReadException, Reads
      <3>2. frames' = {n \in first..at : lines[n].kind = "frame"}
        BY <2>3, <2>6, <3>1
      <3>3. CASE in_exception_run
        <4>1. now = starts /\ raised' = raised
          BY <2>2, <2>3, <2>4, <3>1, <3>3
        <4>2. QED BY <2>3, <3>1, <3>2, <4>1
      <3>4. CASE ~in_exception_run
        <4>1. now = starts \cup {at} /\ raised' = at
          BY <2>2, <2>3, <2>4, <3>1, <3>4
        <4>2. \A n \in starts \cup {at} : n <= at
          BY <2>2, <2>5
        <4>3. QED BY <2>6, <3>1, <3>2, <4>1, <4>2
      <3>5. QED BY <3>3, <3>4
    <2>11. QED BY <2>1, <2>8, <2>9, <2>10 DEF ReadTrace
  <1>3. CASE chunk' = None
    BY <1>3 DEF TraceIs
  <1>4. CASE lines' = lines /\ UNCHANGED traceVars
    BY <1>4 DEF TraceIs, traceVars, RunStarts
  <1>5. QED
    BY <1>1, <1>2, <1>3, <1>4
    DEF Next, PytestNext, JsNext, CompilerNext, PytestSkips, ScanBlockStart, ScanBanner, ScanLine,
        EndBlocks, Scans, BuildDiagnostic, PytestReturns, JsSkips, ReadSuite, ReadBullet, ReadJsLine,
        EndBlock, JsReturns, JsRuns, CompilerSkips, ExtractTsc, ReadRow, PassOver, ReadBlank,
        ReadPath, CompilerReturns, EslintReads, CompilerRuns, Fallback, NoFallback, Returned, vars,
        pytestVars

-----------------------------------------------------------------------------
(* What is reported of the headlines. *)

(* The lines up to which every headline has its diagnostic. *)
Frontier == IF chunk # None THEN chunk.first - 1 ELSE at

FramesIn(n) == {m \in n..ChunkFrom(n).last : lines[m].kind = "frame"}

(* The exception of a chunk is the one that begins last in it. *)
ExceptionIs(e, n) ==
  LET starts == RunStarts(n, ChunkFrom(n).last)
  IN  IF starts = {} THEN e = None ELSE e \in starts /\ \A m \in starts : m <= e

(* A diagnostic says of its headline what the chunk and the tables say. *)
SaysOf(d) ==
  LET n == d.start
  IN  /\ n \in Separators
      /\ d.test_id = TestId(n) /\ d.outcome = Outcome(n)
      /\ d.message = IF ShortMessage(TestId(n)) # None THEN ShortMessage(TestId(n)) ELSE d.exception
      /\ ExceptionIs(d.exception, n)
      /\ d.located = PrimaryFrame(FramesIn(n))
      /\ d.evidence = (n..ChunkFrom(n).last) \cup ({ProgressLine(TestId(n))} \ {None})

(* Every headline read has one diagnostic, which says what its chunk says.  *)
ReportsInv ==
  /\ step = "blocks" => PytestFailures = {} /\ at = 0 /\ chunk = None
  /\ turn # "pytest" => IF step = "chunks" THEN Unread = {} ELSE ~PytestDetects
  /\ \A k \in PytestFailures : SaysOf(diagnostics[k]) /\ diagnostics[k].start <= Frontier
  /\ step = "chunks" =>
       \A n \in Separators : n <= Frontier => \E k \in PytestFailures : diagnostics[k].start = n
  /\ \A k, m \in PytestFailures : diagnostics[k].start = diagnostics[m].start => k = m

(* A chunk that has been read is built into what it says. *)
LEMMA BuiltSays ==
  ASSUME Typed, TraceIs, TraceRead
  PROVE  SaysOf(Built(chunk.first)) /\ Built(chunk.first).start = chunk.first
  <1> DEFINE n == chunk.first
             last == ChunkFrom(n).last
  <1>1. chunk # None /\ at > chunk.last
    BY DEF TraceRead
  <1>2. /\ chunk \in [first : Nat, last : Nat] /\ at \in chunk.first .. chunk.last + 1
        /\ raised \in DOMAIN lines \cup {None}
    BY <1>1 DEF Typed, TypeOK, PytestTypeOK, TraceTypeOK
  <1>3. n \in Separators /\ chunk.last = last
    BY <1>1 DEF Typed, ChunkIs
  <1>4. at - 1 = chunk.last
    BY <1>1, <1>2
  <1>5. frames = FramesIn(n)
    BY <1>1, <1>3, <1>4 DEF TraceIs, FramesIn
  <1>6. ExceptionIs(raised, n)
    <2> DEFINE starts == RunStarts(n, last)
    <2>1. /\ raised = None => starts = {}
          /\ raised # None => raised \in starts /\ \A m \in starts : m <= raised
      BY <1>1, <1>3, <1>4 DEF TraceIs
    <2> HIDE DEF starts
    <2>2. IF starts = {} THEN raised = None ELSE raised \in starts /\ \A m \in starts : m <= raised
      BY <2>1
    <2>3. QED BY <2>2 DEF ExceptionIs, starts
  <1> DEFINE d == Built(n)
  <1>7. /\ d.start = n /\ d.test_id = TestId(n) /\ d.outcome = Outcome(n)
        /\ d.message = IF ShortMessage(TestId(n)) # None THEN ShortMessage(TestId(n)) ELSE raised
        /\ d.exception = raised /\ d.located = PrimaryFrame(frames)
        /\ d.evidence = (n .. chunk.last) \cup ({ProgressLine(TestId(n))} \ {None})
    BY <1>1, BuiltIs
  <1> HIDE DEF d, n
  <1>8. SaysOf(d)
    BY <1>3, <1>5, <1>6, <1>7 DEF SaysOf
  <1>9. QED BY <1>7, <1>8 DEF d, n

(* What a chunk and the tables say does not change once they are found. *)
LEMMA SameStory ==
  ASSUME lines' = lines, UNCHANGED blockVars
  PROVE  /\ Separators' = Separators
         /\ \A d : SaysOf(d)' = SaysOf(d)
  <1>1. blocks' = blocks /\ short_summary_start' = short_summary_start
    BY DEF blockVars
  <1>2. Separators' = Separators /\ \A n : ChunkFrom(n)' = ChunkFrom(n)
    BY <1>1, SameChunks
  <1>3. \A n : TestId(n)' = TestId(n)
    BY <1>1 DEF TestId, Matching, ShortSummary, Progress, LinesOf, Name, Headline, BareName
  <1>4. \A t : ProgressLine(t)' = ProgressLine(t) /\ ShortMessage(t)' = ShortMessage(t)
    BY <1>1 DEF ProgressLine, ShortMessage, Entries, ShortSummary, Progress, LinesOf
  <1>5. \A n : Outcome(n)' = Outcome(n)
    BY <1>3, <1>4 DEF Outcome
  <1>6. \A n : FramesIn(n)' = FramesIn(n)
    BY <1>2 DEF FramesIn
  <1>7. \A S : PrimaryFrame(S)' = PrimaryFrame(S)
    BY DEF PrimaryFrame, InProject
  <1>8. \A e, n : ExceptionIs(e, n)' = ExceptionIs(e, n)
    BY <1>2 DEF ExceptionIs, RunStarts
  <1>9. QED BY <1>2, <1>3, <1>4, <1>5, <1>6, <1>7, <1>8 DEF SaysOf

(* The diagnostics of a type and a parser that a step adds. *)
LEMMA ReportsAdd ==
  ASSUME Typed, NEW s \in Seq(Diagnostic), Adds(s), NEW type, NEW parser
  PROVE  LET new == {k \in DOMAIN diagnostics' \ DOMAIN diagnostics :
                       /\ s[k - Len(diagnostics)].type = type
                       /\ s[k - Len(diagnostics)].parser = parser}
         IN  /\ Reports(type, parser)' = Reports(type, parser) \cup new
             /\ \A k \in new : /\ k - Len(diagnostics) \in DOMAIN s /\ k \notin DOMAIN diagnostics
                               /\ diagnostics'[k] = s[k - Len(diagnostics)]
             /\ \A k \in Reports(type, parser) :
                  k \in DOMAIN diagnostics /\ diagnostics'[k] = diagnostics[k]
  <1> DEFINE new == {k \in DOMAIN diagnostics' \ DOMAIN diagnostics :
                       /\ s[k - Len(diagnostics)].type = type
                       /\ s[k - Len(diagnostics)].parser = parser}
  <1>1. /\ Len(diagnostics) \in Nat /\ Len(s) \in Nat
        /\ DOMAIN diagnostics = 1..Len(diagnostics)
        /\ DOMAIN diagnostics' = 1..Len(diagnostics) + Len(s)
        /\ \A k \in DOMAIN diagnostics : diagnostics'[k] = diagnostics[k]
        /\ \A k \in DOMAIN diagnostics' : k \notin DOMAIN diagnostics =>
              /\ k - Len(diagnostics) \in DOMAIN s
              /\ diagnostics'[k] = s[k - Len(diagnostics)]
    BY PositionsAre
  <1>2. DOMAIN diagnostics \subseteq DOMAIN diagnostics'
    BY <1>1
  <1>3. Reports(type, parser)' =
          {k \in DOMAIN diagnostics' : diagnostics'[k].type = type /\ diagnostics'[k].parser = parser}
    BY DEF Reports
  <1>4. Reports(type, parser)' = Reports(type, parser) \cup new
    BY <1>1, <1>2, <1>3 DEF Reports
  <1>5. QED BY <1>1, <1>4 DEF Reports

(* Only the step that has read a chunk adds a test that failed under pytest. *)
LEMMA FailuresAdd ==
  ASSUME Typed, [Next]_vars
  PROVE  /\ \A k \in PytestFailures : k \in DOMAIN diagnostics /\ diagnostics'[k] = diagnostics[k]
         /\ \/ PytestFailures' = PytestFailures /\ ~BuildDiagnostic
            \/ /\ BuildDiagnostic
               /\ \E new : /\ PytestFailures' = PytestFailures \cup {new}
                           /\ new \notin PytestFailures
                           /\ diagnostics'[new] = Built(chunk.first)
  <1>1. PICK s \in Seq(Diagnostic) : Adds(s) /\ AddsTest(s)
    BY StepAdds
  <1> DEFINE new == {k \in DOMAIN diagnostics' \ DOMAIN diagnostics :
                       /\ s[k - Len(diagnostics)].type = "TEST_FAILURE"
                       /\ s[k - Len(diagnostics)].parser = "pytest"}
  <1>2. /\ PytestFailures' = PytestFailures \cup new
        /\ \A k \in new : /\ k - Len(diagnostics) \in DOMAIN s /\ k \notin DOMAIN diagnostics
                          /\ diagnostics'[k] = s[k - Len(diagnostics)]
        /\ \A k \in PytestFailures : k \in DOMAIN diagnostics /\ diagnostics'[k] = diagnostics[k]
    BY <1>1, ReportsAdd DEF PytestFailures
  <1>3. CASE new = {}
    <2>1. ASSUME BuildDiagnostic
          PROVE  FALSE
      <3> DEFINE d == Built(chunk.first)
                 last == Len(diagnostics) + 1
      <3>1. diagnostics' = Append(diagnostics, d) /\ chunk # None
        BY <2>1 DEF BuildDiagnostic, TraceRead
      <3>2. d \in Diagnostic /\ d.type = "TEST_FAILURE" /\ d.parser = "pytest"
        BY <3>1, BuiltIs
      <3>3. diagnostics \in Seq(Diagnostic)
        BY DEF Typed, TypeOK
      <3> HIDE DEF d
      <3>4. /\ Append(diagnostics, d) \in Seq(Diagnostic) /\ Append(diagnostics, d)[last] = d
            /\ Len(Append(diagnostics, d)) = last
        BY <3>2, <3>3, AppendProperties
      <3>5. Len(diagnostics) \in Nat /\ DOMAIN diagnostics = 1..Len(diagnostics)
            /\ DOMAIN Append(diagnostics, d) = 1..last
        BY <3>3, <3>4, LenProperties
      <3>6. last \in DOMAIN diagnostics' /\ diagnostics'[last] = d /\ last \notin DOMAIN diagnostics
        BY <3>1, <3>4, <3>5
      <3>7. last \in PytestFailures'
        BY <3>2, <3>6 DEF PytestFailures, Reports
      <3>8. QED BY <1>2, <1>3, <3>6, <3>7
    <2>2. QED BY <1>2, <1>3, <2>1
  <1>4. CASE new # {}
    <2>1. PICK k \in new : TRUE
      BY <1>4
    <2>2. /\ k - Len(diagnostics) \in DOMAIN s /\ s[k - Len(diagnostics)].type = "TEST_FAILURE"
          /\ s[k - Len(diagnostics)].parser = "pytest"
      BY <1>2, <2>1
    <2>3. \/ BuildDiagnostic /\ s = <<Built(chunk.first)>>
          \/ EndBlock /\ s = <<JsBuilt(bullet..j)>>
      BY <1>1, <2>2 DEF AddsTest
    <2>4. DOMAIN s = {1}
      BY <2>3
    <2>5. ~(EndBlock /\ s = <<JsBuilt(bullet..j)>>)
      <3>1. ASSUME EndBlock, s = <<JsBuilt(bullet..j)>>
            PROVE  FALSE
        <4>1. s[1].parser = "js_test"
          BY <3>1, JsBuiltIs DEF EndBlock
        <4>2. QED BY <2>2, <2>4, <4>1
      <3>2. QED BY <3>1
    <2>6. BuildDiagnostic /\ s = <<Built(chunk.first)>>
      BY <2>3, <2>5
    <2>7. \A m \in new : m - Len(diagnostics) = 1 /\ diagnostics'[m] = Built(chunk.first)
      BY <1>2, <2>4, <2>6
    <2>8. Len(diagnostics) \in Nat /\ DOMAIN diagnostics' \subseteq Nat
      BY <1>1, PositionsAre
    <2>9. new = {k}
      BY <2>1, <2>7, <2>8
    <2>10. k \notin PytestFailures
      BY <1>2, <2>1
    <2>11. QED BY <1>2, <2>1, <2>6, <2>7, <2>9, <2>10
  <1>5. QED BY <1>3, <1>4

(* pytest's parser does not have its turn again. *)
LEMMA PytestFirst ==
  ASSUME Typed, [Next]_vars, turn # "pytest"
  PROVE  turn' # "pytest" /\ UNCHANGED <<lines, pytestVars>>
  <1>1. ~PytestNext
    BY DEF PytestNext, PytestSkips, ScanBlockStart, ScanBanner, ScanLine, EndBlocks, Scans, OpenChunk,
           ReadChunk, BuildDiagnostic, PytestReturns
  <1>2. UNCHANGED <<lines, pytestVars>>
    BY <1>1 DEF Next, JsNext, CompilerNext, JsSkips, ReadSuite, ReadBullet, ReadJsLine,
        EndBlock, JsReturns, JsRuns, CompilerSkips, ExtractTsc, ReadRow, PassOver, ReadBlank,
        ReadPath, CompilerReturns, EslintReads, CompilerRuns, Fallback, NoFallback, Returned, vars
  <1>3. turn' \in {turn, TurnAfter("js_test"), TurnAfter("compiler"), TurnAfter("generic")}
    BY <1>1 DEF Next, JsNext, CompilerNext, JsSkips, ReadSuite, ReadBullet, ReadJsLine,
        EndBlock, JsReturns, JsRuns, CompilerSkips, ExtractTsc, ReadRow, PassOver, ReadBlank,
        ReadPath, CompilerReturns, EslintReads, CompilerRuns, Fallback, NoFallback, Returned, vars
  <1>4. turn' # "pytest"
    BY <1>3, TurnsAre
  <1>5. QED BY <1>2, <1>4

PytestInv == Typed /\ TraceIs /\ BlocksInv /\ ReportsInv

(* Every step keeps what is reported. *)
LEMMA ReportsNext ==
  ASSUME PytestInv, [Next]_vars
  PROVE  ReportsInv'
  <1>1. Typed /\ TraceIs /\ BlocksInv /\ ReportsInv
    BY DEF PytestInv
  <1>2. \A k \in PytestFailures : k \in DOMAIN diagnostics /\ diagnostics'[k] = diagnostics[k]
    BY <1>1, FailuresAdd
  <1>3. Separators \in SUBSET Nat
    BY <1>1, LogIs DEF Separators, LinesOf
  <1>4. ASSUME PytestFailures' = PytestFailures, lines' = lines, UNCHANGED blockVars,
               Frontier' = Frontier, turn' # "pytest" => turn # "pytest" /\ at' = at,
               step = "blocks" => at' = at /\ chunk' = chunk
        PROVE  ReportsInv'
    <2>1. step' = step /\ Separators' = Separators /\ \A d : SaysOf(d)' = SaysOf(d)
      BY <1>4, SameStory DEF blockVars
    <2>2. PytestDetects' = PytestDetects
      BY <1>4, SameChunks
    <2>3. turn' # "pytest" => Unread' = Unread
      BY <1>4, <2>1 DEF Unread
    <2>4. \A k \in PytestFailures : SaysOf(diagnostics[k])' /\ diagnostics'[k].start <= Frontier
      BY <1>1, <1>2, <2>1 DEF ReportsInv
    <2>5. QED BY <1>1, <1>2, <1>4, <2>1, <2>2, <2>3, <2>4 DEF ReportsInv
  <1>5. CASE turn # "pytest"
    <2>1. turn' # "pytest" /\ UNCHANGED <<lines, pytestVars>>
      BY <1>1, <1>5, PytestFirst
    <2>2. PytestFailures' = PytestFailures
      BY <1>1, <1>5, FailuresAdd DEF BuildDiagnostic
    <2>3. QED BY <1>4, <1>5, <2>1, <2>2 DEF pytestVars, traceVars, Frontier
  <1>6. CASE turn = "pytest" /\ ~BuildDiagnostic
    <2>1. PytestFailures' = PytestFailures
      BY <1>1, <1>6, FailuresAdd
    <2>2. CASE PytestSkips
      <3>1. step = "blocks" /\ ~PytestDetects /\ lines' = lines /\ UNCHANGED pytestVars
        BY <1>1, <2>2 DEF PytestSkips, Typed, ChunkIs, TypeOK, PytestTypeOK
      <3>2. step' = step /\ at' = at /\ chunk' = chunk /\ PytestDetects' = PytestDetects
        BY <3>1, SameChunks DEF pytestVars, blockVars, traceVars
      <3>3. QED BY <1>1, <2>1, <3>1, <3>2 DEF ReportsInv
    <2>3. CASE ScanBlockStart \/ ScanBanner \/ ScanLine
      <3>1. step = "blocks" /\ step' = step /\ at' = at /\ chunk' = chunk /\ turn' = "pytest"
        BY <1>6, <2>3 DEF ScanBlockStart, ScanBanner, ScanLine, Scans, traceVars
      <3>2. QED BY <1>1, <2>1, <3>1 DEF ReportsInv
    <2>4. CASE EndBlocks
      <3>1. step = "blocks" /\ step' = "chunks" /\ at' = at /\ chunk' = chunk /\ turn' = "pytest"
            /\ lines' = lines
        BY <1>6, <2>4 DEF EndBlocks, traceVars
      <3>2. at' = 0 /\ chunk' = None /\ PytestFailures' = {}
        BY <1>1, <2>1, <3>1 DEF ReportsInv
      <3>3. \A n \in Separators' : n \in Nat /\ ~(n <= 0)
        <4>1. DOMAIN lines = 1..Len(lines) /\ Len(lines) \in Nat
          BY <1>1, LogIs
        <4>2. Separators' \subseteq DOMAIN lines
          BY <3>1 DEF Separators, LinesOf
        <4>3. QED BY <4>1, <4>2
      <3>4. Frontier' = 0
        BY <3>2 DEF Frontier
      <3>5. QED BY <3>1, <3>2, <3>3, <3>4 DEF ReportsInv
    <2>5. CASE OpenChunk
      <3> DEFINE n == Min(Unread)
      <3>1. Unread \in SUBSET Nat /\ Unread # {} /\ chunk = None /\ at \in Nat
        BY <1>1, <1>3, <2>5
        DEF OpenChunk, Unread, Typed, TypeOK, PytestTypeOK, TraceTypeOK
      <3>2. n \in Unread /\ \A m \in Unread : n <= m
        BY <3>1, MinIs
      <3>3. n \in Separators /\ n \in Nat /\ n > at
        BY <1>3, <3>2 DEF Unread
      <3>4. ChunkFrom(n) \in [first : Nat, last : Nat] /\ ChunkFrom(n).first = n
        BY <1>1, <3>3, ChunkBounds
      <3>5. /\ lines' = lines /\ UNCHANGED blockVars /\ step = "chunks" /\ turn' = turn
            /\ chunk' = ChunkFrom(n)
        BY <2>5 DEF OpenChunk, StartTrace
      <3> HIDE DEF n
      <3>6. chunk' # None
        BY <3>4, <3>5, NoneAssumption
      <3>7. Frontier = at /\ Frontier' = n - 1
        BY <3>1, <3>4, <3>5, <3>6 DEF Frontier
      <3>8. step' = step /\ Separators' = Separators /\ \A d : SaysOf(d)' = SaysOf(d)
        BY <3>5, SameStory DEF blockVars
      <3>9. ASSUME NEW k \in PytestFailures
            PROVE  SaysOf(diagnostics[k])' /\ diagnostics'[k].start <= n - 1
        <4>1. SaysOf(diagnostics[k]) /\ diagnostics[k].start <= at /\ diagnostics'[k] = diagnostics[k]
          BY <1>1, <1>2, <3>7, <3>9 DEF ReportsInv
        <4>2. diagnostics[k].start \in Nat
          BY <1>3, <4>1 DEF SaysOf
        <4>3. QED BY <3>1, <3>3, <3>8, <4>1, <4>2
      <3>10. ASSUME NEW m \in Separators, m <= n - 1
             PROVE  \E k \in PytestFailures : diagnostics'[k].start = m
        <4>1. m \in Nat /\ m \notin Unread
          BY <1>3, <3>2, <3>3, <3>10
        <4>2. m <= at
          BY <3>1, <4>1 DEF Unread
        <4>3. QED BY <1>1, <1>2, <3>5, <3>7, <4>2 DEF ReportsInv
      <3>11. QED
        BY <1>1, <1>2, <1>6, <2>1, <3>5, <3>7, <3>8, <3>9, <3>10 DEF ReportsInv
    <2>6. CASE ReadChunk
      <3>1. /\ lines' = lines /\ UNCHANGED blockVars /\ turn' = "pytest"
            /\ chunk # None /\ chunk' = chunk
        BY <1>6, <2>6 DEF ReadChunk, ReadTrace, ReadFrame, ReadException, ReadOther, Reads
      <3>2. step # "blocks"
        BY <1>1, <3>1 DEF Typed, ChunkIs
      <3>3. QED BY <1>4, <2>1, <3>1, <3>2 DEF Frontier
    <2>7. CASE PytestReturns
      <3>1. /\ lines' = lines /\ UNCHANGED pytestVars /\ step = "chunks" /\ Unread = {}
            /\ turn' = "js_test"
        BY <2>7, TurnsAre DEF PytestReturns
      <3>2. UNCHANGED blockVars /\ at' = at /\ chunk' = chunk /\ Frontier' = Frontier
        BY <3>1 DEF pytestVars, traceVars, Frontier
      <3>3. step' = step /\ Separators' = Separators /\ \A d : SaysOf(d)' = SaysOf(d)
        BY <3>1, <3>2, SameStory DEF blockVars
      <3>4. Unread' = {}
        BY <3>1, <3>2, <3>3 DEF Unread
      <3>5. \A k \in PytestFailures : SaysOf(diagnostics[k])' /\ diagnostics'[k].start <= Frontier
        BY <1>1, <1>2, <3>3 DEF ReportsInv
      <3>6. QED BY <1>1, <1>2, <2>1, <3>1, <3>2, <3>3, <3>4, <3>5 DEF ReportsInv
    <2>8. CASE UNCHANGED vars
      BY <1>4, <2>1, <2>8 DEF vars, pytestVars, traceVars, Frontier
    <2>9. QED
      BY <1>6, <2>2, <2>3, <2>4, <2>5, <2>6, <2>7, <2>8
      DEF Next, PytestNext, JsNext, CompilerNext, JsSkips, ReadSuite, ReadBullet, ReadJsLine,
          EndBlock, JsReturns, JsRuns, CompilerSkips, ExtractTsc, ReadRow, PassOver, ReadBlank,
          ReadPath, CompilerReturns, EslintReads, CompilerRuns, Fallback, NoFallback, Returned
  <1>7. CASE BuildDiagnostic
    <2> DEFINE n == chunk.first
               d == Built(n)
    <2>1. /\ turn = "pytest" /\ turn' = turn /\ TraceRead /\ chunk # None /\ chunk' = None
          /\ at' = chunk.last /\ lines' = lines /\ UNCHANGED blockVars
      BY <1>7 DEF BuildDiagnostic, TraceRead
    <2>2. step = "chunks" /\ n \in Separators /\ chunk = ChunkFrom(n)
      BY <1>1, <2>1 DEF Typed, ChunkIs
    <2>3. SaysOf(d) /\ d.start = n
      BY <1>1, <2>1, BuiltSays
    <2>4. PICK new : /\ PytestFailures' = PytestFailures \cup {new}
                     /\ new \notin PytestFailures /\ diagnostics'[new] = d
      BY <1>1, <1>7, FailuresAdd
    <2>5. n \in Nat /\ chunk.last \in Nat /\ n <= chunk.last
          /\ \A m \in n + 1..chunk.last : lines[m].kind # "separator"
      BY <1>1, <1>3, <2>2, ChunkLines
    <2>6. step' = step /\ Separators' = Separators /\ \A x : SaysOf(x)' = SaysOf(x)
      BY <2>1, SameStory DEF blockVars
    <2> DEFINE last == chunk.last
    <2>7. Frontier = n - 1 /\ Frontier' = last
      BY <2>1 DEF Frontier
    <2> HIDE DEF d, n, last
    <2>8. ASSUME NEW k \in PytestFailures
          PROVE  /\ SaysOf(diagnostics'[k]) /\ diagnostics'[k] = diagnostics[k]
                 /\ diagnostics[k].start \in Nat /\ diagnostics[k].start < n
      <3>1. SaysOf(diagnostics[k]) /\ diagnostics[k].start <= n - 1 /\ diagnostics'[k] = diagnostics[k]
        BY <1>1, <1>2, <2>7, <2>8 DEF ReportsInv
      <3>2. diagnostics[k].start \in Nat
        BY <1>3, <3>1 DEF SaysOf
      <3>3. QED BY <2>5, <3>1, <3>2 DEF n
    <2>9. n \in Nat /\ last \in Nat /\ n <= last
      BY <2>5 DEF n, last
    <2>10. \A k \in PytestFailures' : SaysOf(diagnostics'[k]) /\ diagnostics'[k].start <= last
      BY <2>3, <2>4, <2>8, <2>9
    <2>11. ASSUME NEW m \in Separators, m <= last
           PROVE  \E k \in PytestFailures' : diagnostics'[k].start = m
      <3>1. CASE m <= n - 1
        BY <1>1, <2>2, <2>4, <2>7, <2>8, <3>1 DEF ReportsInv
      <3>2. CASE m = n
        BY <2>3, <2>4, <3>2
      <3>3. CASE m \in n + 1..last
        BY <2>5, <3>3 DEF Separators, LinesOf, n, last
      <3>4. m \in Nat
        BY <1>3, <2>11
      <3>5. QED BY <2>9, <2>11, <3>1, <3>2, <3>3, <3>4
    <2>12. ASSUME NEW k \in PytestFailures', NEW m \in PytestFailures',
                  diagnostics'[k].start = diagnostics'[m].start
           PROVE  k = m
      <3>1. CASE k \in PytestFailures /\ m \in PytestFailures
        BY <1>1, <2>8, <2>12, <3>1 DEF ReportsInv
      <3>2. CASE k = new /\ m \in PytestFailures
        BY <2>3, <2>4, <2>8, <2>9, <2>12, <3>2
      <3>3. CASE k \in PytestFailures /\ m = new
        BY <2>3, <2>4, <2>8, <2>9, <2>12, <3>3
      <3>4. QED BY <2>4, <3>1, <3>2, <3>3
    <2>13. QED BY <2>1, <2>2, <2>6, <2>7, <2>10, <2>11, <2>12 DEF ReportsInv
  <1>8. QED BY <1>5, <1>6, <1>7

(* The invariant of pytest's parser. *)
THEOREM PytestInvariant == Spec => []PytestInv
  <1>1. Init => PytestInv
    <2> SUFFICES ASSUME Init PROVE PytestInv
      OBVIOUS
    <2>1. Typed
      BY TypedInit
    <2>2. /\ turn = "pytest" /\ diagnostics = << >> /\ chunk = None /\ at = 0 /\ step = "blocks"
          /\ i = 0 /\ block_start = None /\ blocks = << >>
      BY TurnsAre DEF Init, PytestInit, NoTrace
    <2>3. TraceIs
      BY <2>2 DEF TraceIs
    <2>4. BlocksInv
      BY <2>2 DEF BlocksInv, BlocksAre, OpenIs
    <2>5. PytestFailures = {}
      BY <2>2 DEF PytestFailures, Reports
    <2>6. ReportsInv
      BY <2>2, <2>5 DEF ReportsInv
    <2>7. QED BY <2>1, <2>3, <2>4, <2>6 DEF PytestInv
  <1>2. PytestInv /\ [Next]_vars => PytestInv'
    BY TypedNext, TraceNext, BlocksNext, ReportsNext DEF PytestInv
  <1>3. QED BY <1>1, <1>2, PTL DEF Spec

(* The id in the tables whose last part is the name in the headline. *)
LEMMA IdIs ==
  ASSUME Typed, NEW n \in DOMAIN lines, lines[n].kind = "separator",
         Namesakes(n) = {lines[n].test}
  PROVE  /\ (Len(lines[n].test) <= 2
              /\ \E m \in Progress \cup ShortSummary : lines[m].test = lines[n].test)
              => TestId(n) = lines[n].test
         /\ \A m \in Progress \cup ShortSummary :
              lines[m].test = TestId(n) => lines[m].test = lines[n].test
  <1> DEFINE test == lines[n].test
  <1>1. test \in Seq(STRING) \ {<< >>} /\ Len(test) \in Nat /\ Len(test) >= 1
    <2>1. test \in Seq(STRING) \ {<< >>}
      BY LogIs
    <2>2. QED BY <2>1, EmptySeq, LenProperties
  <1>2. \A m \in Progress \cup ShortSummary :
          /\ m \in DOMAIN lines /\ lines[m].kind \in {"progress", "short"}
          /\ lines[m].test \in Seq(STRING) \ {<< >>}
    BY LogIs DEF Progress, ShortSummary, LinesOf
  <1>3. \A m \in Progress \cup ShortSummary :
          lines[m].test[Len(lines[m].test)] = test[Len(test)] => lines[m].test = test
    <2> SUFFICES ASSUME NEW m \in Progress \cup ShortSummary,
                        lines[m].test[Len(lines[m].test)] = test[Len(test)]
                 PROVE  lines[m].test = test
      OBVIOUS
    <2>1. m \in LinesOf({"progress", "short", "separator"})
      BY <1>2 DEF LinesOf
    <2>2. lines[m].test \in Namesakes(n)
      BY <2>1 DEF Namesakes
    <2>3. QED BY <2>2
  <1>4. /\ Headline(n) \in Seq(STRING) /\ Len(Headline(n)) \in Nat /\ Len(Headline(n)) >= 1
        /\ Headline(n)[Len(Headline(n))] = test[Len(test)]
        /\ Len(test) <= 2 => Len(Headline(n)) = 1
    <2>1. CASE Len(test) = 1
      BY <1>1, <2>1 DEF Headline
    <2>2. CASE Len(test) # 1
      <3>1. Headline(n) = Tail(test)
        BY <2>2 DEF Headline
      <3>2. /\ Tail(test) \in Seq(STRING) /\ Len(Tail(test)) = Len(test) - 1
            /\ \A x \in 1..Len(Tail(test)) : Tail(test)[x] = test[x + 1]
        BY <1>1, HeadTailProperties
      <3> DEFINE c == Len(test)
                 tail == Tail(test)
      <3>3. c \in Nat /\ c >= 2 /\ Len(tail) = c - 1 /\ (c <= 2 => Len(tail) = 1)
        <4> HIDE DEF c, tail
        <4>1. c \in Nat /\ c >= 1 /\ c # 1 /\ Len(tail) = c - 1
          BY <1>1, <2>2, <3>2 DEF c, tail
        <4>2. QED BY <4>1
      <3>4. c - 1 \in 1..c - 1 /\ (c - 1) + 1 = c
        <4> HIDE DEF c
        <4>1. QED BY <3>3
      <3>5. tail[c - 1] = test[c]
        <4>1. \A x \in 1..c - 1 : tail[x] = test[x + 1]
          BY <3>2, <3>3
        <4> HIDE DEF c, tail, test
        <4>2. tail[c - 1] = test[(c - 1) + 1]
          BY <3>4, <4>1
        <4>3. QED BY <3>4, <4>2
      <3>6. tail \in Seq(STRING) /\ Headline(n) = tail
        BY <3>1, <3>2
      <3> HIDE DEF c, tail
      <3>7. Len(tail) \in Nat /\ Len(tail) >= 1
        BY <3>3
      <3>8. Headline(n)[Len(Headline(n))] = test[Len(test)]
        BY <3>3, <3>5, <3>6 DEF c
      <3>9. Len(test) <= 2 => Len(Headline(n)) = 1
        BY <3>3, <3>6 DEF c
      <3>10. QED BY <3>6, <3>7, <3>8, <3>9
    <2>3. QED BY <2>1, <2>2
  <1>5. \A m \in Progress \cup ShortSummary :
          Matches(lines[m].test, BareName(n)) => lines[m].test = test
    <2> SUFFICES ASSUME NEW m \in Progress \cup ShortSummary, Matches(lines[m].test, BareName(n))
                 PROVE  lines[m].test = test
      OBVIOUS
    <2>1. /\ Len(Headline(n)) = 1
          /\ lines[m].test = Headline(n)
               \/ lines[m].test[Len(lines[m].test)] = Headline(n)[1]
      BY DEF Matches, BareName
    <2>2. lines[m].test[Len(lines[m].test)] = test[Len(test)]
      BY <1>4, <2>1
    <2>3. QED BY <1>3, <2>2
  <1>6. ASSUME Len(test) <= 2, NEW m \in Progress \cup ShortSummary, lines[m].test = test
        PROVE  TestId(n) = test
    <2>1. Matches(test, BareName(n))
      BY <1>1, <1>4, <1>6 DEF Matches, BareName, Headline
    <2>2. PICK x \in Progress \cup ShortSummary :
            Matches(lines[x].test, BareName(n)) /\ TestId(n) = lines[x].test
      BY <1>6, <2>1, TestIdIs
    <2>3. QED BY <1>5, <2>2
  <1>7. ASSUME NEW m \in Progress \cup ShortSummary, lines[m].test = TestId(n)
        PROVE  lines[m].test = test
    <2>1. CASE TestId(n) = Name(n)
      <3>1. Name(n)[Len(Name(n))] = Headline(n)[Len(Headline(n))]
        <4>1. CASE lines[n].word = "call"
          BY <4>1 DEF Name
        <4>2. CASE lines[n].word # "call"
          <5>1. lines[n].word \in STRING
            BY LogIs DEF Line
          <5>2. Name(n) = <<lines[n].word>> \o Headline(n)
            BY <4>2 DEF Name
          <5>3. /\ <<lines[n].word>> \in Seq(STRING) /\ Len(<<lines[n].word>>) = 1
            BY <5>1
          <5>4. /\ Len(Name(n)) = 1 + Len(Headline(n))
                /\ \A x \in 1..1 + Len(Headline(n)) :
                     Name(n)[x] = IF x <= 1 THEN <<lines[n].word>>[x] ELSE Headline(n)[x - 1]
            BY <1>4, <5>2, <5>3, ConcatProperties
          <5>5. QED BY <1>4, <5>4
        <4>3. QED BY <4>1, <4>2
      <3>2. QED BY <1>3, <1>4, <1>7, <2>1, <3>1
    <2>2. CASE \E x \in ShortSummary \cup Progress :
                 Matches(lines[x].test, BareName(n)) /\ TestId(n) = lines[x].test
      BY <1>5, <1>7, <2>2
    <2>3. QED BY <2>1, <2>2, TestIdIs
  <1>8. QED BY <1>6, <1>7


-----------------------------------------------------------------------------
(* What pytest printed, and what is reported of it. *)

(* A failure's lines are its headline and what is printed below it. *)
LEMMA OwnLinesAre ==
  ASSUME lines \in Seq(Line), NEW n \in DOMAIN lines
  PROVE  OwnLines(n) = {n} \cup Own(lines, n)
  BY DEF OwnLines, Own

(* The first line that is not the failure's comes after its own. *)
LEMMA FirstAfter ==
  ASSUME lines \in Seq(Line), NEW n \in DOMAIN lines, NEW last \in n..Len(lines),
         \A m \in After(lines, n) : m > last
  PROVE  n + 1..last \subseteq Own(lines, n)
  <1> DEFINE T == {m \in n + 1..last : lines[m].whose # n}
  <1>1. Len(lines) \in Nat /\ n \in Nat /\ last \in Nat /\ T \in SUBSET Nat
    OBVIOUS
  <1>2. T = {}
    <2> SUFFICES ASSUME T # {} PROVE FALSE
      OBVIOUS
    <2>1. PICK x \in T : \A y \in T : x <= y
      <3> HIDE DEF T
      <3>1. QED BY <1>1, LeastNatural
    <2>2. x \in n + 1..last /\ lines[x].whose # n
      BY <2>1
    <2>3. \A k \in n + 1..x - 1 : lines[k].whose = n
      BY <1>1, <2>1, <2>2
    <2> HIDE DEF T
    <2>4. x \notin Own(lines, n) /\ x \in n + 1..Len(lines)
      BY <1>1, <2>2 DEF Own
    <2>5. n + 1..x - 1 \subseteq Own(lines, n)
      BY <1>1, <2>2, <2>3 DEF Own
    <2>6. x \in After(lines, n)
      BY <2>4, <2>5 DEF After
    <2>7. QED BY <1>1, <2>2, <2>6
  <1>3. QED BY <1>1, <1>2 DEF Own

(* A chunk holds the lines printed for its headline, up to a line that looks *)
(* like a banner.                                                           *)
LEMMA UpToRulerIs ==
  ASSUME PytestInv, step = "chunks", NEW n \in Separators
  PROVE  /\ UpToRuler(n) = n..ChunkFrom(n).last
         /\ n + 1..ChunkFrom(n).last \subseteq Own(lines, n)
         /\ n \in DOMAIN lines /\ n \in Nat /\ lines[n].kind = "separator"
         /\ PytestPrints(lines, n)
         /\ ChunkFrom(n).last \in Nat /\ n <= ChunkFrom(n).last /\ ChunkFrom(n).last <= Len(lines)
  <1> DEFINE last == ChunkFrom(n).last
  <1>1. Typed /\ BlocksInv
    BY DEF PytestInv
  <1>2. lines \in Seq(Line) /\ lines \in Logs /\ Len(lines) \in Nat
    BY <1>1, LogIs DEF Typed
  <1>3. n \in DOMAIN lines /\ n \in Nat /\ lines[n].kind = "separator"
    BY <1>2 DEF Separators, LinesOf
  <1>4. PytestPrints(lines, n)
    BY <1>2, <1>3, PrintedAssumption
  <1>5. /\ \A m \in n + 1..last : lines[m].kind \notin Banners \cup {"separator"}
        /\ last = Len(lines) \/ lines[last + 1].kind \in Banners \cup {"separator"}
        /\ last \in Nat /\ n <= last /\ last <= Len(lines)
    BY <1>1, ChunkLines
  <1> HIDE DEF last
  <1>6. n + 1..last \subseteq Own(lines, n)
    <2>1. ASSUME NEW m \in After(lines, n) PROVE m > last
      <3>1. lines[m].kind \in {"separator", "block", "session", "summary"}
        BY <1>4 DEF PytestPrints
      <3>2. m \in n + 1..Len(lines)
        BY DEF After
      <3>3. QED BY <1>2, <1>3, <1>5, <3>1, <3>2 DEF Banners
    <2>2. last \in n..Len(lines)
      BY <1>2, <1>3, <1>5
    <2>3. QED BY <1>2, <1>3, <2>1, <2>2, FirstAfter
  <1>7. \A m \in n..last : m \in UpToRuler(n)
    <2> SUFFICES ASSUME NEW m \in n..last PROVE m \in UpToRuler(n)
      OBVIOUS
    <2>1. m = n \/ m \in Own(lines, n)
      BY <1>3, <1>5, <1>6
    <2>2. m \in OwnLines(n)
      BY <1>2, <1>3, <2>1, OwnLinesAre
    <2>3. \A k \in n..m : lines[k].kind # "ruler"
      BY <1>3, <1>5 DEF Banners
    <2>4. QED BY <2>2, <2>3 DEF UpToRuler
  <1>8. ASSUME NEW m \in UpToRuler(n) PROVE m \in n..last
    <2>1. /\ m \in n..Len(lines) /\ \A k \in n..m : k = n \/ lines[k].whose = n
          /\ \A k \in n..m : lines[k].kind # "ruler"
      BY <1>8 DEF UpToRuler, OwnLines
    <2>2. SUFFICES ASSUME m > last PROVE FALSE
      BY <1>3, <1>5, <2>1
    <2>3. last + 1 \in n..m /\ last # Len(lines) /\ last + 1 # n
      BY <1>2, <1>3, <1>5, <2>1, <2>2
    <2>4. last + 1 \in Own(lines, n)
      BY <1>2, <1>3, <1>5, <2>1, <2>2 DEF Own
    <2>5. lines[last + 1].kind \notin {"separator", "block", "session", "summary"}
      BY <1>4, <2>4 DEF PytestPrints
    <2>6. lines[last + 1].kind = "ruler"
      BY <1>5, <2>3, <2>5 DEF Banners
    <2>7. QED BY <2>1, <2>3, <2>6
  <1>9. UpToRuler(n) = n..last
    BY <1>7, <1>8
  <1>10. QED BY <1>3, <1>4, <1>5, <1>6, <1>9 DEF last

(* A headline is in no open block if a line that looks like a banner came    *)
(* between it and the title.                                                *)
LEMMA RulerIs ==
  ASSUME Typed, NEW n \in LinesOf({"separator"})
  PROVE  UnderBlock(n) <=> ~RulerBefore(n)
  <1>1. lines \in Seq(Line) /\ lines \in Logs /\ Len(lines) \in Nat
    BY LogIs DEF Typed
  <1>2. n \in DOMAIN lines /\ n \in Nat /\ lines[n].kind = "separator"
    BY <1>1 DEF LinesOf
  <1>3. PICK title \in 1..n - 1 :
          lines[title].kind = "block" /\ \A k \in title..n : lines[k].kind \notin {"session", "summary"}
    BY <1>1, <1>2, PrintedAssumption DEF PytestPrints
  <1>4. ASSUME UnderBlock(n), RulerBefore(n) PROVE FALSE
    <2>1. PICK m \in LinesOf({"block"}) :
            m < n /\ \A x \in m + 1..n : lines[x].kind \notin Banners
      BY <1>4 DEF UnderBlock
    <2>2. PICK r \in LinesOf({"ruler"}) :
            r < n /\ ~\E x \in LinesOf({"block"}) : r < x /\ x < n
      BY <1>4 DEF RulerBefore
    <2>3. m \in Nat /\ r \in Nat /\ lines[m].kind = "block" /\ lines[r].kind = "ruler"
      BY <1>1, <2>1, <2>2 DEF LinesOf
    <2>4. m < r
      BY <2>1, <2>2, <2>3
    <2>5. QED BY <1>2, <2>1, <2>2, <2>3, <2>4 DEF Banners
  <1>5. ASSUME ~RulerBefore(n) PROVE UnderBlock(n)
    <2> DEFINE Titles == {m \in LinesOf({"block"}) : m < n}
    <2>1. Titles \in SUBSET DOMAIN lines /\ title \in Titles
      BY <1>1, <1>2, <1>3 DEF LinesOf
    <2>2. IsFiniteSet(Titles) /\ Titles \in SUBSET Nat
      <3> HIDE DEF Titles
      <3>1. QED BY <1>1, <2>1, LinesAreFinite
    <2> DEFINE m == Max(Titles)
    <2>3. m \in Titles /\ \A x \in Titles : x <= m
      <3> HIDE DEF Titles
      <3>1. QED BY <2>1, <2>2, MaxIs
    <2> HIDE DEF m
    <2>4. m \in LinesOf({"block"}) /\ m < n /\ m \in Nat /\ title <= m
      BY <2>1, <2>2, <2>3
    <2>5. ASSUME NEW x \in m + 1..n PROVE lines[x].kind \notin Banners
      <3>1. CASE x = n
        BY <1>2, <3>1 DEF Banners
      <3>2. CASE x # n
        <4>1. x \in DOMAIN lines /\ x < n /\ x \in Nat /\ x > m
          BY <1>1, <1>2, <2>4, <3>2
        <4>2. lines[x].kind \notin {"session", "summary"}
          BY <1>2, <1>3, <2>4, <4>1
        <4>3. lines[x].kind # "block"
          <5>1. SUFFICES ASSUME lines[x].kind = "block" PROVE FALSE
            OBVIOUS
          <5>2. x \in Titles
            BY <4>1, <5>1 DEF LinesOf
          <5>3. QED BY <2>3, <2>4, <4>1, <5>2
        <4>4. lines[x].kind # "ruler"
          <5>1. SUFFICES ASSUME lines[x].kind = "ruler" PROVE FALSE
            OBVIOUS
          <5>2. x \in LinesOf({"ruler"})
            BY <4>1, <5>1 DEF LinesOf
          <5>3. PICK b \in LinesOf({"block"}) : x < b /\ b < n
            BY <1>5, <4>1, <5>2 DEF RulerBefore
          <5>4. b \in Titles /\ b \in Nat
            BY <1>1, <5>3 DEF LinesOf
          <5>5. QED BY <2>3, <2>4, <4>1, <5>3, <5>4
        <4>5. QED BY <4>2, <4>3, <4>4 DEF Banners
      <3>3. QED BY <3>1, <3>2
    <2>6. QED BY <2>4, <2>5 DEF UnderBlock
  <1>6. QED BY <1>4, <1>5


(* A diagnostic of a failed test, its headline and its chunk. *)
LEMMA FailureIs ==
  ASSUME PytestInv, NEW k \in PytestFailures
  PROVE  /\ step = "chunks" /\ SaysOf(diagnostics[k])
         /\ diagnostics[k].start \in Separators
  <1>1. step = "chunks"
    BY DEF PytestInv, ReportsInv, Typed, TypeOK, PytestTypeOK
  <1>2. SaysOf(diagnostics[k])
    BY DEF PytestInv, ReportsInv
  <1>3. QED BY <1>1, <1>2 DEF SaysOf

(* LostOnlyToRulers for every log and every failure that pytest may print,   *)
(* by PytestInv: in each block that is found, headline by headline, a chunk  *)
(* is read and becomes one diagnostic.                                      *)
THEOREM ToolParsersLostOnlyToRulers == Spec => []LostOnlyToRulers
  <1>1. PytestInv => LostOnlyToRulers
    <2> SUFFICES ASSUME PytestInv, turn = "done", PytestDetects,
                        NEW n \in LinesOf({"separator"})
                 PROVE  LET reports == StartingAt(n, PytestFailures)
                        IN  IF RulerBefore(n) THEN reports = {}
                            ELSE /\ Cardinality(reports) = 1
                                 /\ \A k \in reports :
                                      diagnostics[k].evidence \ Progress = UpToRuler(n)
      BY DEF LostOnlyToRulers
    <2> DEFINE reports == StartingAt(n, PytestFailures)
    <2>1. Typed /\ BlocksInv /\ ReportsInv
      BY DEF PytestInv
    <2>2. step = "chunks" /\ Unread = {}
      BY <2>1 DEF ReportsInv
    <2>3. chunk = None
      BY <2>1 DEF Typed, ChunkIs
    <2>4. \A m \in Separators : m <= Frontier
      <3>1. at \in Nat /\ \A m \in Separators : m \in Nat
        BY <2>1, LogIs DEF Separators, LinesOf, Typed, TypeOK, PytestTypeOK, TraceTypeOK
      <3>2. \A m \in Separators : ~(m > at)
        BY <2>2 DEF Unread
      <3>3. QED BY <2>3, <3>1, <3>2 DEF Frontier
    <2>5. n \in Separators <=> ~RulerBefore(n)
      BY <2>1, <2>2, SeparatorsAre, RulerIs
    <2>6. CASE RulerBefore(n)
      <3>1. n \notin Separators
        BY <2>5, <2>6
      <3>2. reports = {}
        BY <3>1, FailureIs DEF StartingAt
      <3>3. QED BY <2>6, <3>2
    <2>7. CASE ~RulerBefore(n)
      <3>1. n \in Separators
        BY <2>5, <2>7
      <3>2. PICK k \in PytestFailures : diagnostics[k].start = n
        BY <2>1, <2>2, <2>4, <3>1 DEF ReportsInv
      <3>3. \A m \in PytestFailures : diagnostics[m].start = n => m = k
        BY <2>1, <3>2 DEF ReportsInv
      <3>4. reports = {k}
        BY <3>2, <3>3 DEF StartingAt
      <3>5. Cardinality(reports) = 1
        <4> HIDE DEF reports
        <4>1. Cardinality({k}) = 1
          BY FS_Singleton
        <4>2. QED BY <3>4, <4>1
      <3>6. diagnostics[k].evidence \ Progress = UpToRuler(n)
        <4> DEFINE shown == ProgressLine(TestId(n))
                   last == ChunkFrom(n).last
        <4>1. diagnostics[k].evidence = (n..last) \cup ({shown} \ {None})
          BY <3>2, FailureIs DEF SaysOf
        <4>2. shown # None => shown \in Progress
          BY <2>1, ProgressLineIs DEF Progress, LinesOf
        <4>3. /\ UpToRuler(n) = n..last /\ n + 1..last \subseteq Own(lines, n)
              /\ lines[n].kind = "separator" /\ PytestPrints(lines, n) /\ n \in Nat /\ last \in Nat
          BY <2>2, <3>1, UpToRulerIs
        <4> HIDE DEF shown, last
        <4>4. \A m \in n..last : m \notin Progress
          <5> SUFFICES ASSUME NEW m \in n..last PROVE m \notin Progress
            OBVIOUS
          <5>1. m = n \/ m \in Own(lines, n)
            BY <4>3
          <5>2. lines[m].kind # "progress"
            BY <4>3, <5>1 DEF PytestPrints
          <5>3. QED BY <5>2 DEF Progress, LinesOf
        <4>5. QED BY <4>1, <4>2, <4>3, <4>4
      <3>7. QED BY <2>7, <3>4, <3>5, <3>6
    <2>8. QED BY <2>6, <2>7
  <1>2. QED BY <1>1, PytestInvariant, PTL

(* IdIsTheTests for every log: the id found in the tables is that of the     *)
(* test if no other test in them has its name.                              *)
THEOREM ToolParsersIdIsTheTests == Spec => []IdIsTheTests
  <1>1. PytestInv => IdIsTheTests
    <2> SUFFICES ASSUME PytestInv, NEW k \in PytestFailures
                 PROVE  LET n == diagnostics[k].start
                        IN  /\ Namesakes(n) = {lines[n].test}
                            /\ Len(lines[n].test) <= 2
                            /\ \E m \in Progress \cup ShortSummary : lines[m].test = lines[n].test
                            => diagnostics[k].test_id = lines[n].test
      BY DEF IdIsTheTests
    <2> DEFINE n == diagnostics[k].start
    <2>1. Typed
      BY DEF PytestInv
    <2>2. step = "chunks" /\ n \in Separators /\ diagnostics[k].test_id = TestId(n)
      BY FailureIs DEF SaysOf
    <2> HIDE DEF n
    <2>3. n \in DOMAIN lines /\ lines[n].kind = "separator"
      BY <2>2, UpToRulerIs
    <2>4. QED BY <2>1, <2>2, <2>3, IdIs DEF n
  <1>2. QED BY <1>1, PytestInvariant, PTL

(* The exceptions raised in a failure are those whose lines begin a run of E *)
(* lines in its chunk, or are said to by none of them.                      *)
LEMMA RaisedAre ==
  ASSUME PytestInv, step = "chunks", NEW n \in Separators
  PROVE  /\ Raised(n) \subseteq RunStarts(n, ChunkFrom(n).last)
         /\ Raised(n) = {} => RunStarts(n, ChunkFrom(n).last) = {}
         /\ Raised(n) \subseteq DOMAIN lines
  <1> DEFINE last == ChunkFrom(n).last
  <1>1. /\ UpToRuler(n) = n..last /\ n + 1..last \subseteq Own(lines, n)
        /\ n \in DOMAIN lines /\ n \in Nat /\ lines[n].kind = "separator"
        /\ PytestPrints(lines, n) /\ last \in Nat /\ n <= last /\ last <= Len(lines)
    BY UpToRulerIs
  <1>2. lines \in Seq(Line) /\ Len(lines) \in Nat /\ DOMAIN lines = 1..Len(lines)
    BY LogIs DEF PytestInv
  <1> HIDE DEF last
  <1>3. \A m \in n..last : lines[m].kind = "E" => m \in Own(lines, n) /\ m # n
    BY <1>1
  <1>4. ASSUME NEW m \in Raised(n) PROVE m \in RunStarts(n, last)
    <2>1. m \in n..last /\ lines[m].kind = "E" /\ lines[m].word = "raised"
      BY <1>1, <1>4 DEF Raised
    <2>2. lines[m - 1].kind # "E"
      BY <1>1, <1>3, <2>1 DEF PytestPrints
    <2>3. QED BY <2>1, <2>2 DEF RunStarts
  <1>5. ASSUME NEW x \in RunStarts(n, last) PROVE Raised(n) # {}
    <2>1. x \in n..last /\ lines[x].kind = "E"
      BY <1>5 DEF RunStarts
    <2>2. CASE lines[x].word = "raised"
      BY <1>1, <2>1, <2>2 DEF Raised
    <2>3. CASE lines[x].word # "raised"
      <3>1. PICK y \in n + 1..x - 1 : lines[y].kind = "E" /\ lines[y].word = "raised"
        BY <1>1, <1>3, <2>1, <2>3 DEF PytestPrints
      <3>2. y \in n..last
        BY <1>1, <2>1
      <3>3. QED BY <1>1, <3>1, <3>2 DEF Raised
    <2>4. QED BY <2>2, <2>3
  <1>6. Raised(n) \subseteq DOMAIN lines
    BY <1>1, <1>2 DEF Raised
  <1>7. QED BY <1>4, <1>5, <1>6 DEF last

(* LastRaised for every log: the exception that is reported is the last one  *)
(* of the chain, or a line that continues it.                               *)
THEOREM ToolParsersLastRaised == Spec => []LastRaised
  <1>1. PytestInv => LastRaised
    <2> SUFFICES ASSUME PytestInv, NEW k \in PytestFailures
                 PROVE  LET d == diagnostics[k]
                        IN  IF Raised(d.start) = {} THEN d.exception = None
                            ELSE /\ d.exception \in UpToRuler(d.start)
                                 /\ d.exception >= Max(Raised(d.start))
      BY DEF LastRaised
    <2> DEFINE n == diagnostics[k].start
               e == diagnostics[k].exception
               starts == RunStarts(n, ChunkFrom(n).last)
    <2>1. step = "chunks" /\ n \in Separators /\ ExceptionIs(e, n)
      BY FailureIs DEF SaysOf
    <2>2. IF starts = {} THEN e = None ELSE e \in starts /\ \A m \in starts : m <= e
      BY <2>1 DEF ExceptionIs
    <2> HIDE DEF n, e
    <2>3. UpToRuler(n) = n..ChunkFrom(n).last
      BY <2>1, UpToRulerIs
    <2>4. /\ Raised(n) \subseteq starts
          /\ Raised(n) = {} => starts = {}
          /\ Raised(n) \subseteq DOMAIN lines
      BY <2>1, RaisedAre
    <2>5. starts \subseteq UpToRuler(n)
      BY <2>3 DEF RunStarts
    <2> HIDE DEF starts
    <2>6. CASE Raised(n) = {}
      BY <2>2, <2>4, <2>6 DEF n, e
    <2>7. CASE Raised(n) # {}
      <3>1. IsFiniteSet(Raised(n)) /\ Raised(n) \in SUBSET Nat
        BY <2>4, LogIs, LinesAreFinite DEF PytestInv
      <3>2. Max(Raised(n)) \in Raised(n) /\ Max(Raised(n)) \in Nat
        BY <2>7, <3>1, MaxIs
      <3> DEFINE top == Max(Raised(n))
      <3> HIDE DEF top
      <3>3. top \in starts /\ top \in Nat
        BY <2>4, <3>2 DEF top
      <3>4. top <= e /\ e \in UpToRuler(n)
        BY <2>2, <2>5, <3>3
      <3>5. e >= top
        <4>1. n \in Nat /\ ChunkFrom(n).last \in Nat
          BY <2>1, UpToRulerIs
        <4>2. e \in Nat
          BY <2>3, <3>4, <4>1
        <4>3. QED BY <3>3, <3>4, <4>2
      <3>6. QED BY <2>7, <3>4, <3>5 DEF n, e, top
    <2>8. QED BY <2>6, <2>7
  <1>2. QED BY <1>1, PytestInvariant, PTL


(* StoryIsItsOwn for every log: an outcome is that of the failure itself, or *)
(* what another run of pytest in the log, the last one to tell of the test, *)
(* says of it; and no word is another test's.                               *)
THEOREM ToolParsersStoryIsItsOwn == Spec => []StoryIsItsOwn
  <1>1. PytestInv => StoryIsItsOwn
    <2> SUFFICES ASSUME PytestInv, NEW k \in PytestFailures,
                        Namesakes(diagnostics[k].start) = {lines[diagnostics[k].start].test}
                 PROVE  LET d    == diagnostics[k]
                            n    == d.start
                            told == {m \in Progress : lines[m].test = lines[n].test}
                        IN  /\ \/ d.outcome = "error"
                               \/ d.outcome = "failed" /\ lines[n].word = "call"
                               \/ /\ told # {} /\ Max(told) \notin Session(lines, n)
                                  /\ d.outcome = lines[Max(told)].word
                            /\ d.message # None =>
                                 \/ /\ lines[d.message].kind = "short"
                                    /\ lines[d.message].test = lines[n].test
                                 \/ lines[d.message].kind = "E" /\ d.message \in OwnLines(n)
      BY DEF StoryIsItsOwn
    <2> DEFINE d == diagnostics[k]
               n == d.start
               told == {m \in Progress : lines[m].test = lines[n].test}
               test_id == TestId(n)
               line == ProgressLine(test_id)
               words == ShortMessage(test_id)
    <2>1. Typed /\ lines \in Seq(Line)
      BY LogIs DEF PytestInv
    <2>2. /\ step = "chunks" /\ n \in Separators /\ d.outcome = Outcome(n)
          /\ d.message = IF words # None THEN words ELSE d.exception
          /\ ExceptionIs(d.exception, n)
      BY FailureIs DEF SaysOf
    <2>3. /\ UpToRuler(n) = n..ChunkFrom(n).last /\ PytestPrints(lines, n)
          /\ n \in DOMAIN lines /\ lines[n].kind = "separator"
      BY <2>2, UpToRulerIs
    <2>4. \A m \in Progress \cup ShortSummary :
            lines[m].test = test_id => lines[m].test = lines[n].test
      BY <2>1, <2>3, IdIs
    <2>5. words # None => words \in ShortSummary /\ lines[words].test = test_id
      BY <2>1, ShortMessageIs
    <2>6. Outcome(n) = IF line # None THEN lines[line].word
                       ELSE IF lines[n].word = "call" THEN "failed" ELSE "error"
      BY DEF Outcome
    <2>7. ASSUME line # None PROVE line = Max(told) /\ told # {}
      <3>1. line \in Progress /\ lines[line].test = test_id
        BY <2>1, <2>7, ProgressLineIs DEF Progress, LinesOf
      <3>2. test_id = lines[n].test
        BY <2>4, <3>1
      <3>3. told = Entries(Progress, test_id)
        BY <3>2 DEF Entries
      <3>4. QED BY <2>7, <3>3 DEF ProgressLine
    <2>8. told # {} => Max(told) \in told /\ \A m \in told : m <= Max(told)
      <3>1. told \in SUBSET DOMAIN lines
        BY DEF Progress, LinesOf
      <3>2. IsFiniteSet(told) /\ told \in SUBSET Nat
        BY <2>1, <3>1, LinesAreFinite
      <3>3. QED BY <3>2, MaxIs
    <2> DEFINE own == {m \in Session(lines, n) :
                         lines[m].kind = "progress" /\ lines[m].test = lines[n].test}
    <2>9. \A m \in own : m \in told
      BY DEF Session, Progress, LinesOf
    <2>10. \A m \in told : m \in Session(lines, n) => m \in own
      BY DEF Progress, LinesOf
    <2>11. \A m \in own : (\A x \in own : x <= m) =>
             lines[m].word \in (IF lines[n].word = "call" THEN {"failed", "error"} ELSE {"error"})
      BY <2>3 DEF PytestPrints
    <2> HIDE DEF d, n, told, own, test_id, line, words
    <2>12. \/ d.outcome = "error"
           \/ d.outcome = "failed" /\ lines[n].word = "call"
           \/ told # {} /\ Max(told) \notin Session(lines, n) /\ d.outcome = lines[Max(told)].word
      <3>1. CASE line = None
        BY <2>2, <2>6, <3>1
      <3>2. CASE line # None /\ Max(told) \notin Session(lines, n)
        BY <2>2, <2>6, <2>7, <3>2
      <3>3. CASE line # None /\ Max(told) \in Session(lines, n)
        <4>1. Max(told) \in own /\ \A x \in own : x <= Max(told)
          BY <2>7, <2>8, <2>9, <2>10, <3>3
        <4>2. lines[line].word \in
                (IF lines[n].word = "call" THEN {"failed", "error"} ELSE {"error"})
          BY <2>7, <2>11, <3>3, <4>1
        <4>3. QED BY <2>2, <2>6, <3>3, <4>2
      <3>4. QED BY <3>1, <3>2, <3>3
    <2>13. ASSUME words # None
          PROVE  lines[d.message].kind = "short" /\ lines[d.message].test = lines[n].test
      <3>1. d.message = words /\ words \in ShortSummary /\ lines[words].test = test_id
        BY <2>2, <2>5, <2>13
      <3>2. lines[words].kind = "short"
        <4>1. words \in LinesOf({"short"})
          BY <3>1 DEF ShortSummary
        <4>2. QED BY <4>1 DEF LinesOf
      <3>3. QED BY <2>4, <3>1, <3>2
    <2>14. ASSUME words = None, d.message # None
           PROVE  lines[d.message].kind = "E" /\ d.message \in OwnLines(n)
      <3>1. d.message = d.exception /\ d.exception # None
        BY <2>2, <2>14
      <3>2. d.exception \in RunStarts(n, ChunkFrom(n).last)
        BY <2>2, <3>1 DEF ExceptionIs
      <3>3. d.exception \in UpToRuler(n) /\ lines[d.exception].kind = "E"
        BY <2>3, <3>2 DEF RunStarts
      <3>4. d.exception \in OwnLines(n)
        BY <3>3 DEF UpToRuler
      <3>5. QED BY <3>1, <3>3, <3>4
    <2>15. QED BY <2>12, <2>13, <2>14 DEF d, n, told
  <1>2. QED BY <1>1, PytestInvariant, PTL

(* LocatedInProject for every log: the frame by which a failure is located   *)
(* is one of the project if there is one, and of the last traceback of the  *)
(* chain if that has one.                                                   *)
THEOREM ToolParsersLocatedInProject == Spec => []LocatedInProject
  <1>1. PytestInv => LocatedInProject
    <2> SUFFICES ASSUME PytestInv, NEW k \in PytestFailures
                 PROVE  LET d         == diagnostics[k]
                            framesOf  == {m \in UpToRuler(d.start) : lines[m].kind = "frame"}
                            project   == {m \in framesOf : lines[m].word = "project"}
                            earlier   == Raised(d.start) \ {d.exception}
                            last      == {m \in project : \A e \in earlier : m > e}
                        IN  (\A m \in framesOf : lines[m].word # "captured") =>
                              /\ d.located = None <=> framesOf = {}
                              /\ project # {} => d.located \in (IF last # {} THEN last ELSE project)
                              /\ \A m \in last : m <= d.located
      BY DEF LocatedInProject
    <2> DEFINE d        == diagnostics[k]
               n        == d.start
               framesOf == {m \in UpToRuler(n) : lines[m].kind = "frame"}
               project  == {m \in framesOf : lines[m].word = "project"}
               earlier  == Raised(n) \ {d.exception}
               last     == {m \in project : \A e \in earlier : m > e}
               located  == d.located
    <2>1. lines \in Seq(Line) /\ Len(lines) \in Nat /\ DOMAIN lines = 1..Len(lines)
      BY LogIs DEF PytestInv
    <2>2. step = "chunks" /\ n \in Separators /\ located = PrimaryFrame(FramesIn(n))
      BY FailureIs DEF SaysOf
    <2>3. /\ UpToRuler(n) = n..ChunkFrom(n).last /\ PytestPrints(lines, n)
          /\ n + 1..ChunkFrom(n).last \subseteq Own(lines, n)
          /\ n \in DOMAIN lines /\ n \in Nat /\ lines[n].kind = "separator"
          /\ ChunkFrom(n).last \in Nat /\ ChunkFrom(n).last <= Len(lines)
      BY <2>2, UpToRulerIs
    <2>4. framesOf = FramesIn(n) /\ framesOf \subseteq DOMAIN lines
      <3> HIDE DEF n
      <3>1. QED BY <2>1, <2>3 DEF FramesIn
    <2>5. /\ framesOf = {} => located = None
          /\ framesOf # {} => located \in framesOf
          /\ \A m \in framesOf : InProject(m) => InProject(located) /\ m <= located
      <3> HIDE DEF framesOf, located
      <3>1. QED BY <2>1, <2>2, <2>4, PrimaryFrameIs
    <2>6. None \notin DOMAIN lines
      BY <2>1, NoneAssumption
    <2>7. \A m \in framesOf : lines[m].word \in {"project", "dependency", "captured"}
      <3> HIDE DEF n
      <3> SUFFICES ASSUME NEW m \in framesOf
                   PROVE  lines[m].word \in {"project", "dependency", "captured"}
        OBVIOUS
      <3>1. lines[m].kind = "frame" /\ m \in n..ChunkFrom(n).last
        BY <2>3
      <3>2. m \in Own(lines, n)
        BY <2>3, <3>1
      <3>3. QED BY <2>3, <3>1, <3>2 DEF PytestPrints
    <2>8. SUFFICES ASSUME \A m \in framesOf : lines[m].word # "captured"
                   PROVE  /\ located = None <=> framesOf = {}
                          /\ project # {} => located \in (IF last # {} THEN last ELSE project)
                          /\ \A m \in last : m <= located
      OBVIOUS
    <2>9. \A m \in framesOf : InProject(m) <=> m \in project
      BY <2>7, <2>8 DEF InProject
    <2>10. earlier \subseteq Nat
      <3>1. Raised(n) \subseteq DOMAIN lines
        <4> HIDE DEF n
        <4>1. QED BY <2>2, RaisedAre
      <3>2. QED BY <2>1, <3>1
    <2>11. project \subseteq framesOf /\ last \subseteq project
           /\ (\A m \in last : \A e \in earlier : m > e)
           /\ (\A m \in project : (\A e \in earlier : m > e) => m \in last)
      OBVIOUS
    <2> HIDE DEF d, n, framesOf, project, earlier, last, located
    <2>12. located = None <=> framesOf = {}
      BY <2>4, <2>5, <2>6
    <2>13. \A m \in project : located \in project /\ m <= located
      BY <2>5, <2>9, <2>11
    <2>14. ASSUME NEW m \in last PROVE located \in last
      <3>1. located \in project /\ m <= located /\ m \in project
        BY <2>11, <2>13
      <3>2. m \in Nat /\ located \in Nat
        BY <2>1, <2>4, <2>11, <3>1
      <3>3. \A e \in earlier : located > e
        BY <2>10, <2>11, <3>1, <3>2
      <3>4. QED BY <2>11, <3>1, <3>3
    <2>15. QED BY <2>11, <2>12, <2>13, <2>14
  <1>2. QED BY <1>1, PytestInvariant, PTL


-----------------------------------------------------------------------------
(* The tests that failed under jest or vitest. *)

JsFailures == Reports("TEST_FAILURE", "js_test")

(* The suite of a line is the one whose banner was recognised last. *)
SuiteIs(suite, n) ==
  /\ suite = None => \A m \in 1..n : lines[m].kind # "suite"
  /\ suite # None =>
       /\ suite \in 1..n /\ lines[suite].kind = "suite"
       /\ \A m \in suite + 1..n : lines[m].kind # "suite"

(* A diagnostic stands on a bullet and the lines up to the end of its block. *)
JsSaysOf(d) ==
  /\ d.start \in LinesOf({"bullet"}) /\ SuiteIs(d.suite, d.start)
  /\ \E e \in d.start..Len(lines) :
       /\ d.evidence = d.start..e
       /\ \A m \in d.start + 1..e : lines[m].kind \notin BlockEnds
       /\ e = Len(lines) \/ lines[e + 1].kind \in BlockEnds

(* Every bullet read has one diagnostic, but for the one whose block is      *)
(* being collected.                                                         *)
JsReportsInv ==
  /\ \A k \in JsFailures :
       LET d == diagnostics[k]
       IN  JsSaysOf(d) /\ d.start <= j /\ (bullet # None => d.start < bullet)
  /\ \A n \in 1..j : lines[n].kind = "bullet" /\ n # bullet =>
       \E k \in JsFailures : diagnostics[k].start = n
  /\ \A k, m \in JsFailures : diagnostics[k].start = diagnostics[m].start => k = m

(* What the parser has read. *)
JsBlockInv ==
  /\ turn = "pytest" => j = 0 /\ current_file = None /\ bullet = None
  /\ SuiteIs(current_file, j)
  /\ bullet # None =>
       lines[bullet].kind = "bullet" /\ \A m \in bullet + 1..j : lines[m].kind \notin BlockEnds
  /\ turn \notin {"pytest", "js_test"} /\ JsDetects => j = Len(lines) /\ bullet = None

JsInv == Typed /\ JsReportsInv /\ JsBlockInv

(* What is said of the blocks of a log is said of its lines alone. *)
LEMMA SameJs ==
  ASSUME lines' = lines
  PROVE  /\ JsDetects' = JsDetects
         /\ \A suite, n : SuiteIs(suite, n)' = SuiteIs(suite, n)
         /\ \A d : JsSaysOf(d)' = JsSaysOf(d)
  BY DEF JsDetects, LinesOf, Commands, SuiteIs, JsSaysOf

(* What is added is not of a type and a parser. *)
LEMMA SameReports ==
  ASSUME Typed, NEW s \in Seq(Diagnostic), Adds(s), NEW type, NEW parser,
         \A k \in DOMAIN s : ~(s[k].type = type /\ s[k].parser = parser)
  PROVE  /\ Reports(type, parser)' = Reports(type, parser)
         /\ \A k \in Reports(type, parser) : diagnostics'[k] = diagnostics[k]
  <1> DEFINE new == {k \in DOMAIN diagnostics' \ DOMAIN diagnostics :
                       /\ s[k - Len(diagnostics)].type = type
                       /\ s[k - Len(diagnostics)].parser = parser}
  <1>1. /\ Reports(type, parser)' = Reports(type, parser) \cup new
        /\ \A k \in new : k - Len(diagnostics) \in DOMAIN s
        /\ \A k \in Reports(type, parser) : diagnostics'[k] = diagnostics[k]
    BY ReportsAdd
  <1>2. new = {}
    BY <1>1
  <1>3. QED BY <1>1, <1>2

(* One diagnostic is added. *)
LEMMA OneMore ==
  ASSUME Typed, NEW d \in Diagnostic, diagnostics' = Append(diagnostics, d),
         NEW type, NEW parser, d.type = type, d.parser = parser
  PROVE  LET new == Len(diagnostics) + 1
         IN  /\ new \notin DOMAIN diagnostics /\ diagnostics'[new] = d
             /\ Reports(type, parser)' = Reports(type, parser) \cup {new}
             /\ \A k \in DOMAIN diagnostics : diagnostics'[k] = diagnostics[k]
  <1> DEFINE new == Len(diagnostics) + 1
  <1>1. diagnostics \in Seq(Diagnostic)
    BY DEF Typed, TypeOK
  <1>2. /\ Append(diagnostics, d) \in Seq(Diagnostic) /\ Append(diagnostics, d)[new] = d
        /\ Len(Append(diagnostics, d)) = new
        /\ \A k \in 1..Len(diagnostics) : Append(diagnostics, d)[k] = diagnostics[k]
    BY <1>1, AppendProperties
  <1>3. Len(diagnostics) \in Nat /\ DOMAIN diagnostics = 1..Len(diagnostics)
        /\ DOMAIN Append(diagnostics, d) = 1..new
    BY <1>1, <1>2, LenProperties
  <1>4. /\ DOMAIN diagnostics' = DOMAIN diagnostics \cup {new} /\ new \notin DOMAIN diagnostics
        /\ diagnostics'[new] = d
        /\ \A k \in DOMAIN diagnostics : diagnostics'[k] = diagnostics[k]
    BY <1>2, <1>3
  <1> HIDE DEF new
  <1>5. Reports(type, parser)' =
          {k \in DOMAIN diagnostics' :
             diagnostics'[k].type = type /\ diagnostics'[k].parser = parser}
    BY DEF Reports
  <1>6. Reports(type, parser)' = Reports(type, parser) \cup {new}
    BY <1>4, <1>5 DEF Reports
  <1>7. QED BY <1>4, <1>6 DEF new

(* A parser has its turn once, and is followed by the next. *)
LEMMA TurnsFollow ==
  ASSUME Typed, [Next]_vars
  PROVE  turn' \in {turn, TurnAfter(turn)}
  BY DEF Next, PytestNext, JsNext, CompilerNext, PytestSkips, ScanBlockStart, ScanBanner, ScanLine,
         EndBlocks, Scans, OpenChunk, ReadChunk, BuildDiagnostic, PytestReturns, JsSkips, ReadSuite,
         ReadBullet, ReadJsLine, EndBlock, JsReturns, JsRuns, CompilerSkips, ExtractTsc, ReadRow,
         PassOver, ReadBlank, ReadPath, CompilerReturns, EslintReads, CompilerRuns, Fallback,
         NoFallback, Returned, vars

(* The steps of the other parsers. *)
LEMMA JsStays ==
  ASSUME Typed, [Next]_vars, ~JsNext
  PROVE  /\ UNCHANGED <<lines, jsVars>>
         /\ JsFailures' = JsFailures
         /\ \A k \in JsFailures : diagnostics'[k] = diagnostics[k]
         /\ turn' = "pytest" => turn = "pytest"
         /\ turn \in {"pytest", "js_test"} => turn' \in {"pytest", "js_test"}
  <1>1. UNCHANGED <<lines, jsVars>>
    BY DEF Next, PytestNext, CompilerNext, PytestSkips, ScanBlockStart, ScanBanner, ScanLine,
           EndBlocks, Scans, OpenChunk, ReadChunk, BuildDiagnostic, PytestReturns, CompilerSkips,
           ExtractTsc, ReadRow, PassOver, ReadBlank, ReadPath, CompilerReturns, EslintReads,
           CompilerRuns, Fallback, NoFallback, Returned, vars
  <1>2. CASE turn = "js_test"
    <2>1. UNCHANGED <<turn, diagnostics>>
      BY <1>2
      DEF Next, PytestNext, CompilerNext, PytestSkips, ScanBlockStart, ScanBanner, ScanLine,
          EndBlocks, Scans, OpenChunk, ReadChunk, BuildDiagnostic, PytestReturns, CompilerSkips,
          ExtractTsc, ReadRow, PassOver, ReadBlank, ReadPath, CompilerReturns, EslintReads,
          CompilerRuns, Fallback, NoFallback, Returned, vars
    <2>2. QED BY <1>1, <1>2, <2>1 DEF JsFailures, Reports
  <1>3. CASE turn # "js_test"
    <2>1. PICK s \in Seq(Diagnostic) : Adds(s)
      BY StepAdds
    <2>2. \A k \in DOMAIN s : s[k].parser # "js_test"
      BY <1>3, <2>1 DEF Adds
    <2>3. /\ JsFailures' = JsFailures
          /\ \A k \in JsFailures : diagnostics'[k] = diagnostics[k]
      BY <2>1, <2>2, SameReports DEF JsFailures
    <2>4. turn' = "pytest" => turn = "pytest"
      BY PytestFirst
    <2>5. turn = "pytest" => turn' \in {"pytest", "js_test"}
      BY TurnsFollow, TurnsAre
    <2>6. QED BY <1>1, <1>3, <2>3, <2>4, <2>5
  <1>4. QED BY <1>2, <1>3


(* The next line ends a block, or there is none. *)
AtBlockEnd == Ahead(BlockEnds) \/ j = Len(lines)

(* A block that ends becomes what it is. *)
LEMMA JsBuiltSays ==
  ASSUME JsInv, bullet # None, AtBlockEnd
  PROVE  /\ JsSaysOf(JsBuilt(bullet..j)) /\ JsBuilt(bullet..j).start = bullet
         /\ bullet \in 1..j /\ bullet \in Nat /\ j \in Nat
  <1>1. /\ bullet \in 1..j /\ bullet \in Nat /\ j \in 0..Len(lines) /\ Len(lines) \in Nat
        /\ DOMAIN lines = 1..Len(lines)
    BY LogIs DEF JsInv, Typed, TypeOK, JsTypeOK
  <1> DEFINE d == JsBuilt(bullet..j)
  <1>2. d.start = bullet /\ d.suite = current_file /\ d.evidence = bullet..j
    BY JsBuiltIs DEF JsInv
  <1> HIDE DEF d
  <1>3. bullet \in LinesOf({"bullet"})
    <2>1. lines[bullet].kind = "bullet"
      BY DEF JsInv, JsBlockInv
    <2>2. bullet \in DOMAIN lines
      BY <1>1
    <2>3. QED BY <2>1, <2>2 DEF LinesOf
  <1>4. \A m \in bullet + 1..j : lines[m].kind \notin BlockEnds
    BY DEF JsInv, JsBlockInv
  <1>5. SuiteIs(current_file, bullet)
    <2>1. SuiteIs(current_file, j)
      BY DEF JsInv, JsBlockInv
    <2>2. \A m \in bullet + 1..j : lines[m].kind # "suite"
      BY <1>4 DEF BlockEnds
    <2>3. CASE current_file = None
      BY <1>1, <2>1, <2>3 DEF SuiteIs
    <2>4. CASE current_file # None
      <3>1. /\ current_file \in 1..j /\ lines[current_file].kind = "suite"
            /\ \A m \in current_file + 1..j : lines[m].kind # "suite"
        BY <2>1, <2>4 DEF SuiteIs
      <3>2. current_file \in 1..bullet
        BY <1>1, <2>2, <3>1
      <3>3. \A m \in current_file + 1..bullet : lines[m].kind # "suite"
        BY <1>1, <3>1
      <3>4. QED BY <2>4, <3>1, <3>2, <3>3 DEF SuiteIs
    <2>5. QED BY <2>3, <2>4
  <1>6. j \in bullet..Len(lines) /\ (j = Len(lines) \/ lines[j + 1].kind \in BlockEnds)
    <2>1. j \in bullet..Len(lines)
      BY <1>1
    <2>2. j = Len(lines) \/ lines[j + 1].kind \in BlockEnds
      BY DEF AtBlockEnd, Ahead
    <2>3. QED BY <2>1, <2>2
  <1>7. \E e \in bullet..Len(lines) :
          /\ d.evidence = bullet..e
          /\ \A m \in bullet + 1..e : lines[m].kind \notin BlockEnds
          /\ e = Len(lines) \/ lines[e + 1].kind \in BlockEnds
    BY <1>2, <1>4, <1>6
  <1>8. JsSaysOf(d)
    BY <1>2, <1>3, <1>5, <1>7 DEF JsSaysOf
  <1>9. QED BY <1>1, <1>2, <1>8 DEF d

(* A step that reads a line, of whatever kind. *)
LEMMA JsReads ==
  ASSUME JsInv, ReadSuite \/ ReadBullet \/ ReadJsLine
  PROVE  JsReportsInv' /\ JsBlockInv'
  <1>1. /\ lines' = lines /\ turn' = turn /\ turn = "js_test" /\ diagnostics' = diagnostics
        /\ j' = j + 1
    BY DEF ReadSuite, ReadBullet, ReadJsLine, JsRuns
  <1>2. /\ j \in Nat /\ j + 1 \in DOMAIN lines /\ Len(lines) \in Nat
        /\ DOMAIN lines = 1..Len(lines)
    <2>1. j < Len(lines)
      BY DEF ReadSuite, ReadBullet, ReadJsLine, Ahead
    <2>2. j \in 0..Len(lines) /\ Len(lines) \in Nat /\ DOMAIN lines = 1..Len(lines)
      BY LogIs DEF JsInv, Typed, TypeOK, JsTypeOK
    <2>3. QED BY <2>1, <2>2
  <1>3. bullet # None => bullet \in 1..j /\ bullet' = bullet
    BY DEF JsInv, Typed, TypeOK, JsTypeOK, ReadSuite, ReadBullet, ReadJsLine
  <1>4. \/ /\ lines[j + 1].kind = "suite" /\ bullet = None /\ bullet' = None
           /\ current_file' = j + 1
        \/ /\ lines[j + 1].kind = "bullet" /\ bullet = None /\ bullet' = j + 1
           /\ current_file' = current_file
        \/ /\ lines[j + 1].kind \notin {"suite", "bullet"} /\ bullet' = bullet
           /\ bullet # None => lines[j + 1].kind \notin BlockEnds
           /\ current_file' = current_file
    <2>1. CASE ReadSuite
      BY <2>1 DEF ReadSuite, Ahead
    <2>2. CASE ReadBullet
      BY <2>2 DEF ReadBullet, Ahead
    <2>3. CASE ReadJsLine
      BY <2>3 DEF ReadJsLine, Ahead, Others, BlockEnds
    <2>4. QED BY <2>1, <2>2, <2>3
  <1>5. JsReportsInv'
    <2>1. JsFailures' = JsFailures
      BY <1>1 DEF JsFailures, Reports
    <2>2. ASSUME NEW k \in JsFailures
          PROVE  LET d == diagnostics[k]
                 IN  JsSaysOf(d)' /\ d.start <= j' /\ (bullet' # None => d.start < bullet')
      <3> DEFINE d == diagnostics[k]
      <3>1. JsSaysOf(d) /\ d.start <= j /\ (bullet # None => d.start < bullet)
        BY DEF JsInv, JsReportsInv
      <3>2. JsSaysOf(d)'
        <4>1. \A x : JsSaysOf(x)' = JsSaysOf(x)
          BY <1>1, SameJs
        <4>2. d' = d
          BY <1>1
        <4> HIDE DEF d
        <4>3. JsSaysOf(d)' = JsSaysOf(d)
          BY <4>1, <4>2, <1>1 DEF JsSaysOf, SuiteIs, LinesOf
        <4>4. QED BY <3>1, <4>3
      <3> HIDE DEF d
      <3>3. d.start \in Nat
        <4>1. d.start \in LinesOf({"bullet"})
          BY <3>1 DEF JsSaysOf
        <4>2. QED BY <1>2, <4>1 DEF LinesOf
      <3>4. d.start <= j' /\ (bullet' # None => d.start < bullet')
        BY <1>1, <1>2, <1>4, <3>1, <3>3
      <3>5. QED BY <1>1, <3>2, <3>4 DEF d
    <2>3. ASSUME NEW n \in 1..j', lines[n].kind = "bullet", n # bullet'
          PROVE  \E k \in JsFailures : diagnostics[k].start = n
      <3>1. n \in 1..j \/ n = j + 1
        BY <1>1, <1>2
      <3>2. n # j + 1
        BY <1>4, <2>3
      <3>3. n # bullet
        <4>1. SUFFICES ASSUME n = bullet PROVE FALSE
          OBVIOUS
        <4>2. bullet # None
          BY <1>2, <3>1, <4>1, NoneAssumption
        <4>3. QED BY <1>3, <2>3, <4>1, <4>2
      <3>4. QED BY <2>3, <3>1, <3>2, <3>3 DEF JsInv, JsReportsInv
    <2>4. \A k, m \in JsFailures : diagnostics[k].start = diagnostics[m].start => k = m
      BY DEF JsInv, JsReportsInv
    <2>5. QED BY <1>1, <2>1, <2>2, <2>3, <2>4 DEF JsReportsInv
  <1>6. JsBlockInv'
    <2>1. SuiteIs(current_file, j)
      BY DEF JsInv, JsBlockInv
    <2>2. SuiteIs(current_file', j')
      <3>1. CASE lines[j + 1].kind = "suite"
        <4>1. current_file' = j + 1 /\ j + 1 # None
          BY <1>2, <1>4, <3>1, NoneAssumption
        <4>2. QED BY <1>1, <1>2, <3>1, <4>1 DEF SuiteIs
      <3>2. CASE lines[j + 1].kind # "suite"
        <4>1. current_file' = current_file
          BY <1>4, <3>2
        <4>2. CASE current_file = None
          BY <1>1, <1>2, <2>1, <3>2, <4>1, <4>2 DEF SuiteIs
        <4>3. CASE current_file # None
          BY <1>1, <1>2, <2>1, <3>2, <4>1, <4>3 DEF SuiteIs
        <4>4. QED BY <4>2, <4>3
      <3>3. QED BY <3>1, <3>2
    <2>3. SuiteIs(current_file, j)'
      BY <1>1, <2>2 DEF SuiteIs
    <2>4. ASSUME bullet' # None
          PROVE  lines[bullet'].kind = "bullet"
                 /\ \A m \in bullet' + 1..j' : lines[m].kind \notin BlockEnds
      <3>1. CASE bullet = None
        <4>1. bullet' = j + 1 /\ lines[j + 1].kind = "bullet"
          BY <1>4, <2>4, <3>1
        <4>2. QED BY <1>1, <1>2, <4>1
      <3>2. CASE bullet # None
        <4>1. bullet' = bullet /\ lines[j + 1].kind \notin BlockEnds /\ bullet \in 1..j
          BY <1>3, <1>4, <3>2
        <4>2. lines[bullet].kind = "bullet" /\ \A m \in bullet + 1..j : lines[m].kind \notin BlockEnds
          BY <3>2 DEF JsInv, JsBlockInv
        <4>3. QED BY <1>1, <1>2, <4>1, <4>2
      <3>3. QED BY <3>1, <3>2
    <2>5. QED BY <1>1, <2>3, <2>4 DEF JsBlockInv
  <1>7. QED BY <1>5, <1>6


(* What is reported stays, if the parser reads nothing. *)
LEMMA JsKept ==
  ASSUME JsInv, UNCHANGED <<lines, jsVars>>, JsFailures' = JsFailures,
         \A k \in JsFailures : diagnostics'[k] = diagnostics[k]
  PROVE  JsReportsInv' /\ SuiteIs(current_file, j)' /\ JsDetects' = JsDetects
  <1>1. lines' = lines /\ j' = j /\ bullet' = bullet /\ current_file' = current_file
    BY DEF jsVars
  <1>2. \A k \in JsFailures : JsSaysOf(diagnostics[k])' /\ JsSaysOf(diagnostics[k])
    <2> SUFFICES ASSUME NEW k \in JsFailures
                 PROVE  JsSaysOf(diagnostics[k])' /\ JsSaysOf(diagnostics[k])
      OBVIOUS
    <2> DEFINE d == diagnostics[k]
    <2>1. JsSaysOf(d) /\ d' = d
      BY DEF JsInv, JsReportsInv
    <2> HIDE DEF d
    <2>2. JsSaysOf(d)' = JsSaysOf(d)
      BY <1>1, <2>1 DEF JsSaysOf, SuiteIs, LinesOf
    <2>3. QED BY <2>1, <2>2 DEF d
  <1>3. JsReportsInv'
    BY <1>1, <1>2 DEF JsInv, JsReportsInv
  <1>4. SuiteIs(current_file, j)' /\ JsDetects' = JsDetects
    <2>1. SuiteIs(current_file, j)
      BY DEF JsInv, JsBlockInv
    <2>2. QED BY <1>1, <2>1, SameJs DEF SuiteIs
  <1>5. QED BY <1>3, <1>4

(* A block becomes a diagnostic. *)
LEMMA JsEnds ==
  ASSUME JsInv, EndBlock
  PROVE  JsReportsInv' /\ JsBlockInv'
  <1> DEFINE d == JsBuilt(bullet..j)
             new == Len(diagnostics) + 1
  <1>1. /\ lines' = lines /\ turn = "js_test" /\ turn' = turn /\ j' = j
        /\ current_file' = current_file /\ bullet # None /\ bullet' = None
        /\ diagnostics' = Append(diagnostics, d) /\ AtBlockEnd
    BY DEF EndBlock, JsRuns, AtBlockEnd
  <1>2. JsSaysOf(d) /\ d.start = bullet /\ bullet \in 1..j /\ bullet \in Nat /\ j \in Nat
    BY <1>1, JsBuiltSays
  <1>3. d \in Diagnostic /\ d.type = "TEST_FAILURE" /\ d.parser = "js_test"
    BY <1>1, JsBuiltIs DEF JsInv
  <1> HIDE DEF d
  <1>4. /\ new \notin DOMAIN diagnostics /\ diagnostics'[new] = d
        /\ JsFailures' = JsFailures \cup {new}
        /\ \A k \in DOMAIN diagnostics : diagnostics'[k] = diagnostics[k]
    BY <1>1, <1>3, OneMore DEF JsInv, JsFailures
  <1> HIDE DEF new
  <1>5. /\ JsFailures' = JsFailures \cup {new} /\ new \notin JsFailures
        /\ \A k \in JsFailures : diagnostics'[k] = diagnostics[k]
    BY <1>3, <1>4 DEF JsFailures, Reports
  <1>6. \A k \in JsFailures : JsSaysOf(diagnostics[k]) /\ diagnostics[k].start < bullet
    BY <1>1 DEF JsInv, JsReportsInv
  <1>7. \A k \in JsFailures' : JsSaysOf(diagnostics[k])'
    <2> SUFFICES ASSUME NEW k \in JsFailures' PROVE JsSaysOf(diagnostics[k])'
      OBVIOUS
    <2>1. JsSaysOf(diagnostics'[k])
      BY <1>2, <1>4, <1>5, <1>6
    <2>2. QED BY <1>1, <2>1 DEF JsSaysOf, SuiteIs, LinesOf
  <1>8. \A k \in JsFailures : diagnostics[k].start \in Nat
    <2> SUFFICES ASSUME NEW k \in JsFailures PROVE diagnostics[k].start \in Nat
      OBVIOUS
    <2>1. diagnostics[k].start \in LinesOf({"bullet"})
      BY <1>6 DEF JsSaysOf
    <2>2. QED BY <2>1, LogIs DEF LinesOf, JsInv
  <1>9. JsReportsInv'
    <2>1. \A k \in JsFailures' : diagnostics'[k].start <= j
      BY <1>2, <1>4, <1>5, <1>6, <1>8
    <2>2. ASSUME NEW n \in 1..j, lines[n].kind = "bullet"
          PROVE  \E k \in JsFailures' : diagnostics'[k].start = n
      <3>1. CASE n = bullet
        BY <1>2, <1>4, <1>5, <3>1
      <3>2. CASE n # bullet
        <4>1. PICK k \in JsFailures : diagnostics[k].start = n
          BY <2>2, <3>2 DEF JsInv, JsReportsInv
        <4>2. QED BY <1>5, <4>1
      <3>3. QED BY <3>1, <3>2
    <2>3. ASSUME NEW k \in JsFailures', NEW m \in JsFailures',
                 diagnostics'[k].start = diagnostics'[m].start
          PROVE  k = m
      <3>1. CASE k = new /\ m \in JsFailures
        BY <1>2, <1>4, <1>5, <1>6, <1>8, <2>3, <3>1
      <3>2. CASE m = new /\ k \in JsFailures
        BY <1>2, <1>4, <1>5, <1>6, <1>8, <2>3, <3>2
      <3>3. CASE k \in JsFailures /\ m \in JsFailures
        BY <1>5, <2>3, <3>3 DEF JsInv, JsReportsInv
      <3>4. QED BY <1>5, <3>1, <3>2, <3>3
    <2>4. QED BY <1>1, <1>7, <2>1, <2>2, <2>3 DEF JsReportsInv
  <1>10. JsBlockInv'
    <2>1. SuiteIs(current_file, j)
      BY DEF JsInv, JsBlockInv
    <2>2. SuiteIs(current_file, j)'
      BY <1>1, <2>1 DEF SuiteIs
    <2>3. QED BY <1>1, <2>2 DEF JsBlockInv
  <1>11. QED BY <1>9, <1>10

(* Every step keeps what is reported. *)
LEMMA JsNextInv == JsInv /\ [Next]_vars => JsInv'
  <1> SUFFICES ASSUME JsInv, [Next]_vars PROVE JsInv'
    OBVIOUS
  <1>1. Typed /\ Typed'
    BY TypedNext DEF JsInv
  <1>2. CASE ~JsNext
    <2>1. /\ UNCHANGED <<lines, jsVars>> /\ JsFailures' = JsFailures
          /\ \A k \in JsFailures : diagnostics'[k] = diagnostics[k]
          /\ turn' = "pytest" => turn = "pytest"
          /\ turn \in {"pytest", "js_test"} => turn' \in {"pytest", "js_test"}
      BY <1>1, <1>2, JsStays
    <2>2. JsReportsInv' /\ SuiteIs(current_file, j)' /\ JsDetects' = JsDetects
      BY <2>1, JsKept
    <2>3. JsBlockInv'
      BY <2>1, <2>2 DEF JsInv, JsBlockInv, jsVars
    <2>4. QED BY <1>1, <2>2, <2>3 DEF JsInv
  <1>3. CASE ReadSuite \/ ReadBullet \/ ReadJsLine
    BY <1>1, <1>3, JsReads DEF JsInv
  <1>4. CASE EndBlock
    BY <1>1, <1>4, JsEnds DEF JsInv
  <1>5. CASE JsSkips \/ JsReturns
    <2>1. /\ UNCHANGED <<lines, jsVars>> /\ turn = "js_test" /\ turn' = "compiler"
          /\ JsSkips => ~JsDetects /\ diagnostics' = diagnostics
          /\ JsReturns => /\ bullet = None /\ j = Len(lines)
                          /\ diagnostics' = diagnostics \o ProcessFailure("js_test")
      BY <1>5, TurnsAre DEF JsSkips, JsReturns, JsRuns
    <2>2. /\ JsFailures' = JsFailures
          /\ \A k \in JsFailures : diagnostics'[k] = diagnostics[k]
      <3>1. CASE JsSkips
        BY <2>1, <3>1 DEF JsFailures, Reports
      <3>2. CASE JsReturns
        <4> DEFINE s == ProcessFailure("js_test")
        <4>1. turn = "js_test" /\ turn \in Parsers
          BY <2>1 DEF Parsers
        <4>2. Adds(s) /\ s \in Seq(Diagnostic)
          BY <1>1, <2>1, <3>2, <4>1, AddsExit
        <4>3. lines \in Seq(Line)
          BY <1>1, LogIs
        <4>4. \A k \in DOMAIN s : s[k].type = "PROCESS_FAILURE"
          BY <4>1, <4>3, ExitIs
        <4> HIDE DEF s
        <4>5. \A k \in DOMAIN s : ~(s[k].type = "TEST_FAILURE" /\ s[k].parser = "js_test")
          BY <4>4
        <4>6. QED BY <1>1, <4>2, <4>5, SameReports DEF JsFailures
      <3>3. QED BY <1>5, <3>1, <3>2
    <2>3. JsReportsInv' /\ SuiteIs(current_file, j)' /\ JsDetects' = JsDetects
      BY <2>1, <2>2, JsKept
    <2>4. JsBlockInv'
      BY <1>5, <2>1, <2>3 DEF JsInv, JsBlockInv, jsVars
    <2>5. QED BY <1>1, <2>3, <2>4 DEF JsInv
  <1>6. QED BY <1>2, <1>3, <1>4, <1>5 DEF JsNext

(* The invariant of jest's and vitest's parser. *)
THEOREM JsInvariant == Spec => []JsInv
  <1>1. Init => JsInv
    <2> SUFFICES ASSUME Init PROVE JsInv
      OBVIOUS
    <2>1. Typed
      BY TypedInit
    <2>2. turn = "pytest" /\ diagnostics = << >> /\ j = 0 /\ current_file = None /\ bullet = None
      BY TurnsAre DEF Init, JsInit
    <2>3. JsFailures = {}
      BY <2>2 DEF JsFailures, Reports
    <2>4. JsReportsInv
      BY <2>2, <2>3 DEF JsReportsInv
    <2>5. JsBlockInv
      BY <2>2 DEF JsBlockInv, SuiteIs
    <2>6. QED BY <2>1, <2>4, <2>5 DEF JsInv
  <1>2. QED BY <1>1, JsNextInv, PTL DEF Spec


(* JsTestsKeepTheirLines for every log and every failed test that jest or    *)
(* vitest may print, by JsInv: the block of a bullet reaches to the next     *)
(* bullet, banner or footer, all of which follow the test's own lines.       *)
THEOREM ToolParsersJsTestsKeepTheirLines == Spec => []JsTestsKeepTheirLines
  <1>1. JsInv => JsTestsKeepTheirLines
    <2> SUFFICES ASSUME JsInv, turn = "done", JsDetects, NEW n \in LinesOf({"bullet"})
                 PROVE  LET reports == StartingAt(n, JsFailures)
                            banner  == lines[n].whose
                            own     == OwnLines(n)
                        IN  /\ Cardinality(reports) = 1
                            /\ \A k \in reports :
                                 LET d == diagnostics[k]
                                 IN  /\ own \subseteq d.evidence
                                     /\ d.evidence \cap LinesOf({"slowSuite"}) = {} =>
                                          d.evidence = own
                                     /\ \/ banner = 0 /\ d.suite = None
                                        \/ banner # 0 /\ d.suite = banner
                                        \/ banner # 0 /\ lines[banner].kind = "slowSuite"
      BY DEF JsTestsKeepTheirLines, JsFailures
    <2> DEFINE reports == StartingAt(n, JsFailures)
               banner  == lines[n].whose
               own     == OwnLines(n)
    <2>1. /\ lines \in Seq(Line) /\ lines \in Logs /\ Len(lines) \in Nat
          /\ DOMAIN lines = 1..Len(lines)
      BY LogIs DEF JsInv, Typed
    <2>2. n \in DOMAIN lines /\ n \in Nat /\ lines[n].kind = "bullet" /\ banner \in Nat
      BY <2>1, LogIs DEF LinesOf, Line, JsInv
    <2>3. j = Len(lines) /\ bullet = None
      BY DEF JsInv, JsBlockInv
    <2>4. JestPrints(lines, n)
      BY <2>1, <2>2, PrintedAssumption
    <2>5. PICK k \in JsFailures : diagnostics[k].start = n
      <3>1. n \in 1..j /\ n # bullet
        BY <2>1, <2>2, <2>3, NoneAssumption
      <3>2. QED BY <2>2, <3>1 DEF JsInv, JsReportsInv
    <2>6. \A m \in JsFailures : diagnostics[m].start = n => m = k
      BY <2>5 DEF JsInv, JsReportsInv
    <2>7. reports = {k}
      BY <2>5, <2>6 DEF StartingAt
    <2> DEFINE d == diagnostics[k]
    <2>8. JsSaysOf(d) /\ d.start = n
      BY <2>5 DEF JsInv, JsReportsInv
    <2> HIDE DEF d
    <2>9. PICK e \in n..Len(lines) :
            /\ d.evidence = n..e
            /\ \A m \in n + 1..e : lines[m].kind \notin BlockEnds
            /\ e = Len(lines) \/ lines[e + 1].kind \in BlockEnds
      BY <2>8 DEF JsSaysOf
    <2>10. own = {n} \cup Own(lines, n)
      BY <2>1, <2>2, OwnLinesAre
    <2>11. e \in Nat /\ n <= e /\ e <= Len(lines)
      BY <2>1, <2>2
    <2>12. \A m \in Own(lines, n) :
             /\ m \in Nat /\ n < m /\ m <= Len(lines)
             /\ \A x \in n + 1..m : lines[x].whose = n
      BY <2>1, <2>2 DEF Own
    <2>13. ASSUME NEW m \in Own(lines, n) PROVE m <= e
      <3>1. SUFFICES ASSUME m > e PROVE FALSE
        BY <2>11, <2>12
      <3>2. m \in Nat /\ m <= Len(lines) /\ \A x \in n + 1..m : lines[x].whose = n
        BY <2>12
      <3>3. e # Len(lines) /\ e + 1 \in n + 1..Len(lines)
        BY <2>1, <2>2, <2>11, <3>1, <3>2
      <3>4. \A x \in n + 1..e + 1 : lines[x].whose = n
        BY <2>2, <2>11, <3>1, <3>2
      <3>5. e + 1 \in Own(lines, n)
        BY <3>3, <3>4 DEF Own
      <3>6. lines[e + 1].kind \notin {"bullet", "suite", "slowSuite", "footer"}
        BY <2>4, <3>5 DEF JestPrints
      <3>7. QED BY <2>9, <3>3, <3>6 DEF BlockEnds
    <2>14. own \subseteq d.evidence
      <3>1. \A m \in Own(lines, n) : m \in n..e
        BY <2>2, <2>11, <2>12, <2>13
      <3>2. n \in n..e
        BY <2>2, <2>11
      <3> HIDE DEF own
      <3>3. QED BY <2>9, <2>10, <3>1, <3>2
    <2>15. ASSUME d.evidence \cap LinesOf({"slowSuite"}) = {}
           PROVE  d.evidence = own
      <3>1. ASSUME NEW m \in After(lines, n) PROVE m > e
        <4>1. SUFFICES ASSUME m <= e PROVE FALSE
          BY <2>1, <2>2, <2>9, <3>1 DEF After
        <4>2. m \in n + 1..e /\ m \in DOMAIN lines
          BY <2>1, <2>2, <3>1, <4>1 DEF After
        <4>3. lines[m].kind \in {"bullet", "suite", "slowSuite", "footer"}
          BY <2>4, <3>1 DEF JestPrints
        <4>4. lines[m].kind = "slowSuite"
          BY <2>9, <4>2, <4>3 DEF BlockEnds
        <4>5. m \in LinesOf({"slowSuite"}) /\ m \in d.evidence
          BY <2>2, <2>9, <4>2, <4>4 DEF LinesOf
        <4>6. QED BY <2>15, <4>5
      <3>2. n + 1..e \subseteq Own(lines, n)
        BY <2>1, <2>2, <3>1, FirstAfter
      <3>3. n..e \subseteq own
        <4>1. \A m \in n..e : m = n \/ m \in n + 1..e
          BY <2>2
        <4> HIDE DEF own
        <4>2. QED BY <2>10, <3>2, <4>1
      <3> HIDE DEF own
      <3>4. QED BY <2>9, <2>14, <3>3
    <2> HIDE DEF own, banner
    <2>16. \/ banner = 0 /\ d.suite = None
           \/ banner # 0 /\ d.suite = banner
           \/ banner # 0 /\ lines[banner].kind = "slowSuite"
      <3>1. /\ banner # 0 => banner < n /\ lines[banner].kind \in {"suite", "slowSuite"}
            /\ \A m \in banner + 1..n - 1 : lines[m].kind \notin {"suite", "slowSuite"}
        BY <2>4 DEF JestPrints, banner
      <3>2. SuiteIs(d.suite, n)
        BY <2>8 DEF JsSaysOf
      <3>3. /\ d.suite = None => \A m \in 1..n : lines[m].kind # "suite"
            /\ d.suite # None =>
                 /\ d.suite \in 1..n /\ lines[d.suite].kind = "suite"
                 /\ \A m \in d.suite + 1..n : lines[m].kind # "suite"
        BY <3>2 DEF SuiteIs
      <3>4. d.suite # None => d.suite < n
        BY <2>2, <3>3
      <3>5. banner \in Nat
        BY <2>2 DEF banner
      <3>6. CASE banner = 0
        <4>1. d.suite = None
          BY <2>2, <3>1, <3>3, <3>4, <3>6
        <4>2. QED BY <3>6, <4>1
      <3>7. CASE banner # 0 /\ lines[banner].kind = "suite"
        <4>1. banner \in 1..n
          BY <2>2, <3>1, <3>5, <3>7
        <4>2. d.suite # None
          BY <3>3, <3>7, <4>1
        <4>3. ~(d.suite < banner)
          BY <2>2, <3>3, <3>7, <4>1, <4>2
        <4>4. ~(d.suite > banner)
          BY <2>2, <3>1, <3>3, <3>4, <3>5, <4>2
        <4>5. d.suite \in Nat
          BY <3>3, <4>2
        <4>6. QED BY <3>5, <3>7, <4>3, <4>4, <4>5
      <3>8. QED BY <3>1, <3>6, <3>7
    <2>17. Cardinality(reports) = 1
      <3> HIDE DEF reports
      <3>1. Cardinality({k}) = 1
        BY FS_Singleton
      <3>2. QED BY <2>7, <3>1
    <2> HIDE DEF reports
    <2>18. QED BY <2>7, <2>14, <2>15, <2>16, <2>17 DEF d, own, banner, reports
  <1>2. QED BY <1>1, JsInvariant, PTL


-----------------------------------------------------------------------------
(* eslint's rows. *)

Lints == Reports("LINT_ERROR", "compiler")

(* Lines that are taken for the path of a file. *)
PathLike(n) == lines[n].kind \in Kinds \ (Indented \cup {"problems", "blank"})

(* The file of a line is the path above it, if no other path and no blank    *)
(* line is in between.                                                      *)
FileIs(path, n) ==
  /\ path \in 1..n /\ PathLike(path)
  /\ \A m \in path + 1..n : ~PathLike(m) /\ lines[m].kind # "blank"

(* A row stands under a file. *)
RowSaysOf(d) ==
  d.start \in LinesOf({"row"}) /\ d.file # None /\ FileIs(d.file, d.start)

(* Every row read that stands under a file has one diagnostic. *)
RowsReportsInv ==
  /\ \A k \in Lints : RowSaysOf(diagnostics[k]) /\ diagnostics[k].start <= read
  /\ \A n \in 1..read : \A path \in 1..n :
       lines[n].kind = "row" /\ FileIs(path, n) => \E k \in Lints : diagnostics[k].start = n
  /\ \A k, m \in Lints : diagnostics[k].start = diagnostics[m].start => k = m

(* What the parser has read. *)
HeaderInv ==
  /\ turn \in {"pytest", "js_test"} => pass = "tsc"
  /\ pass = "tsc" => read = 0 /\ header = None
  /\ header # None => FileIs(header, read)
  /\ header = None =>
       \A path \in 1..read : PathLike(path) => \E m \in path + 1..read : lines[m].kind = "blank"
  /\ turn \notin {"pytest", "js_test", "compiler"} /\ CompilerDetects => read = Len(lines)

RowsInv == Typed /\ RowsReportsInv /\ HeaderInv

(* What is said of the rows of a log is said of its lines alone. *)
LEMMA SameRows ==
  ASSUME lines' = lines
  PROVE  /\ CompilerDetects' = CompilerDetects
         /\ \A path, n : FileIs(path, n)' = FileIs(path, n)
         /\ \A d : RowSaysOf(d)' = RowSaysOf(d)
  BY DEF CompilerDetects, LinesOf, Commands, FileIs, PathLike, RowSaysOf

(* A row has one file. *)
LEMMA OneFile ==
  ASSUME NEW n \in Nat, NEW path \in Nat, NEW other \in Nat, FileIs(path, n), FileIs(other, n)
  PROVE  path = other
  <1>1. path \in 1..n /\ other \in 1..n /\ PathLike(path) /\ PathLike(other)
    BY DEF FileIs
  <1>2. ~(path < other)
    <2>1. path < other => other \in path + 1..n
      BY <1>1
    <2>2. QED BY <1>1, <2>1 DEF FileIs
  <1>3. ~(other < path)
    <2>1. other < path => path \in other + 1..n
      BY <1>1
    <2>2. QED BY <1>1, <2>1 DEF FileIs
  <1>4. QED BY <1>2, <1>3

(* The steps of the other parsers. *)
LEMMA RowsStay ==
  ASSUME Typed, [Next]_vars, ~CompilerNext
  PROVE  /\ UNCHANGED <<lines, compilerVars>>
         /\ Lints' = Lints
         /\ \A k \in Lints : diagnostics'[k] = diagnostics[k]
         /\ turn' \in {"pytest", "js_test"} => turn \in {"pytest", "js_test"}
         /\ turn \in {"pytest", "js_test", "compiler"} => turn' \in {"pytest", "js_test", "compiler"}
  <1>1. UNCHANGED <<lines, compilerVars>>
    BY DEF Next, PytestNext, JsNext, PytestSkips, ScanBlockStart, ScanBanner, ScanLine, EndBlocks,
           Scans, OpenChunk, ReadChunk, BuildDiagnostic, PytestReturns, JsSkips, ReadSuite,
           ReadBullet, ReadJsLine, EndBlock, JsReturns, JsRuns, Fallback, NoFallback, Returned, vars
  <1>2. turn' \in {"pytest", "js_test"} => turn \in {"pytest", "js_test"}
    BY TurnsGoOn
  <1>3. CASE turn = "compiler"
    <2>1. UNCHANGED <<turn, diagnostics>>
      BY <1>3
      DEF Next, PytestNext, JsNext, PytestSkips, ScanBlockStart, ScanBanner, ScanLine, EndBlocks,
          Scans, OpenChunk, ReadChunk, BuildDiagnostic, PytestReturns, JsSkips, ReadSuite,
          ReadBullet, ReadJsLine, EndBlock, JsReturns, JsRuns, Fallback, NoFallback, Returned, vars
    <2>2. QED BY <1>1, <1>2, <1>3, <2>1 DEF Lints, Reports
  <1>4. CASE turn # "compiler"
    <2>1. PICK s \in Seq(Diagnostic) : Adds(s)
      BY StepAdds
    <2>2. \A k \in DOMAIN s : s[k].parser # "compiler"
      BY <1>4, <2>1 DEF Adds
    <2>3. Lints' = Lints /\ \A k \in Lints : diagnostics'[k] = diagnostics[k]
      BY <2>1, <2>2, SameReports DEF Lints
    <2>4. turn \in {"pytest", "js_test"} => turn' \in {"pytest", "js_test", "compiler"}
      BY TurnsFollow, TurnsAre
    <2>5. QED BY <1>1, <1>2, <1>4, <2>3, <2>4
  <1>5. QED BY <1>3, <1>4

(* What is reported stays, if the parser reads nothing. *)
LEMMA RowsKept ==
  ASSUME RowsInv, lines' = lines, read' = read, Lints' = Lints,
         \A k \in Lints : diagnostics'[k] = diagnostics[k]
  PROVE  RowsReportsInv'
  <1>1. \A k \in Lints : RowSaysOf(diagnostics[k])'
    <2> SUFFICES ASSUME NEW k \in Lints PROVE RowSaysOf(diagnostics[k])'
      OBVIOUS
    <2> DEFINE d == diagnostics[k]
    <2>1. RowSaysOf(d) /\ d' = d
      BY DEF RowsInv, RowsReportsInv
    <2> HIDE DEF d
    <2>2. RowSaysOf(d)'
      BY <2>1 DEF RowSaysOf, FileIs, PathLike, LinesOf
    <2>3. QED BY <2>2 DEF d
  <1>2. \A k \in Lints : diagnostics[k].start <= read
    BY DEF RowsInv, RowsReportsInv
  <1>3. ASSUME NEW n \in 1..read, NEW path \in 1..n, lines[n].kind = "row", FileIs(path, n)'
        PROVE  \E k \in Lints : diagnostics[k].start = n
    <2>1. FileIs(path, n)
      BY <1>3 DEF FileIs, PathLike
    <2>2. QED BY <1>3, <2>1 DEF RowsInv, RowsReportsInv
  <1>4. \A k, m \in Lints : diagnostics[k].start = diagnostics[m].start => k = m
    BY DEF RowsInv, RowsReportsInv
  <1>5. QED BY <1>1, <1>2, <1>3, <1>4 DEF RowsReportsInv


(* The next line changes the file only if it is a path or blank. *)
LEMMA FileGoesOn ==
  ASSUME NEW n \in Nat, NEW path
  PROVE  /\ ~PathLike(n + 1) /\ lines[n + 1].kind # "blank" /\ FileIs(path, n) => FileIs(path, n + 1)
         /\ PathLike(n + 1) => FileIs(n + 1, n + 1)
         /\ FileIs(path, n + 1) /\ path # n + 1 => FileIs(path, n)
  <1>1. ASSUME ~PathLike(n + 1), lines[n + 1].kind # "blank", FileIs(path, n)
        PROVE  FileIs(path, n + 1)
    <2>1. path \in 1..n /\ PathLike(path) /\ \A m \in path + 1..n : ~PathLike(m) /\ lines[m].kind # "blank"
      BY <1>1 DEF FileIs
    <2>2. \A m \in path + 1..n + 1 : m \in path + 1..n \/ m = n + 1
      BY <2>1
    <2>3. path \in 1..n + 1
      BY <2>1
    <2>4. QED BY <1>1, <2>1, <2>2, <2>3 DEF FileIs
  <1>2. ASSUME PathLike(n + 1) PROVE FileIs(n + 1, n + 1)
    <2>1. n + 1 \in 1..n + 1 /\ (n + 1) + 1..n + 1 = {}
      OBVIOUS
    <2>2. QED BY <1>2, <2>1 DEF FileIs
  <1>3. ASSUME FileIs(path, n + 1), path # n + 1 PROVE FileIs(path, n)
    <2>1. path \in 1..n + 1 /\ PathLike(path)
          /\ \A m \in path + 1..n + 1 : ~PathLike(m) /\ lines[m].kind # "blank"
      BY <1>3 DEF FileIs
    <2>2. path \in 1..n /\ \A m \in path + 1..n : m \in path + 1..n + 1
      BY <1>3, <2>1
    <2>3. QED BY <2>1, <2>2 DEF FileIs
  <1>4. QED BY <1>1, <1>2, <1>3

(* The file of the next row is the one that has been read. *)
LEMMA RowsFile ==
  ASSUME RowsInv, pass = "eslint", read < Len(lines), lines[read + 1].kind = "row"
  PROVE  /\ header # None => FileIs(header, read + 1)
         /\ header = None => \A path \in 1..read + 1 : ~FileIs(path, read + 1)
  <1>1. read \in Nat /\ Len(lines) \in Nat
    BY LogIs DEF RowsInv, Typed, TypeOK, CompilerTypeOK
  <1>2. ~PathLike(read + 1) /\ lines[read + 1].kind # "blank"
    BY DEF PathLike, Indented
  <1>3. header # None => FileIs(header, read + 1)
    <2>1. header # None => FileIs(header, read)
      BY DEF RowsInv, HeaderInv
    <2>2. QED BY <1>1, <1>2, <2>1, FileGoesOn
  <1>4. ASSUME header = None, NEW path \in 1..read + 1, FileIs(path, read + 1)
        PROVE  FALSE
    <2>1. PathLike(path) /\ \A m \in path + 1..read + 1 : lines[m].kind # "blank"
      BY <1>4 DEF FileIs
    <2>2. path \in 1..read
      BY <1>1, <1>2, <1>4, <2>1
    <2>3. PICK m \in path + 1..read : lines[m].kind = "blank"
      BY <1>4, <2>1, <2>2 DEF RowsInv, HeaderInv
    <2>4. m \in path + 1..read + 1
      BY <1>1, <2>2
    <2>5. QED BY <2>1, <2>3, <2>4
  <1>5. QED BY <1>3, <1>4

(* A step that reads a line and reports none. *)
LEMMA RowsRead ==
  ASSUME RowsInv, PassOver \/ ReadBlank \/ ReadPath
  PROVE  RowsReportsInv' /\ HeaderInv'
  <1>1. /\ lines' = lines /\ turn' = turn /\ turn = "compiler" /\ diagnostics' = diagnostics
        /\ pass = "eslint" /\ pass' = pass /\ read' = read + 1 /\ read < Len(lines)
    BY DEF PassOver, ReadBlank, ReadPath, EslintReads, CompilerRuns
  <1>2. /\ read \in Nat /\ Len(lines) \in Nat /\ read + 1 \in DOMAIN lines
        /\ header # None => header \in Nat
        /\ DOMAIN lines = 1..Len(lines)
    <2>1. read \in 0..Len(lines) /\ header \in 1..read \cup {None}
      BY DEF RowsInv, Typed, TypeOK, CompilerTypeOK
    <2>2. Len(lines) \in Nat /\ DOMAIN lines = 1..Len(lines)
      BY LogIs DEF RowsInv
    <2>3. QED BY <1>1, <2>1, <2>2
  <1>3. \/ /\ ~PathLike(read + 1) /\ lines[read + 1].kind # "blank" /\ header' = header
           /\ lines[read + 1].kind = "row" => header = None
        \/ lines[read + 1].kind = "blank" /\ header' = None
        \/ /\ PathLike(read + 1) /\ lines[read + 1].kind # "row" /\ header' = read + 1
    <2>1. CASE PassOver
      BY <2>1 DEF PassOver, EslintReads, PathLike, Indented
    <2>2. CASE ReadBlank
      BY <2>2 DEF ReadBlank, EslintReads
    <2>3. CASE ReadPath
      BY <2>3 DEF ReadPath, EslintReads, PathLike, Indented
    <2>4. QED BY <2>1, <2>2, <2>3
  <1>4. Lints' = Lints /\ \A k \in Lints : diagnostics'[k] = diagnostics[k]
    BY <1>1 DEF Lints, Reports
  <1>5. RowsReportsInv'
    <2>1. \A k \in Lints : RowSaysOf(diagnostics[k]) /\ diagnostics[k].start <= read
      BY DEF RowsInv, RowsReportsInv
    <2>2. ASSUME NEW k \in Lints
          PROVE  RowSaysOf(diagnostics[k])' /\ diagnostics[k].start <= read + 1
      <3> DEFINE d == diagnostics[k]
      <3>1. RowSaysOf(d) /\ d' = d /\ d.start <= read
        BY <1>1, <2>1
      <3> HIDE DEF d
      <3>2. RowSaysOf(d)'
        BY <1>1, <3>1 DEF RowSaysOf, FileIs, PathLike, LinesOf
      <3>3. d.start \in Nat
        <4>1. d.start \in LinesOf({"row"})
          BY <3>1 DEF RowSaysOf
        <4>2. QED BY <1>2, <4>1 DEF LinesOf
      <3>4. QED BY <1>2, <3>1, <3>2, <3>3 DEF d
    <2>3. ASSUME NEW n \in 1..read + 1, NEW path \in 1..n, lines[n].kind = "row", FileIs(path, n)'
          PROVE  \E k \in Lints : diagnostics[k].start = n
      <3>1. FileIs(path, n)
        BY <1>1, <2>3 DEF FileIs, PathLike
      <3>2. CASE n = read + 1
        <4>1. header = None
          BY <1>3, <2>3, <3>2
        <4>2. ~FileIs(path, read + 1)
          BY <1>1, <2>3, <3>2, <4>1, RowsFile
        <4>3. QED BY <3>1, <3>2, <4>2
      <3>3. CASE n # read + 1
        <4>1. n \in 1..read
          BY <1>2, <3>3
        <4>2. QED BY <2>3, <3>1, <4>1 DEF RowsInv, RowsReportsInv
      <3>4. QED BY <3>2, <3>3
    <2>4. \A k, m \in Lints : diagnostics[k].start = diagnostics[m].start => k = m
      BY DEF RowsInv, RowsReportsInv
    <2>5. QED BY <1>1, <1>4, <2>2, <2>3, <2>4 DEF RowsReportsInv
  <1>6. HeaderInv'
    <2>1. ASSUME header' # None PROVE FileIs(header', read + 1)
      <3>1. CASE header' = header /\ ~PathLike(read + 1) /\ lines[read + 1].kind # "blank"
        <4>1. FileIs(header, read)
          BY <2>1, <3>1 DEF RowsInv, HeaderInv
        <4>2. QED BY <1>2, <3>1, <4>1, FileGoesOn
      <3>2. CASE header' = read + 1 /\ PathLike(read + 1)
        BY <1>2, <3>2, FileGoesOn
      <3>3. QED BY <1>3, <2>1, <3>1, <3>2
    <2>2. (FileIs(header, read))' <=> FileIs(header', read + 1)
      BY <1>1 DEF FileIs, PathLike
    <2>3. ASSUME header' = None, NEW path \in 1..read + 1, PathLike(path)
          PROVE  \E m \in path + 1..read + 1 : lines[m].kind = "blank"
      <3>1. read + 1 # None
        BY <1>2, NoneAssumption
      <3>2. CASE lines[read + 1].kind = "blank"
        <4>1. path # read + 1
          BY <2>3, <3>2 DEF PathLike
        <4>2. read + 1 \in path + 1..read + 1
          BY <1>2, <4>1
        <4>3. QED BY <3>2, <4>2
      <3>3. CASE header = None /\ ~PathLike(read + 1)
        <4>1. path \in 1..read
          BY <1>2, <2>3, <3>3
        <4>2. PICK m \in path + 1..read : lines[m].kind = "blank"
          BY <2>3, <3>3, <4>1 DEF RowsInv, HeaderInv
        <4>3. m \in path + 1..read + 1
          BY <1>2, <4>1
        <4>4. QED BY <4>2, <4>3
      <3>4. QED BY <1>3, <2>3, <3>1, <3>2, <3>3
    <2>4. header' = None =>
            \A path \in 1..read' : PathLike(path)' => \E m \in path + 1..read' : lines'[m].kind = "blank"
      BY <1>1, <2>3 DEF PathLike
    <2>5. QED BY <1>1, <2>1, <2>2, <2>4 DEF HeaderInv
  <1>7. QED BY <1>5, <1>6


(* A row under a file becomes a diagnostic. *)
LEMMA RowRead ==
  ASSUME RowsInv, ReadRow
  PROVE  RowsReportsInv' /\ HeaderInv'
  <1> DEFINE n == read + 1
             d == LintRow(n)
             new == Len(diagnostics) + 1
  <1>1. /\ lines' = lines /\ turn' = turn /\ turn = "compiler"
        /\ pass = "eslint" /\ pass' = pass /\ read' = n /\ read < Len(lines)
        /\ header # None /\ header' = header /\ lines[n].kind = "row"
        /\ diagnostics' = Append(diagnostics, d)
    BY DEF ReadRow, EslintReads, CompilerRuns, LintRow
  <1>2. /\ read \in Nat /\ n \in Nat /\ Len(lines) \in Nat /\ n \in DOMAIN lines /\ n = read + 1
        /\ DOMAIN lines = 1..Len(lines)
    <2>1. read \in 0..Len(lines)
      BY DEF RowsInv, Typed, TypeOK, CompilerTypeOK
    <2>2. Len(lines) \in Nat /\ DOMAIN lines = 1..Len(lines)
      BY LogIs DEF RowsInv
    <2>3. QED BY <1>1, <2>1, <2>2
  <1>3. d \in Diagnostic /\ d.parser = "compiler" /\ d.type = "LINT_ERROR"
        /\ d.start = n /\ d.file = header
    BY <1>2, LintRowIs DEF RowsInv
  <1>4. FileIs(header, n)
    BY <1>1, RowsFile
  <1> HIDE DEF d, n
  <1>5. /\ new \notin DOMAIN diagnostics /\ diagnostics'[new] = d
        /\ Lints' = Lints \cup {new}
        /\ \A k \in DOMAIN diagnostics : diagnostics'[k] = diagnostics[k]
    BY <1>1, <1>3, OneMore DEF RowsInv, Lints
  <1> HIDE DEF new
  <1>6. /\ new \notin Lints /\ \A k \in Lints : diagnostics'[k] = diagnostics[k]
    BY <1>5 DEF Lints, Reports
  <1>7. \A k \in Lints : /\ RowSaysOf(diagnostics[k]) /\ diagnostics[k].start <= read
                         /\ diagnostics[k].start \in Nat
    <2> SUFFICES ASSUME NEW k \in Lints
                 PROVE  /\ RowSaysOf(diagnostics[k]) /\ diagnostics[k].start <= read
                        /\ diagnostics[k].start \in Nat
      OBVIOUS
    <2>1. RowSaysOf(diagnostics[k]) /\ diagnostics[k].start <= read
      BY DEF RowsInv, RowsReportsInv
    <2>2. diagnostics[k].start \in LinesOf({"row"})
      BY <2>1 DEF RowSaysOf
    <2>3. QED BY <1>2, <2>1, <2>2 DEF LinesOf
  <1>8. RowSaysOf(d)
    BY <1>1, <1>2, <1>3, <1>4 DEF RowSaysOf, LinesOf
  <1>9. \A k \in Lints' : RowSaysOf(diagnostics[k])'
    <2> SUFFICES ASSUME NEW k \in Lints' PROVE RowSaysOf(diagnostics[k])'
      OBVIOUS
    <2>1. RowSaysOf(diagnostics'[k])
      BY <1>5, <1>6, <1>7, <1>8
    <2>2. QED BY <1>1, <2>1 DEF RowSaysOf, FileIs, PathLike, LinesOf
  <1>10. \A k \in Lints' : diagnostics'[k].start <= n
    BY <1>2, <1>3, <1>5, <1>6, <1>7
  <1>11. ASSUME NEW m \in 1..n, NEW path \in 1..m, lines[m].kind = "row", FileIs(path, m)'
         PROVE  \E k \in Lints' : diagnostics'[k].start = m
    <2>1. FileIs(path, m)
      BY <1>1, <1>11 DEF FileIs, PathLike
    <2>2. CASE m = n
      BY <1>3, <1>5, <2>2
    <2>3. CASE m # n
      <3>1. m \in 1..read
        BY <1>2, <2>3
      <3>2. PICK k \in Lints : diagnostics[k].start = m
        BY <1>11, <2>1, <3>1 DEF RowsInv, RowsReportsInv
      <3>3. QED BY <1>5, <1>6, <3>2
    <2>4. QED BY <2>2, <2>3
  <1>12. ASSUME NEW k \in Lints', NEW m \in Lints', diagnostics'[k].start = diagnostics'[m].start
         PROVE  k = m
    <2>1. CASE k = new /\ m \in Lints
      BY <1>2, <1>3, <1>5, <1>6, <1>7, <1>12, <2>1
    <2>2. CASE m = new /\ k \in Lints
      BY <1>2, <1>3, <1>5, <1>6, <1>7, <1>12, <2>2
    <2>3. CASE k \in Lints /\ m \in Lints
      BY <1>6, <1>12, <2>3 DEF RowsInv, RowsReportsInv
    <2>4. QED BY <1>5, <1>12, <2>1, <2>2, <2>3
  <1>13. RowsReportsInv'
    BY <1>1, <1>9, <1>10, <1>11, <1>12 DEF RowsReportsInv
  <1>14. FileIs(header, read)'
    BY <1>1, <1>4 DEF FileIs, PathLike
  <1>15. HeaderInv'
    BY <1>1, <1>14 DEF HeaderInv
  <1>16. QED BY <1>13, <1>15

(* Every step keeps what is reported. *)
LEMMA RowsNextInv == RowsInv /\ [Next]_vars => RowsInv'
  <1> SUFFICES ASSUME RowsInv, [Next]_vars PROVE RowsInv'
    OBVIOUS
  <1>1. Typed /\ Typed'
    BY TypedNext DEF RowsInv
  <1>2. CASE ~CompilerNext
    <2>1. /\ UNCHANGED <<lines, compilerVars>> /\ Lints' = Lints
          /\ \A k \in Lints : diagnostics'[k] = diagnostics[k]
          /\ turn' \in {"pytest", "js_test"} => turn \in {"pytest", "js_test"}
          /\ turn \in {"pytest", "js_test", "compiler"} => turn' \in {"pytest", "js_test", "compiler"}
      BY <1>1, <1>2, RowsStay
    <2>2. lines' = lines /\ read' = read /\ header' = header /\ pass' = pass
      BY <2>1 DEF compilerVars
    <2>3. RowsReportsInv'
      BY <2>1, <2>2, RowsKept
    <2>4. /\ CompilerDetects' = CompilerDetects
          /\ FileIs(header, read)' <=> FileIs(header, read)
          /\ \A path : PathLike(path)' = PathLike(path)
      BY <2>2 DEF CompilerDetects, LinesOf, Commands, FileIs, PathLike
    <2>5. HeaderInv'
      BY <2>1, <2>2, <2>4 DEF RowsInv, HeaderInv
    <2>6. QED BY <1>1, <2>3, <2>5 DEF RowsInv
  <1>3. CASE PassOver \/ ReadBlank \/ ReadPath
    BY <1>1, <1>3, RowsRead DEF RowsInv
  <1>4. CASE ReadRow
    BY <1>1, <1>4, RowRead DEF RowsInv
  <1>5. CASE CompilerSkips \/ ExtractTsc \/ CompilerReturns
    <2>1. /\ lines' = lines /\ read' = read /\ header' = header /\ turn = "compiler"
          /\ CompilerSkips =>
               ~CompilerDetects /\ turn' = "generic" /\ pass' = pass /\ diagnostics' = diagnostics
          /\ ExtractTsc =>
               turn' = turn /\ pass' = "eslint" /\ diagnostics' = diagnostics \o TscErrors
          /\ CompilerReturns =>
               /\ read = Len(lines) /\ turn' = "generic" /\ pass' = pass
               /\ diagnostics' = diagnostics \o ProcessFailure("compiler")
      BY <1>5, TurnsAre DEF CompilerSkips, ExtractTsc, CompilerReturns, CompilerRuns, compilerVars
    <2>2. lines \in Seq(Line)
      BY <1>1, LogIs
    <2>3. Lints' = Lints /\ \A k \in Lints : diagnostics'[k] = diagnostics[k]
      <3>1. CASE CompilerSkips
        BY <2>1, <3>1 DEF Lints, Reports
      <3>2. CASE ExtractTsc
        <4>1. /\ TscErrors \in Seq(Diagnostic)
              /\ \A k \in DOMAIN TscErrors :
                   TscErrors[k].parser = "compiler" /\ TscErrors[k].type = "COMPILER_ERROR"
          BY <1>1, TscErrorsAre
        <4>2. Adds(TscErrors)
          BY <2>1, <3>2, <4>1 DEF Adds, TypesOf
        <4>3. \A k \in DOMAIN TscErrors :
                ~(TscErrors[k].type = "LINT_ERROR" /\ TscErrors[k].parser = "compiler")
          BY <4>1
        <4>4. QED BY <1>1, <4>1, <4>2, <4>3, SameReports DEF Lints
      <3>3. CASE CompilerReturns
        <4> DEFINE s == ProcessFailure("compiler")
        <4>1. turn = "compiler" /\ turn \in Parsers
          BY <2>1 DEF Parsers
        <4>2. Adds(s) /\ s \in Seq(Diagnostic)
          BY <1>1, <2>1, <3>3, <4>1, AddsExit
        <4>3. \A k \in DOMAIN s : s[k].type = "PROCESS_FAILURE"
          BY <2>2, <4>1, ExitIs
        <4> HIDE DEF s
        <4>4. \A k \in DOMAIN s : ~(s[k].type = "LINT_ERROR" /\ s[k].parser = "compiler")
          BY <4>3
        <4>5. QED BY <1>1, <4>2, <4>4, SameReports DEF Lints
      <3>4. QED BY <1>5, <3>1, <3>2, <3>3
    <2>4. RowsReportsInv'
      BY <2>1, <2>3, RowsKept
    <2>5. /\ CompilerDetects' = CompilerDetects
          /\ FileIs(header, read)' <=> FileIs(header, read)
          /\ \A path : PathLike(path)' = PathLike(path)
      BY <2>1 DEF CompilerDetects, LinesOf, Commands, FileIs, PathLike
    <2>6. HeaderInv'
      BY <1>5, <2>1, <2>5 DEF RowsInv, HeaderInv
    <2>7. QED BY <1>1, <2>4, <2>6 DEF RowsInv
  <1>6. QED BY <1>2, <1>3, <1>4, <1>5 DEF CompilerNext

(* The invariant of the compilers' parser. *)
THEOREM RowsInvariant == Spec => []RowsInv
  <1>1. Init => RowsInv
    <2> SUFFICES ASSUME Init PROVE RowsInv
      OBVIOUS
    <2>1. Typed
      BY TypedInit
    <2>2. turn = "pytest" /\ diagnostics = << >> /\ pass = "tsc" /\ read = 0 /\ header = None
      BY TurnsAre DEF Init, CompilerInit
    <2>3. Lints = {}
      BY <2>2 DEF Lints, Reports
    <2>4. RowsReportsInv
      BY <2>2, <2>3 DEF RowsReportsInv
    <2>5. HeaderInv
      BY <2>2 DEF HeaderInv
    <2>6. QED BY <2>1, <2>4, <2>5 DEF RowsInv
  <1>2. QED BY <1>1, RowsNextInv, PTL DEF Spec

(* RowsUnderTheirFile for every log, by RowsInv: the file of a row is the    *)
(* path above it, which no blank line separates from it.                    *)
THEOREM ToolParsersRowsUnderTheirFile == Spec => []RowsUnderTheirFile
  <1>1. RowsInv => RowsUnderTheirFile
    <2> SUFFICES ASSUME RowsInv, turn = "done", CompilerDetects, NEW n \in LinesOf({"row"})
                 PROVE  LET reports == StartingAt(n, Lints)
                        IN  /\ lines[n].whose # 0 =>
                                 /\ Cardinality(reports) = 1
                                 /\ \A k \in reports : diagnostics[k].file = lines[n].whose
                            /\ \A k \in reports :
                                 \A m \in diagnostics[k].file..n : lines[m].kind # "blank"
      BY DEF RowsUnderTheirFile, Lints
    <2> DEFINE reports == StartingAt(n, Lints)
               path == lines[n].whose
    <2>1. /\ lines \in Seq(Line) /\ lines \in Logs /\ Len(lines) \in Nat
          /\ DOMAIN lines = 1..Len(lines)
      BY LogIs DEF RowsInv, Typed
    <2>2. n \in DOMAIN lines /\ n \in Nat /\ lines[n].kind = "row" /\ path \in Nat
      BY <2>1, LogIs DEF LinesOf, Line, RowsInv
    <2>3. read = Len(lines)
      BY DEF RowsInv, HeaderInv
    <2>4. \A k \in reports : k \in Lints /\ diagnostics[k].start = n /\ FileIs(diagnostics[k].file, n)
      BY DEF StartingAt, RowsInv, RowsReportsInv, RowSaysOf
    <2> HIDE DEF path
    <2>5. ASSUME path # 0
          PROVE  Cardinality(reports) = 1 /\ \A k \in reports : diagnostics[k].file = path
      <3>1. path < n /\ lines[path].kind = "path" /\ \A m \in path + 1..n - 1 : lines[m].kind = "row"
        BY <2>1, <2>2, <2>5, PrintedAssumption DEF EslintPrints, path
      <3>2. path \in 1..n /\ PathLike(path)
        BY <2>2, <2>5, <3>1 DEF PathLike, Kinds, Indented
      <3>3. \A m \in path + 1..n : lines[m].kind = "row"
        BY <2>2, <3>1
      <3>4. FileIs(path, n)
        BY <3>2, <3>3 DEF FileIs, PathLike, Indented
      <3>5. PICK k \in Lints : diagnostics[k].start = n
        <4>1. n \in 1..read
          BY <2>1, <2>2, <2>3
        <4>2. QED BY <2>2, <3>2, <3>4, <4>1 DEF RowsInv, RowsReportsInv
      <3>6. \A m \in Lints : diagnostics[m].start = n => m = k
        BY <3>5 DEF RowsInv, RowsReportsInv
      <3>7. reports = {k}
        BY <3>5, <3>6 DEF StartingAt
      <3>8. Cardinality(reports) = 1
        <4> HIDE DEF reports
        <4>1. Cardinality({k}) = 1
          BY FS_Singleton
        <4>2. QED BY <3>7, <4>1
      <3>9. ASSUME NEW m \in reports PROVE diagnostics[m].file = path
        <4> DEFINE file == diagnostics[m].file
        <4>1. FileIs(file, n)
          BY <2>4, <3>9
        <4> HIDE DEF file
        <4>2. file \in 1..n
          BY <4>1 DEF FileIs
        <4>3. file \in Nat
          BY <4>2
        <4>4. file = path
          BY <2>2, <3>4, <4>1, <4>3, OneFile
        <4>5. QED BY <4>4 DEF file
      <3>10. QED BY <3>8, <3>9
    <2>6. ASSUME NEW k \in reports, NEW m \in diagnostics[k].file..n
          PROVE  lines[m].kind # "blank"
      <3> DEFINE file == diagnostics[k].file
      <3>1. FileIs(file, n) /\ m \in file..n
        BY <2>4, <2>6
      <3> HIDE DEF file
      <3>2. file \in 1..n /\ PathLike(file) /\ \A x \in file + 1..n : lines[x].kind # "blank"
        BY <3>1 DEF FileIs
      <3>3. m = file \/ m \in file + 1..n
        BY <3>1, <3>2
      <3>4. QED BY <3>2, <3>3 DEF PathLike
    <2>7. QED BY <2>5, <2>6 DEF path
  <1>2. QED BY <1>1, RowsInvariant, PTL

-----------------------------------------------------------------------------
(* How far the parsers are from their end. *)

(* The passes still to come, the lines the present one has still to take,    *)
(* and what it has still to do with those it has taken.  A chunk is taken    *)
(* when it is opened, the block of a bullet with its bullet.                 *)
Remaining ==
  IF turn = "pytest" /\ step = "blocks" THEN <<6, Len(lines) - i, 0>>
  ELSE IF turn = "pytest" /\ chunk = None THEN <<5, Len(lines) - at, Len(lines) + 2>>
  ELSE IF turn = "pytest" THEN <<5, Len(lines) + 1 - chunk.first, chunk.last + 1 - at>>
  ELSE IF turn = "js_test" THEN <<4, Len(lines) - j, IF bullet = None THEN 0 ELSE 1>>
  ELSE IF turn = "compiler" /\ pass = "tsc" THEN <<3, 0, 0>>
  ELSE IF turn = "compiler" THEN <<2, Len(lines) - read, 0>>
  ELSE IF turn = "generic" THEN <<1, 0, 0>>
  ELSE <<0, 0, 0>>

Amounts == [1..3 -> Nat]

(* js_test_parser.py:59-74 and 92-97 move an index by hand, and a line at    *)
(* which the inner loop stops is read again by the outer one; the chunks of  *)
(* pytest_parser.py:171-189 are found from one another.  Until the fallback  *)
(* has spoken, no step leaves the parsers as far from their end as they were.*)
ParsingGoesOn == [][turn # "done" => Before(Remaining', Remaining)]_vars

(* Triples are compared from the left. *)
LEMMA BeforeIs ==
  ASSUME NEW a1 \in Nat, NEW a2 \in Nat, NEW a3 \in Nat,
         NEW b1 \in Nat, NEW b2 \in Nat, NEW b3 \in Nat
  PROVE  Before(<<a1, a2, a3>>, <<b1, b2, b3>>) <=>
           a1 < b1 \/ (a1 = b1 /\ a2 < b2) \/ (a1 = b1 /\ a2 = b2 /\ a3 < b3)
  <1> DEFINE a == <<a1, a2, a3>>
             b == <<b1, b2, b3>>
  <1>1. DOMAIN a = {1, 2, 3} /\ a[1] = a1 /\ a[2] = a2 /\ a[3] = a3
        /\ b[1] = b1 /\ b[2] = b2 /\ b[3] = b3
    OBVIOUS
  <1>2. 1..1 - 1 = {} /\ 1..2 - 1 = {1} /\ 1..3 - 1 = {1, 2}
    OBVIOUS
  <1> HIDE DEF a, b
  <1>3. Before(a, b) <=> \/ a[1] < b[1] /\ \A l \in 1..1 - 1 : a[l] = b[l]
                         \/ a[2] < b[2] /\ \A l \in 1..2 - 1 : a[l] = b[l]
                         \/ a[3] < b[3] /\ \A l \in 1..3 - 1 : a[l] = b[l]
    BY <1>1 DEF Before
  <1>4. Before(a, b) <=> a1 < b1 \/ (a1 = b1 /\ a2 < b2) \/ (a1 = b1 /\ a2 = b2 /\ a3 < b3)
    BY <1>1, <1>2, <1>3
  <1>5. QED BY <1>4 DEF a, b

(* No sequence of amounts gets smaller for ever: in every set of them one    *)
(* has none before it.                                                       *)
LEMMA AmountsAreWellFounded ==
  ASSUME NEW S \in SUBSET Amounts, S # {}
  PROVE  \E x \in S : \A y \in S : ~Before(y, x)
  <1>1. \A x \in S : x \in Amounts /\ x[1] \in Nat /\ x[2] \in Nat /\ x[3] \in Nat
                     /\ x = <<x[1], x[2], x[3]>>
    BY DEF Amounts
  <1>2. PICK x \in S : \A y \in S : x[1] <= y[1]
    <2>1. PICK n \in {x[1] : x \in S} : \A m \in {x[1] : x \in S} : n <= m
      <3>1. {x[1] : x \in S} \in SUBSET Nat /\ {x[1] : x \in S} # {}
        BY <1>1
      <3>2. QED BY <3>1, LeastNatural
    <2>2. QED BY <2>1
  <1> DEFINE T == {y \in S : y[1] = x[1]}
  <1>3. PICK y \in T : \A z \in T : y[2] <= z[2]
    <2>1. PICK n \in {z[2] : z \in T} : \A m \in {z[2] : z \in T} : n <= m
      <3>1. {z[2] : z \in T} \in SUBSET Nat /\ {z[2] : z \in T} # {}
        BY <1>1
      <3>2. QED BY <3>1, LeastNatural
    <2>2. QED BY <2>1
  <1> DEFINE U == {z \in T : z[2] = y[2]}
  <1>4. PICK z \in U : \A w \in U : z[3] <= w[3]
    <2>1. PICK n \in {w[3] : w \in U} : \A m \in {w[3] : w \in U} : n <= m
      <3>1. {w[3] : w \in U} \in SUBSET Nat /\ {w[3] : w \in U} # {}
        BY <1>1
      <3>2. QED BY <3>1, LeastNatural
    <2>2. QED BY <2>1
  <1>5. z \in S /\ z[1] = x[1] /\ z[2] = y[2]
    OBVIOUS
  <1>6. ASSUME NEW w \in S PROVE ~Before(w, z)
    <2>1. /\ w[1] \in Nat /\ w[2] \in Nat /\ w[3] \in Nat /\ w = <<w[1], w[2], w[3]>>
          /\ z[1] \in Nat /\ z[2] \in Nat /\ z[3] \in Nat /\ z = <<z[1], z[2], z[3]>>
          /\ x[1] \in Nat
      BY <1>1, <1>5
    <2>2. z[1] <= w[1]
      BY <1>2, <1>5
    <2>3. w[1] = z[1] => z[2] <= w[2]
      BY <1>3, <1>5
    <2>4. w[1] = z[1] /\ w[2] = z[2] => z[3] <= w[3]
      BY <1>4, <1>5
    <2> DEFINE w1 == w[1]  w2 == w[2]  w3 == w[3]  z1 == z[1]  z2 == z[2]  z3 == z[3]
    <2>5. Before(<<w1, w2, w3>>, <<z1, z2, z3>>) <=>
            w1 < z1 \/ (w1 = z1 /\ w2 < z2) \/ (w1 = z1 /\ w2 = z2 /\ w3 < z3)
      BY <2>1, BeforeIs
    <2>6. ~ (w1 < z1 \/ (w1 = z1 /\ w2 < z2) \/ (w1 = z1 /\ w2 = z2 /\ w3 < z3))
      BY <2>1, <2>2, <2>3, <2>4
    <2>7. ~Before(<<w1, w2, w3>>, <<z1, z2, z3>>)
      BY <2>5, <2>6
    <2>8. QED BY <2>1, <2>7
  <1>7. QED BY <1>5, <1>6

(* No chunk ends behind the log, so none is left behind there. *)
OnInv == Typed /\ (chunk = None => at <= Len(lines))

(* The numbers the amount rests on. *)
OnSays ==
  /\ Len(lines) \in Nat /\ i \in 0..Len(lines) /\ at \in Nat /\ j \in 0..Len(lines)
  /\ read \in 0..Len(lines)
  /\ turn \in {"pytest", "js_test", "compiler", "generic", "done"}
  /\ step \in {"blocks", "chunks"} /\ pass \in {"tsc", "eslint"}
  /\ chunk # None =>
       /\ turn = "pytest" /\ step = "chunks" /\ chunk.first \in Nat /\ chunk.last \in Nat
       /\ 1 <= chunk.first /\ chunk.first <= chunk.last /\ chunk.last <= Len(lines)
       /\ chunk.first <= at /\ at <= chunk.last + 1

(* They are those of any log. *)
LEMMA OnIs ==
  ASSUME Typed
  PROVE  OnSays
  <1>1. TypeOK /\ ChunkIs
    BY DEF Typed
  <1>2. Len(lines) \in Nat /\ DOMAIN lines = 1..Len(lines)
    BY LogIs
  <1>3. turn \in {"pytest", "js_test", "compiler", "generic", "done"}
    BY <1>1, RegistryIs DEF TypeOK, Parsers
  <1>4. /\ i \in 0..Len(lines) /\ at \in Nat /\ j \in 0..Len(lines) /\ read \in 0..Len(lines)
        /\ step \in {"blocks", "chunks"} /\ pass \in {"tsc", "eslint"}
    BY <1>1 DEF TypeOK, PytestTypeOK, TraceTypeOK, JsTypeOK, CompilerTypeOK
  <1>5. ASSUME chunk # None
        PROVE  /\ turn = "pytest" /\ step = "chunks" /\ chunk.first \in Nat /\ chunk.last \in Nat
               /\ 1 <= chunk.first /\ chunk.first <= chunk.last /\ chunk.last <= Len(lines)
               /\ chunk.first <= at /\ at <= chunk.last + 1
    <2>1. turn = "pytest" /\ step = "chunks" /\ chunk.first \in Separators
          /\ chunk = ChunkFrom(chunk.first)
      BY <1>1, <1>5 DEF ChunkIs
    <2>2. chunk.first \in DOMAIN lines /\ chunk.first <= chunk.last /\ chunk.last <= Len(lines)
      BY <2>1, ChunkBounds
    <2>3. chunk \in [first : Nat, last : Nat] /\ at \in chunk.first .. chunk.last + 1
      BY <1>1, <1>5 DEF TypeOK, PytestTypeOK, TraceTypeOK
    <2> DEFINE a == chunk.first  b == chunk.last
    <2>4. a \in Nat /\ b \in Nat
      BY <2>3
    <2>5. a \in 1..Len(lines) /\ a <= b /\ b <= Len(lines) /\ at \in a..b + 1
      BY <1>2, <2>2, <2>3
    <2> HIDE DEF a, b
    <2>6. 1 <= a /\ a <= at /\ at <= b + 1
      BY <1>2, <1>4, <2>4, <2>5
    <2>7. QED BY <2>1, <2>4, <2>5, <2>6 DEF a, b
  <1>6. QED BY <1>2, <1>3, <1>4, <1>5 DEF OnSays

(* It always holds. *)
THEOREM OnInvariant == Spec => []OnInv
  <1>1. Init => OnInv
    <2> SUFFICES ASSUME Init PROVE OnInv
      OBVIOUS
    <2>1. Typed /\ at = 0
      BY TypedInit DEF Init, PytestInit, NoTrace
    <2>2. QED BY <2>1, OnIs DEF OnInv, OnSays
  <1>2. OnInv /\ [Next]_vars => OnInv'
    <2> SUFFICES ASSUME OnInv, [Next]_vars PROVE OnInv'
      OBVIOUS
    <2>1. Typed /\ Typed' /\ (chunk = None => at <= Len(lines))
      BY TypedNext DEF OnInv
    <2>2. lines' = lines /\ (UNCHANGED traceVars \/ OpenChunk \/ ReadChunk \/ BuildDiagnostic)
      BY DEF Next, vars, PytestNext, pytestVars, PytestSkips, ScanBlockStart, ScanBanner, ScanLine,
             Scans, EndBlocks, OpenChunk, ReadChunk, BuildDiagnostic, PytestReturns, JsNext, JsSkips,
             ReadSuite, ReadBullet, ReadJsLine, EndBlock, JsReturns, JsRuns, CompilerNext,
             CompilerSkips, ExtractTsc, ReadRow, PassOver, ReadBlank, ReadPath, CompilerReturns,
             EslintReads, CompilerRuns, Fallback, NoFallback, Returned
    <2>3. CASE UNCHANGED traceVars
      BY <2>1, <2>2, <2>3 DEF OnInv, traceVars
    <2>4. CASE OpenChunk \/ ReadChunk
      <3>1. chunk' # None
        <4>1. CASE ReadChunk
          BY <4>1 DEF ReadChunk, ReadTrace, ReadFrame, ReadException, ReadOther, Reads
        <4>2. CASE OpenChunk
          <5>1. Unread \in SUBSET Nat /\ Unread # {} /\ chunk' = ChunkFrom(Min(Unread))
            BY <2>1, <4>2, LogIs DEF OpenChunk, Unread, Separators, LinesOf, StartTrace
          <5>2. Min(Unread) \in Separators
            BY <5>1, MinIs DEF Unread
          <5>3. ChunkFrom(Min(Unread)) \in [first : Nat, last : Nat]
            BY <2>1, <5>2, ChunkBounds
          <5>4. QED BY <5>1, <5>3, NoneAssumption
        <4>3. QED BY <2>4, <4>1, <4>2
      <3>2. QED BY <2>1, <3>1 DEF OnInv
    <2>5. CASE BuildDiagnostic
      <3>1. chunk # None /\ at' = chunk.last
        BY <2>5 DEF BuildDiagnostic, TraceRead
      <3>2. at' <= Len(lines')
        BY <2>1, <2>2, <3>1, OnIs DEF OnSays
      <3>3. QED BY <2>1, <3>2 DEF OnInv
    <2>6. QED BY <2>2, <2>3, <2>4, <2>5
  <1>3. QED BY <1>1, <1>2, PTL DEF Spec

(* The amount in each pass. *)
RemainingSays ==
  /\ Remaining \in Amounts
  /\ turn = "pytest" /\ step = "blocks" => Remaining = <<6, Len(lines) - i, 0>>
  /\ turn = "pytest" /\ step = "chunks" /\ chunk = None =>
       Remaining = <<5, Len(lines) - at, Len(lines) + 2>>
  /\ turn = "pytest" /\ step = "chunks" /\ chunk # None =>
       Remaining = <<5, Len(lines) + 1 - chunk.first, chunk.last + 1 - at>>
  /\ turn = "js_test" =>
       Remaining = <<4, Len(lines) - j, IF bullet = None THEN 0 ELSE 1>>
  /\ turn = "compiler" /\ pass = "tsc" => Remaining = <<3, 0, 0>>
  /\ turn = "compiler" /\ pass = "eslint" => Remaining = <<2, Len(lines) - read, 0>>
  /\ turn = "generic" => Remaining = <<1, 0, 0>>
  /\ turn = "done" => Remaining = <<0, 0, 0>>

(* It is one of natural numbers. *)
LEMMA RemainingIs == OnInv => OnSays /\ RemainingSays
  <1> SUFFICES ASSUME OnInv PROVE OnSays /\ RemainingSays
    OBVIOUS
  <1>1. Typed /\ (chunk = None => at <= Len(lines))
    BY DEF OnInv
  <1>2. /\ turn = "pytest" /\ step = "blocks" => Remaining = <<6, Len(lines) - i, 0>>
        /\ turn = "pytest" /\ step = "chunks" /\ chunk = None =>
             Remaining = <<5, Len(lines) - at, Len(lines) + 2>>
        /\ turn = "pytest" /\ step = "chunks" /\ chunk # None =>
             Remaining = <<5, Len(lines) + 1 - chunk.first, chunk.last + 1 - at>>
        /\ turn = "js_test" =>
             Remaining = <<4, Len(lines) - j, IF bullet = None THEN 0 ELSE 1>>
        /\ turn = "compiler" /\ pass = "tsc" => Remaining = <<3, 0, 0>>
        /\ turn = "compiler" /\ pass = "eslint" => Remaining = <<2, Len(lines) - read, 0>>
        /\ turn = "generic" => Remaining = <<1, 0, 0>>
        /\ turn = "done" => Remaining = <<0, 0, 0>>
    BY DEF Remaining
  <1>3. \A x, y, z \in Nat : <<x, y, z>> \in Amounts
    BY DEF Amounts
  <1>4. Remaining \in Amounts
    <2>1. CASE turn = "pytest" /\ chunk # None
      <3> DEFINE a == chunk.first  b == chunk.last
      <3>1. /\ a \in Nat /\ b \in Nat /\ a <= Len(lines) /\ at <= b + 1 /\ Len(lines) \in Nat
            /\ at \in Nat /\ step = "chunks"
        BY <1>1, <2>1, OnIs DEF OnSays
      <3>2. Remaining = <<5, Len(lines) + 1 - a, b + 1 - at>>
        BY <1>2, <2>1, <3>1
      <3> HIDE DEF a, b
      <3>3. Len(lines) + 1 - a \in Nat /\ b + 1 - at \in Nat
        BY <3>1
      <3>4. QED BY <1>3, <3>2, <3>3
    <2>2. CASE chunk = None
      <3>1. /\ Len(lines) - i \in Nat /\ Len(lines) - at \in Nat /\ Len(lines) + 2 \in Nat
            /\ Len(lines) - j \in Nat /\ Len(lines) - read \in Nat
        BY <1>1, <2>2, OnIs DEF OnSays
      <3>2. CASE turn = "pytest" /\ step = "blocks"
        BY <1>2, <1>3, <3>1, <3>2
      <3>3. CASE turn = "pytest" /\ step = "chunks"
        BY <1>2, <1>3, <2>2, <3>1, <3>3
      <3>4. CASE turn = "js_test"
        <4>1. (IF bullet = None THEN 0 ELSE 1) \in Nat
          OBVIOUS
        <4>2. QED BY <1>2, <1>3, <3>1, <3>4, <4>1
      <3>5. CASE turn = "compiler"
        BY SMTT(40), <1>1, <1>2, <1>3, <3>1, <3>5, OnIs DEF OnSays
      <3>6. CASE turn \in {"generic", "done"}
        BY <1>2, <1>3, <3>6
      <3>7. QED BY <1>1, <3>2, <3>3, <3>4, <3>5, <3>6, OnIs DEF OnSays
    <2>3. QED BY <1>1, <2>1, <2>2, OnIs DEF OnSays
  <1>5. QED BY <1>1, <1>2, <1>4, OnIs DEF RemainingSays

(* So too after the step. *)
LEMMA RemainingNext == OnInv' => OnSays' /\ RemainingSays'
  BY RemainingIs, PTL

(* pytest's parser, over the lines and then over the headlines. *)
LEMMA PytestGoesOn ==
  ASSUME OnInv, OnInv', PytestNext, UNCHANGED <<jsVars, compilerVars>>
  PROVE  Before(Remaining', Remaining)
  <1>1. /\ lines' = lines /\ turn = "pytest" /\ turn' \in {"pytest", "js_test"}
        /\ j' = j /\ bullet' = bullet
    BY TurnsAre DEF PytestNext, PytestSkips, ScanBlockStart, ScanBanner, ScanLine, Scans, EndBlocks,
                    OpenChunk, ReadChunk, BuildDiagnostic, PytestReturns, jsVars
  <1>2. /\ Typed /\ Typed' /\ Len(lines) \in Nat
        /\ OnSays /\ OnSays' /\ RemainingSays /\ RemainingSays'
    BY RemainingIs, RemainingNext DEF OnInv, OnSays
  <1>3. /\ i \in 0..Len(lines) /\ i' \in 0..Len(lines) /\ at \in Nat /\ at' \in Nat
        /\ j \in 0..Len(lines) /\ step \in {"blocks", "chunks"} /\ step' \in {"blocks", "chunks"}
        /\ chunk = None => at <= Len(lines)
        /\ chunk' = None => at' <= Len(lines)
    <2>1. /\ i \in 0..Len(lines) /\ at \in Nat /\ j \in 0..Len(lines)
          /\ step \in {"blocks", "chunks"}
      BY <1>1, <1>2 DEF OnSays
    <2>2. i' \in 0..Len(lines') /\ at' \in Nat /\ step' \in {"blocks", "chunks"}
      BY <1>1, <1>2 DEF OnSays
    <2>3. QED BY <1>1, <2>1, <2>2 DEF OnInv
  <1>4. CASE turn' = "js_test"
    <2> DEFINE b == IF bullet = None THEN 0 ELSE 1
    <2>1. Remaining' = <<4, Len(lines) - j, b>>
      BY <1>1, <1>2, <1>4 DEF RemainingSays
    <2>2. \E x \in {5, 6}, y, z \in Nat : Remaining = <<x, y, z>>
      <3>1. CASE step = "blocks"
        BY <1>1, <1>2, <1>3, <3>1 DEF RemainingSays
      <3>2. CASE step = "chunks" /\ chunk = None
        BY <1>1, <1>2, <1>3, <3>2 DEF RemainingSays
      <3>3. CASE chunk # None
        <4>1. PytestDetects
          BY <1>2, <3>3 DEF OnSays, Typed, ChunkIs
        <4>2. QED BY <1>1, <1>4, <3>3, <4>1 DEF PytestNext, PytestSkips, ScanBlockStart, ScanBanner,
             ScanLine, Scans, EndBlocks, OpenChunk, ReadChunk, BuildDiagnostic, PytestReturns
      <3>4. QED BY <1>3, <3>1, <3>2, <3>3
    <2>3. PICK x \in {5, 6}, y \in Nat, z \in Nat : Remaining = <<x, y, z>>
      BY <2>2
    <2>4. Len(lines) - j \in Nat /\ b \in Nat
      BY <1>2, <1>3
    <2> HIDE DEF b
    <2>5. QED BY <2>1, <2>3, <2>4, BeforeIs
  <1>5. CASE step = "blocks" /\ turn' = "pytest"
    <2>0. chunk = None
      BY <1>2, <1>5 DEF OnSays
    <2>1. Remaining = <<6, Len(lines) - i, 0>> /\ Len(lines) - i \in Nat
      BY <1>1, <1>2, <1>3, <1>5 DEF RemainingSays
    <2>2. CASE step' = "blocks"
      <3>1. i' = i + 1
        BY <1>1, <1>5, <2>0, <2>2, TurnsAre DEF PytestNext, PytestSkips, ScanBlockStart, ScanBanner, ScanLine, Scans,
             EndBlocks, OpenChunk, ReadChunk, BuildDiagnostic, PytestReturns, ReadTrace,
             ReadFrame, ReadException, ReadOther, Reads, TraceRead
      <3>2. Remaining' = <<6, Len(lines) - i', 0>> /\ Len(lines) - i' \in Nat
        BY <1>1, <1>2, <1>3, <1>5, <2>2 DEF RemainingSays
      <3>3. Len(lines) - i' < Len(lines) - i
        BY <1>2, <1>3, <3>1
      <3>4. QED BY <2>1, <3>2, <3>3, BeforeIs
    <2>3. CASE step' = "chunks"
      <3>1. chunk' = None
        BY <1>1, <1>5, <2>0, <2>3, TurnsAre DEF PytestNext, PytestSkips, ScanBlockStart, ScanBanner, ScanLine, Scans,
             EndBlocks, OpenChunk, ReadChunk, BuildDiagnostic, PytestReturns, ReadTrace,
             ReadFrame, ReadException, ReadOther, Reads, TraceRead, traceVars, blockVars
      <3>2. Remaining' = <<5, Len(lines) - at', Len(lines) + 2>>
        BY <1>1, <1>2, <1>5, <2>3, <3>1 DEF RemainingSays
      <3>3. Len(lines) - at' \in Nat /\ Len(lines) + 2 \in Nat
        BY <1>2, <1>3, <3>1
      <3>4. QED BY <2>1, <3>2, <3>3, BeforeIs
    <2>4. QED BY <1>3, <2>2, <2>3
  <1>6. CASE step = "chunks" /\ turn' = "pytest"
    <2>1. step' = "chunks" /\ (OpenChunk \/ ReadChunk \/ BuildDiagnostic)
      BY <1>1, <1>6, TurnsAre DEF PytestNext, PytestSkips, ScanBlockStart, ScanBanner, ScanLine, Scans,
             EndBlocks, OpenChunk, ReadChunk, BuildDiagnostic, PytestReturns, blockVars
    <2>2. ASSUME chunk # None
          PROVE  /\ Remaining = <<5, Len(lines) + 1 - chunk.first, chunk.last + 1 - at>>
                 /\ chunk.first \in Nat /\ chunk.last \in Nat /\ 1 <= chunk.first
                 /\ chunk.first <= chunk.last /\ chunk.last <= Len(lines)
                 /\ chunk.first <= at /\ at <= chunk.last + 1
      BY <1>1, <1>2, <1>6, <2>2 DEF OnSays, RemainingSays
    <2>3. ASSUME chunk' # None
          PROVE  /\ Remaining' = <<5, Len(lines) + 1 - chunk'.first, chunk'.last + 1 - at'>>
                 /\ chunk'.first \in Nat /\ chunk'.last \in Nat /\ 1 <= chunk'.first
                 /\ chunk'.first <= chunk'.last /\ chunk'.last <= Len(lines)
                 /\ chunk'.first <= at' /\ at' <= chunk'.last + 1
      BY <1>1, <1>2, <1>6, <2>1, <2>3 DEF OnSays, RemainingSays
    <2>4. CASE OpenChunk
      <3> DEFINE n == Min(Unread)  c == ChunkFrom(n)
      <3>1. Unread \in SUBSET Nat /\ Unread # {} /\ chunk = None /\ chunk' = c /\ at' = n
        BY <1>2, <2>4, LogIs DEF OpenChunk, Unread, Separators, LinesOf, StartTrace, ChunkFrom
      <3>2. n \in Separators /\ n > at /\ n \in Nat
        BY <3>1, MinIs DEF Unread
      <3>3. c \in [first : Nat, last : Nat] /\ c.first = n /\ n <= c.last /\ c.last <= Len(lines)
        BY <1>2, <3>2, ChunkBounds
      <3> HIDE DEF n, c
      <3>4. chunk' # None
        BY <3>1, <3>3, NoneAssumption
      <3> DEFINE m == c.last
      <3>5. Remaining' = <<5, Len(lines) + 1 - n, m + 1 - n>>
        BY <2>3, <3>1, <3>3, <3>4
      <3>6. Remaining = <<5, Len(lines) - at, Len(lines) + 2>>
        BY <1>1, <1>2, <1>6, <3>1 DEF RemainingSays
      <3>7. m \in Nat /\ n <= m /\ m <= Len(lines)
        BY <3>3
      <3> HIDE DEF m
      <3>8. /\ Len(lines) + 1 - n \in Nat /\ m + 1 - n \in Nat /\ Len(lines) - at \in Nat
            /\ Len(lines) + 2 \in Nat
            /\ Len(lines) + 1 - n <= Len(lines) - at /\ m + 1 - n < Len(lines) + 2
        BY <1>2, <1>3, <3>1, <3>2, <3>7
      <3>9. QED BY <3>5, <3>6, <3>8, BeforeIs
    <2>5. CASE ReadChunk
      <3>1. chunk # None /\ chunk' = chunk /\ at <= chunk.last /\ at' = at + 1
        BY <2>5 DEF ReadChunk, ReadTrace, ReadFrame, ReadException, ReadOther, Reads
      <3> DEFINE n == chunk.first  m == chunk.last
      <3>2. Remaining' = <<5, Len(lines) + 1 - n, m + 1 - at'>>
            /\ Remaining = <<5, Len(lines) + 1 - n, m + 1 - at>>
        BY <2>2, <2>3, <3>1
      <3>3. n \in Nat /\ m \in Nat /\ n <= m /\ m <= Len(lines) /\ at <= m /\ at' = at + 1
        BY <2>2, <3>1
      <3> HIDE DEF n, m
      <3>4. /\ Len(lines) + 1 - n \in Nat /\ m + 1 - at' \in Nat /\ m + 1 - at \in Nat
            /\ m + 1 - at' < m + 1 - at
        BY <1>2, <1>3, <3>3
      <3>5. QED BY <3>2, <3>4, BeforeIs
    <2>6. CASE BuildDiagnostic
      <3>1. chunk # None /\ chunk' = None /\ at' = chunk.last
        BY <2>6 DEF BuildDiagnostic, TraceRead
      <3> DEFINE n == chunk.first  m == chunk.last
      <3>2. Remaining = <<5, Len(lines) + 1 - n, m + 1 - at>>
        BY <2>2, <3>1
      <3>3. Remaining' = <<5, Len(lines) - m, Len(lines) + 2>>
        BY <1>1, <1>2, <1>6, <2>1, <3>1 DEF RemainingSays
      <3>4. n \in Nat /\ m \in Nat /\ n <= m /\ m <= Len(lines) /\ at <= m + 1
        BY <2>2, <3>1
      <3> HIDE DEF n, m
      <3>5. /\ Len(lines) + 1 - n \in Nat /\ m + 1 - at \in Nat /\ Len(lines) - m \in Nat
            /\ Len(lines) + 2 \in Nat /\ Len(lines) - m < Len(lines) + 1 - n
        BY <1>2, <1>3, <3>4
      <3>6. QED BY <3>2, <3>3, <3>5, BeforeIs
    <2>7. QED BY <2>1, <2>4, <2>5, <2>6
  <1>7. QED BY <1>1, <1>3, <1>4, <1>5, <1>6

(* The parser of jest and vitest: a line taken, or a block built. *)
LEMMA JsGoesOn ==
  ASSUME OnInv, OnInv', JsNext, UNCHANGED <<pytestVars, compilerVars>>
  PROVE  Before(Remaining', Remaining)
  <1>1. /\ OnSays /\ OnSays' /\ RemainingSays /\ RemainingSays' /\ lines' = lines
        /\ turn = "js_test"
    BY RemainingIs, RemainingNext DEF JsNext, JsSkips, ReadSuite, ReadBullet, ReadJsLine, EndBlock,
                                      JsReturns, JsRuns
  <1> DEFINE b == IF bullet = None THEN 0 ELSE 1
             c == IF bullet' = None THEN 0 ELSE 1
  <1>2. /\ Remaining = <<4, Len(lines) - j, b>> /\ b \in Nat /\ c \in Nat
        /\ Len(lines) - j \in Nat /\ Len(lines) - j' \in Nat /\ j \in Nat /\ Len(lines) \in Nat
    BY SMTT(40), <1>1 DEF OnSays, RemainingSays
  <1>3. turn' = "js_test" => Remaining' = <<4, Len(lines) - j', c>>
    BY <1>1 DEF RemainingSays
  <1>4. CASE JsSkips \/ JsReturns
    <2>1. turn' = "compiler" /\ UNCHANGED compilerVars
      BY <1>4, TurnsAre DEF JsSkips, JsReturns
    <2>2. \E x \in {2, 3}, y \in Nat : Remaining' = <<x, y, 0>>
      BY SMTT(40), <1>1, <2>1 DEF OnSays, RemainingSays
    <2>3. PICK x \in {2, 3}, y \in Nat : Remaining' = <<x, y, 0>>
      BY <2>2
    <2> HIDE DEF b
    <2>4. QED BY <1>2, <2>3, BeforeIs
  <1>5. CASE ReadSuite \/ ReadBullet \/ ReadJsLine
    <2>1. j' = j + 1 /\ turn' = "js_test"
      BY <1>1, <1>5 DEF ReadSuite, ReadBullet, ReadJsLine
    <2>2. Len(lines) - j' < Len(lines) - j
      BY <1>2, <2>1
    <2> HIDE DEF b, c
    <2>3. QED BY <1>2, <1>3, <2>1, <2>2, BeforeIs
  <1>6. CASE EndBlock
    <2>1. j' = j /\ turn' = "js_test" /\ b = 1 /\ c = 0
      BY <1>1, <1>6 DEF EndBlock
    <2> HIDE DEF b, c
    <2>2. Remaining = <<4, Len(lines) - j, 1>> /\ Remaining' = <<4, Len(lines) - j, 0>>
      BY <1>2, <1>3, <2>1
    <2>3. QED BY <1>2, <2>2, BeforeIs
  <1>7. QED BY <1>4, <1>5, <1>6 DEF JsNext

(* The compilers' parser: its first pass is one step, the second takes lines. *)
LEMMA CompilerGoesOn ==
  ASSUME OnInv, OnInv', CompilerNext, UNCHANGED <<pytestVars, jsVars>>
  PROVE  Before(Remaining', Remaining)
  <1>1. /\ OnSays /\ OnSays' /\ RemainingSays /\ RemainingSays' /\ lines' = lines
        /\ turn = "compiler"
    BY RemainingIs, RemainingNext DEF CompilerNext, CompilerSkips, ExtractTsc, ReadRow, PassOver,
         ReadBlank, ReadPath, CompilerReturns, EslintReads, CompilerRuns
  <1>2. /\ Len(lines) \in Nat /\ read \in 0..Len(lines) /\ read' \in 0..Len(lines)
        /\ Len(lines) - read \in Nat /\ Len(lines) - read' \in Nat
    BY <1>1 DEF OnSays
  <1>3. CASE CompilerSkips \/ CompilerReturns
    <2>1. turn' = "generic"
      BY <1>3, TurnsAre DEF CompilerSkips, CompilerReturns
    <2>2. Remaining' = <<1, 0, 0>>
      BY <1>1, <2>1 DEF RemainingSays
    <2>3. \E x \in {2, 3}, y \in Nat : Remaining = <<x, y, 0>>
      BY <1>1, <1>2 DEF OnSays, RemainingSays
    <2>4. PICK x \in {2, 3}, y \in Nat : Remaining = <<x, y, 0>>
      BY <2>3
    <2>5. QED BY <2>2, <2>4, BeforeIs
  <1>4. CASE ExtractTsc
    <2>1. turn' = "compiler" /\ pass = "tsc" /\ pass' = "eslint"
      BY <1>1, <1>4 DEF ExtractTsc
    <2>2. Remaining = <<3, 0, 0>> /\ Remaining' = <<2, Len(lines) - read', 0>>
      BY <1>1, <2>1 DEF RemainingSays
    <2>3. QED BY <1>2, <2>2, BeforeIs
  <1>5. CASE ReadRow \/ PassOver \/ ReadBlank \/ ReadPath
    <2>1. turn' = "compiler" /\ pass = "eslint" /\ pass' = "eslint" /\ read' = read + 1
      BY <1>1, <1>5 DEF ReadRow, PassOver, ReadBlank, ReadPath, EslintReads
    <2>2. Remaining = <<2, Len(lines) - read, 0>> /\ Remaining' = <<2, Len(lines) - read', 0>>
      BY <1>1, <2>1 DEF RemainingSays
    <2>3. Len(lines) - read' < Len(lines) - read
      BY <1>2, <2>1
    <2>4. QED BY <1>2, <2>2, <2>3, BeforeIs
  <1>6. QED BY <1>3, <1>4, <1>5 DEF CompilerNext

(* ParsingGoesOn for every log: however the tools' outputs are mixed, the    *)
(* amount, a triple of natural numbers, gets smaller with every step, and by *)
(* AmountsAreWellFounded that cannot go on for ever.                         *)
THEOREM ToolParsersParsingGoesOn == Spec => [](Remaining \in Amounts) /\ ParsingGoesOn
  <1>1. OnInv => Remaining \in Amounts
    BY RemainingIs DEF RemainingSays
  <1>2. OnInv /\ OnInv' /\ [Next]_vars => [turn # "done" => Before(Remaining', Remaining)]_vars
    <2> SUFFICES ASSUME OnInv, OnInv', Next, turn # "done"
                 PROVE  Before(Remaining', Remaining)
      OBVIOUS
    <2>1. CASE PytestNext /\ UNCHANGED <<jsVars, compilerVars>>
      BY <2>1, PytestGoesOn
    <2>2. CASE JsNext /\ UNCHANGED <<pytestVars, compilerVars>>
      BY <2>2, JsGoesOn
    <2>3. CASE CompilerNext /\ UNCHANGED <<pytestVars, jsVars>>
      BY <2>3, CompilerGoesOn
    <2>4. CASE Fallback \/ NoFallback
      <3>1. turn = "generic" /\ turn' = "done"
        BY <2>4, TurnsAre DEF Fallback, NoFallback
      <3>2. Remaining = <<1, 0, 0>> /\ Remaining' = <<0, 0, 0>>
        BY <3>1, RemainingIs, RemainingNext DEF RemainingSays
      <3>3. QED BY <3>2, BeforeIs
    <2>5. QED BY <2>1, <2>2, <2>3, <2>4 DEF Next, Returned
  <1>3. QED BY OnInvariant, <1>1, <1>2, PTL DEF Spec, ParsingGoesOn

=============================================================================

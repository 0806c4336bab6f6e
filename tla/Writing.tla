------------------------------- MODULE Writing -------------------------------
(***************************************************************************)
(* The test library as requests change it, the generation that fills it,   *)
(* and what can be read in documents of any words and lines.  Generation   *)
(* stores a test in one step of its own library of whole tests, which      *)
(* TestLibrary takes apart, and reads the documents it is given; so they   *)
(* share no state, and scene says which of the three moves.                *)
(***************************************************************************)
EXTENDS TestLibrary, Sequences

CONSTANTS IdSegments, Param, ReuseApi, ReuseGeneral, PrdLimit, MaxRules, ThinDoc, MaxGaps, MaxComponents,
          Numbers, Stem, Exemplars, ExemplarWords, Docs, Replies, Failed, Focuses, Risky, Baseline, Old, Legacy, Alike,
          ApiChunk, MinKept, MinJourneys, ManyApis, BusinessMin, MaxRuns,
          Vocabulary, Lines, MaxWords, MaxLines,  \* of the documents, and bounds on their lengths
          ChunkSizes, Surfaces

VARIABLES scene, passage, document, doc, focus, pc, surface, components, suites, waiting, references, todo, errors, inherited, library, links,
          answered, outcome, runs

Gen == INSTANCE Generation
generationVars == <<doc, focus, pc, surface, components, suites, waiting, references, todo, errors, inherited, library,
                    links, answered, outcome, runs>>

ASSUME GeneratorAssumption == Gen!GenerationAssumption

ASSUME ReadingAssumption == ChunkSizes \subseteq Nat \ {0} /\ PrdLimit \in Nat /\ MaxRules \in Nat

\* A passage grows by a word, a document by a line, each with nothing of the other.
GrowPassage == /\ document = <<>> /\ Len(passage) < MaxWords
               /\ \E w \in Vocabulary : passage' = Append(passage, w)
               /\ UNCHANGED document
GrowDocument == /\ passage = <<>> /\ Len(document) < MaxLines
                /\ \E l \in Lines : document' = Append(document, l)
                /\ UNCHANGED passage
readingVars == <<passage, document>>
ReadingInit == passage = <<>> /\ document = <<>>
ReadingSpec == ReadingInit /\ [][GrowPassage \/ GrowDocument]_readingVars

\* While the library moves or documents are read, the generation is that of one
\* initial state.
WritingInit == /\ scene \in {"library", "generation", "reading"} /\ Init /\ Gen!Init /\ ReadingInit
               /\ scene # "generation" => doc = (CHOOSE d \in Docs : TRUE) /\ focus = (CHOOSE f \in Focuses : TRUE)
WritingNext == \/ scene = "library" /\ Next /\ UNCHANGED <<scene, generationVars, readingVars>>
               \/ scene = "generation" /\ Gen!Next /\ UNCHANGED <<scene, vars, readingVars>>
               \/ scene = "reading" /\ (GrowPassage \/ GrowDocument) /\ UNCHANGED <<scene, vars, generationVars>>
WritingSpec == WritingInit /\ [][WritingNext]_<<scene, vars, generationVars, readingVars>>

\* Those of Generation, here; testgen/service.py: what is stored is backed by the
\* documents, API tests are of operations they name, reuse keeps the operation, a
\* run is empty only when it had to be, and each operation keeps a test.
PersistedSupported == Gen!PersistedSupported
ApiTestsDiscovered == Gen!ApiTestsDiscovered
ReuseKeepsOperation == Gen!ReuseKeepsOperation
EmptyIsEarned == Gen!EmptyIsEarned
EndpointsKept == Gen!EndpointsKept

\* extract.py, testgen/service.py: whatever a document says can be retrieved
\* whole and quoted in a test, and the suites it is evidence for can ask for it.
EvidenceSound ==
    /\ Gen!QuotesSupported(passage)
    /\ \A max \in ChunkSizes : \A overlap \in 0..(max - 1) : Gen!ChunksWhole(Len(passage), max, overlap)
    /\ \A own \in 0..Len(document), known \in Surfaces :
          Gen!EvidenceAsked([lines |-> document, text |-> SubSeq(document, 1, own), stored |-> <<>>, tokens |-> <<>>], known)
=============================================================================

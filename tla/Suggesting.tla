----------------------------- MODULE Suggesting -----------------------------
(***************************************************************************)
(* The pull requests of a repository as they come in, and what similarity  *)
(* suggests of documents of any chunks.  PrSync takes what similarity      *)
(* suggests to be any feature of Picked; here the search that suggests it  *)
(* runs over the project's features, the chunks that are stored of their   *)
(* documents, and those that a deleted feature left.  Nothing of PrSync's  *)
(* state is read by it, so scene says which of the two moves.              *)
(***************************************************************************)
EXTENDS PrSync

CONSTANTS Deleted,    \* features that are no more
          Scores, MaxChunks

VARIABLES scene, chunks

ASSUME ChunkAssumption == Scores \subseteq Nat

\* The chunks are in the order of their likeness to the pull request.
GrowChunks ==
    /\ Len(chunks) < MaxChunks
    /\ \E f \in DOMAIN Features \union Deleted, s \in Scores :
          /\ \A i \in DOMAIN chunks : s <= chunks[i].score
          /\ chunks' = Append(chunks, [feature |-> f, score |-> s])

ChunksSpec == chunks = <<>> /\ [][GrowChunks]_chunks

SuggestingInit == scene \in {"sync", "search"} /\ Init /\ chunks = <<>>
SuggestingNext == \/ scene = "sync" /\ Next /\ UNCHANGED <<scene, chunks>>
                  \/ scene = "search" /\ GrowChunks /\ UNCHANGED <<scene, vars>>
SuggestingSpec == SuggestingInit /\ [][SuggestingNext]_<<scene, vars, chunks>>

\* coverage.py, store/features.py: a suggestion reaches the floor and leads
\* every other group by the margin, also when the index cannot be searched.
SuggestionClear == \A searchOk \in BOOLEAN : LeadsClearly(Features, chunks, searchOk)
=============================================================================

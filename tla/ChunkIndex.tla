----------------------------- MODULE ChunkIndex -----------------------------
(***************************************************************************)
(* The chunk table of one scope, chunk by chunk: how IndexWorker's         *)
(* ApplyDeltaToIndex refreshes it from the files of a delta, and what the  *)
(* semantic search reads from it meanwhile.                                *)
(*                                                                         *)
(* IndexSync has the jobs, the snapshot tables and the faults around this; *)
(* here a scan is one step that saves the tree and may or may not get its  *)
(* delta through, and one index job applies a delta at a time              *)
(* (UniqueHolder), step by step: list, read each file, embed, replace.     *)
(*                                                                         *)
(* A file is the sequence of chunk texts ChunkDocument cuts it into, <<>>  *)
(* for a blank one.  A text is named by its distance to the query of the   *)
(* search, and a vector by the text it is the embedding of.                *)
(***************************************************************************)
EXTENDS Integers, Sequences, FiniteSets, SequencesExt

CONSTANTS
  NPaths,        \* the indexable paths are 1 .. NPaths, in their order
  Contents,      \* file contents: sequences of chunk texts
  Absent,        \* no file
  TopKInputs,    \* values of the top_k argument
  DefaultTopK, MaxStoreTopK,
  MaxAttempts,   \* executions that may fail before the job is discarded
  MaxEdits,      \* bound on edits of the repository
  MaxSaves       \* bound on saved snapshots

ASSUME ChunkAssumption ==
  /\ NPaths \in Nat
  /\ Contents \subseteq Seq(Nat) /\ <<>> \in Contents
  /\ Absent \notin Contents
  /\ TopKInputs \subseteq Int
  /\ MaxStoreTopK \in Nat /\ DefaultTopK \in 1 .. MaxStoreTopK
  /\ MaxAttempts \in Nat \ {0}
  /\ MaxEdits \in Nat /\ MaxSaves \in Nat

Paths == 1 .. NPaths
Trees == [Paths -> Contents \cup {Absent}]

EmptyTree == [p \in Paths |-> Absent]

VARIABLES
  fs,       \* the repository
  edits,    \* edits made
  saved,    \* the trees of the snapshots saved, in order
  chunks,   \* index_chunks: the set of its rows
  job,      \* the index job and its execution
  search,   \* a semantic search
  had,      \* history: path -> the contents it has had
  flawed    \* history: paths a delta did not bring to its snapshot

vars == <<fs, edits, saved, chunks, job, search, had, flawed>>

\* The tree of the n-th snapshot; the empty one before the first.
Snapshot(n) == IF n = 0 THEN EmptyTree ELSE saved[n]

Latest == Len(saved)

\* The elements of a finite set in a strict order: before the n-th there are
\* n - 1 others.
Ordered(S, Before(_, _)) ==
  [n \in 1 .. Cardinality(S) |->
     CHOOSE x \in S : Cardinality({y \in S : Before(y, x)}) = n - 1]

-----------------------------------------------------------------------------
(* Rows.                                                                   *)

\* ORDER BY rel_path, chunk_index.
KeyBefore(a, b) == a.path < b.path \/ (a.path = b.path /\ a.index < b.index)

SameKey(a, b) == a.path = b.path /\ a.index = b.index

RowsOf(rows, p) == {r \in rows : r.path = p}

\* Mutant: chunks are counted from one.
BuildChunkRecordsFromOne(docs) ==
  LET records == UNION {{[path |-> p, index |-> i, text |-> docs[p][i]]
                           : i \in DOMAIN docs[p]} : p \in DOMAIN docs}
  IN Ordered(records, KeyBefore)

\* BuildChunkRecords: the records of the documents, without embeddings.  docs
\* maps paths to contents.
BuildChunkRecords(docs) ==
  LET records == UNION {{[path |-> p, index |-> i - 1, text |-> docs[p][i]]
                           : i \in DOMAIN docs[p]} : p \in DOMAIN docs}
  IN Ordered(records, KeyBefore)

\* embeddings.Client EmbedTexts: a vector for each text, in their order.
EmbedTexts(texts) == texts

Embedded(record, vec) ==
  [path |-> record.path, index |-> record.index, text |-> record.text, vec |-> vec]

\* Mutant: a stored row of the same path and index is reused.
UnchangedByKey(existing, record) == {r \in existing : SameKey(r, record)}

\* The stored row whose embedding is reused: the hash covers path, index and text.
Unchanged(existing, record) ==
  {r \in existing : SameKey(r, record) /\ r.text = record.text}

\* The position of record i among the ones that are sent to the embedder.
PlaceIn(pending, i) == CHOOSE n \in DOMAIN pending : pending[n] = i

\* RefreshEmbeddingsForChangedChunks.
RefreshEmbeddings(existing, records) ==
  LET reused(i) == Unchanged(existing, records[i])
      pending   == Ordered({i \in DOMAIN records : reused(i) = {}}, <)
      vectors   == EmbedTexts([n \in DOMAIN pending |-> records[pending[n]].text])
  IN [i \in DOMAIN records |->
        Embedded(records[i],
                 IF reused(i) = {} THEN vectors[PlaceIn(pending, i)]
                 ELSE (CHOOSE r \in reused(i) : TRUE).vec)]

\* Mutant: the rows of a deleted path are kept.
MergeKeepsDeleted(existing, refreshed, dels) ==
  LET removed == {refreshed[i].path : i \in DOMAIN refreshed}
  IN {r \in existing : r.path \notin removed} \cup ToSet(refreshed)

\* mergeChunkRecords: the rows of deleted paths, and of paths that have
\* refreshed records, make way; the others stay.
MergeChunkRecords(existing, refreshed, dels) ==
  LET removed == dels \cup {refreshed[i].path : i \in DOMAIN refreshed}
  IN {r \in existing : r.path \notin removed} \cup ToSet(refreshed)

\* BuildChunkDelta, the other implementation of the merge: the rows of every
\* document make way.  Its new records have no embeddings yet.
BuildChunkDelta(existing, docs, dels) ==
  LET removed == dels \cup DOMAIN docs
      new     == BuildChunkRecords(docs)
  IN {[path |-> r.path, index |-> r.index, text |-> r.text]
        : r \in {x \in existing : x.path \notin removed}} \cup ToSet(new)

\* DiscoverIndexableFiles: the paths are those that pass its filter.
DiscoverIndexableFiles(tree) == {p \in Paths : tree[p] # Absent}

\* RunFullRebuild: every file that has chunks, all of them embedded.
RunFullRebuild(tree) ==
  LET docs    == [p \in {q \in DiscoverIndexableFiles(tree) : tree[q] # <<>>} |-> tree[p]]
      records == BuildChunkRecords(docs)
      vectors == EmbedTexts([i \in DOMAIN records |-> records[i].text])
  IN {Embedded(records[i], vectors[i]) : i \in DOMAIN records}

-----------------------------------------------------------------------------
(* Edits and scans.                                                        *)

Edit(p, v) ==
  /\ edits < MaxEdits
  /\ v # fs[p]
  /\ fs' = [fs EXCEPT ![p] = v]
  /\ edits' = edits + 1
  /\ had' = [had EXCEPT ![p] = @ \cup {v}]
  /\ UNCHANGED <<saved, chunks, job, search, flawed>>

NoJob == [pc |-> "none", snap |-> 0, ups |-> {}, dels |-> {},
          docs |-> <<>>, attempt |-> 0]

\* Mutant: modified files are not in the delta.
UpsertsAddsOnly(old, new) == {p \in Paths : old[p] = Absent /\ new[p] # Absent}

\* The files of the delta, as collectDeltaPaths sorts them.
Upserts(old, new) == {p \in Paths : new[p] \notin {Absent, old[p]}}
Deletes(old, new) == {p \in Paths : old[p] # Absent /\ new[p] = Absent}

\* SyncWorker.run saves the snapshot of the tree and enqueues the delta, which
\* a stored index job, a failed insert or a crash can keep from the queue.
Scan(sent) ==
  LET ups  == Upserts(Snapshot(Latest), fs)
      dels == Deletes(Snapshot(Latest), fs)
  IN /\ Latest < MaxSaves
     /\ fs # Snapshot(Latest)
     /\ saved' = Append(saved, fs)
     /\ IF sent
        THEN /\ job.pc = "none"
             /\ job' = [NoJob EXCEPT !.pc = "queued", !.snap = Latest + 1,
                                     !.ups = ups, !.dels = dels]
             /\ UNCHANGED flawed
        ELSE flawed' = flawed \cup ups \cup dels /\ UNCHANGED job
     /\ UNCHANGED <<fs, edits, chunks, search, had>>

-----------------------------------------------------------------------------
(* ApplyDeltaToIndex.  What ListRepoIndex returns at the start stays       *)
(* stored until the replacement (NoLostReplace of IndexSync), so the rows  *)
(* listed are chunks.                                                      *)

StartApply ==
  /\ job.pc = "queued"
  /\ job' = [job EXCEPT !.pc = "reading", !.attempt = @ + 1, !.docs = <<>>]
  /\ UNCHANGED <<fs, edits, saved, chunks, search, had, flawed>>

\* The attempt fails; the last one discards the delta.
FailApply ==
  IF job.attempt < MaxAttempts
  THEN job' = [job EXCEPT !.pc = "queued", !.docs = <<>>] /\ UNCHANGED flawed
  ELSE job' = NoJob /\ flawed' = flawed \cup job.ups \cup job.dels

Unread == job.ups \ DOMAIN job.docs

\* readRepoFile of the next upserted path; a file that is gone fails the job.
ReadRepoFile ==
  /\ job.pc = "reading"
  /\ Unread # {}
  /\ LET p == Min(Unread) IN
     IF fs[p] = Absent THEN FailApply
     ELSE /\ job' = [job EXCEPT !.docs = [q \in DOMAIN @ \cup {p} |->
                                           IF q = p THEN fs[p] ELSE @[q]]]
          /\ UNCHANGED flawed
  /\ UNCHANGED <<fs, edits, saved, chunks, search, had>>

\* What the application is about to store.
Merged ==
  MergeChunkRecords(chunks, RefreshEmbeddings(chunks, BuildChunkRecords(job.docs)), job.dels)

\* Upserted files that have become blank and still have rows.
BlankKept == {p \in DOMAIN job.docs : job.docs[p] = <<>> /\ RowsOf(chunks, p) # {}}

\* Files that were edited between the scan and the read.
Raced == {p \in DOMAIN job.docs : job.docs[p] # Snapshot(job.snap)[p]}

\* Paths that are up to date with the delta of the latest snapshot.
Settled == IF job.snap = Latest THEN job.ups \cup job.dels ELSE {}

\* Chunk, embed, merge and ReplaceRepoIndex.  acked is FALSE when the commit
\* takes effect and the attempt fails all the same.
ReplaceRepoIndex(acked) ==
  /\ job.pc = "reading"
  /\ Unread = {}
  /\ chunks' = Merged
  /\ IF acked THEN job' = NoJob
     ELSE job' = IF job.attempt < MaxAttempts
                 THEN [job EXCEPT !.pc = "queued", !.docs = <<>>] ELSE NoJob
  /\ flawed' = (flawed \ Settled) \cup BlankKept \cup Raced
  /\ UNCHANGED <<fs, edits, saved, search, had>>

\* A call fails, the embedder answers with the wrong number of vectors or
\* dimensions, or the process dies.
ApplyFails ==
  /\ job.pc = "reading"
  /\ FailApply
  /\ UNCHANGED <<fs, edits, saved, chunks, search, had>>

-----------------------------------------------------------------------------
(* The semantic_search tool and the retrieval hook.                        *)

NoSearch == [pc |-> "idle", topK |-> 0, shown |-> 0, results |-> <<>>]

\* Mutant: the cap is missing.
TopKUncapped(k) == IF k <= 0 THEN DefaultTopK ELSE k

NormalizeSemanticSearchTopK(k) ==
  CASE k <= 0           -> DefaultTopK
    [] k > MaxStoreTopK -> MaxStoreTopK
    [] OTHER            -> k

\* GetReadiness: ready as soon as there is a snapshot.
StartSearch(k) ==
  /\ search.pc = "idle"
  /\ search' = [NoSearch EXCEPT !.pc = IF Latest = 0 THEN "not_ready" ELSE "ready",
                                !.topK = NormalizeSemanticSearchTopK(k),
                                !.shown = Latest]
  /\ UNCHANGED <<fs, edits, saved, chunks, job, had, flawed>>

\* Mutant: the farthest rows come first.
FartherFirst(a, b) == a.vec > b.vec \/ (a.vec = b.vec /\ KeyBefore(a, b))

\* ORDER BY distance, rel_path, chunk_index; ApplyStableRanks sorts the same
\* way, by score, path and chunk id (as long as an index has one digit).
Closer(a, b) == a.vec < b.vec \/ (a.vec = b.vec /\ KeyBefore(a, b))

\* Mutant: the chunk id is made of the position of the result.
QueryTopKByPosition(rows, k) ==
  LET ordered == Ordered(rows, Closer)
      n       == IF k < Len(ordered) THEN k ELSE Len(ordered)
  IN [i \in 1 .. n |-> [ordered[i] EXCEPT !.index = i - 1]]

\* QueryTopK with its LIMIT, and the ranks of ApplyStableRanks as positions.
QueryTopK(rows, k) ==
  LET ordered == Ordered(rows, Closer)
  IN SubSeq(ordered, 1, IF k < Len(ordered) THEN k ELSE Len(ordered))

RunSearch ==
  /\ search.pc = "ready"
  /\ search' = [search EXCEPT !.pc = "done", !.results = QueryTopK(chunks, search.topK)]
  /\ UNCHANGED <<fs, edits, saved, chunks, job, had, flawed>>

\* The answer is delivered, or the query could not be embedded or run.
EndSearch ==
  /\ search.pc # "idle"
  /\ search' = NoSearch
  /\ UNCHANGED <<fs, edits, saved, chunks, job, had, flawed>>

-----------------------------------------------------------------------------
Init ==
  /\ fs \in Trees
  /\ edits = 0
  /\ saved = <<>>
  /\ chunks = {}
  /\ job = NoJob
  /\ search = NoSearch
  /\ had = [p \in Paths |-> {fs[p]}]
  /\ flawed = {}

Next ==
  \/ \E p \in Paths, v \in Contents \cup {Absent} : Edit(p, v)
  \/ \E sent \in BOOLEAN : Scan(sent)
  \/ StartApply
  \/ ReadRepoFile
  \/ \E acked \in BOOLEAN : ReplaceRepoIndex(acked)
  \/ ApplyFails
  \/ \E k \in TopKInputs : StartSearch(k)
  \/ RunSearch
  \/ EndSearch

Spec == Init /\ [][Next]_vars

-----------------------------------------------------------------------------
JobSteps == {"none", "queued", "reading"}

(* Every variable has its type.                                            *)
TypeOK ==
  /\ fs \in Trees
  /\ edits \in 0 .. MaxEdits
  /\ Latest <= MaxSaves /\ \A n \in 1 .. Latest : saved[n] \in Trees
  /\ \A r \in chunks : r.path \in Paths /\ r.index \in Nat
  /\ job.pc \in JobSteps /\ job.snap \in 0 .. Latest
  /\ job.attempt \in 0 .. MaxAttempts
  /\ DOMAIN job.docs \subseteq job.ups /\ job.ups \cup job.dels \subseteq Paths
  /\ search.pc \in {"idle", "not_ready", "ready", "done"}
  /\ search.pc # "idle" => search.topK \in 1 .. MaxStoreTopK
  /\ search.shown \in 0 .. Latest
  /\ flawed \subseteq Paths

(* An embedding is never used for a text it was not computed from, whatever*)
(* mix of reused and new vectors the refreshes of the past put into the    *)
(* rows (embedding_refresh.go).                                            *)
VectorsMatchTexts == \A r \in chunks : r.vec = r.text

(* The rows of a file are the chunks of one content the file has had, all  *)
(* of them and each once: versions of a file are never mixed, although it  *)
(* grows, shrinks, disappears and comes back, and although the table's     *)
(* unique constraint allows two texts under one index.                     *)
FilesAreWhole ==
  \A p \in Paths :
    RowsOf(chunks, p) # {} =>
      \E c \in had[p] \ {Absent} :
        {<<r.index, r.text>> : r \in RowsOf(chunks, p)}
          = {<<i - 1, c[i]>> : i \in DOMAIN c}

\* The snapshots the table may stand at: with a delta under way the one before
\* it too.
Served == IF job.pc = "none" THEN {Latest} ELSE {job.snap - 1, job.snap}

(* Apart from flawed paths the table is what RunFullRebuild would store    *)
(* for one saved snapshot: the latest one, or the one before the delta     *)
(* that is under way.  Deltas applied one after the other, with retries    *)
(* and repeated commits, add up to a rebuild, vectors included.            *)
IndexIsRebuild ==
  \E n \in Served : \A p \in Paths \ flawed :
    RowsOf(chunks, p) = RowsOf(RunFullRebuild(Snapshot(n)), p)

(* The two implementations of the merge store the same chunks exactly when *)
(* no upserted file with stored rows has become blank.                     *)
MergesAgree ==
  job.pc = "reading" /\ Unread = {} =>
    (({[path |-> r.path, index |-> r.index, text |-> r.text] : r \in Merged}
        = BuildChunkDelta(chunks, job.docs, job.dels)) <=> BlankKept = {})

\* A search gets its results in this step.
Answers == search.pc = "ready" /\ search'.pc = "done"
Result  == search'.results

\* The row is a chunk of the n-th snapshot.
IsFrom(r, n) ==
  LET c == Snapshot(n)[r.path] IN
  c # Absent /\ r.index + 1 \in DOMAIN c /\ r.text = c[r.index + 1]

(* The results are the chunks closest to the query by their texts, best    *)
(* first, and as many as asked for or stored.                              *)
AnswerIsBest ==
  [][Answers =>
       /\ Len(Result) = IF Cardinality(chunks) < search.topK THEN Cardinality(chunks)
                        ELSE search.topK
       /\ \A i, j \in DOMAIN Result : i < j => Result[i].text <= Result[j].text
       /\ \A r \in chunks \ ToSet(Result) : \A i \in DOMAIN Result :
            Result[i].text <= r.text]_vars

(* The readiness of the index comes from the snapshot, which is saved      *)
(* before its delta is applied (semantic_search.go GetReadiness).  Still   *)
(* an answer never mixes two snapshots, flawed paths aside, and if no      *)
(* delta went wrong it is at most one snapshot behind the one it names.    *)
ReadyAnswerIsRecent ==
  [][Answers =>
       \E n \in 0 .. Latest :
         /\ \A i \in DOMAIN Result : Result[i].path \notin flawed => IsFrom(Result[i], n)
         /\ flawed = {} => n >= search.shown - 1]_vars

=============================================================================

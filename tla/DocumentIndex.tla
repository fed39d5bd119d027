----------------------------- MODULE DocumentIndex -----------------------------
(***************************************************************************)
(* scripts/ingest_docs.py: the markdown files of the project are cut into  *)
(* overlapping chunks, which are upserted, file by file, into the          *)
(* collection that the agents with the chroma tool search.  Files may be   *)
(* edited while the script runs, and the script may be interrupted.        *)
(***************************************************************************)
EXTENDS Naturals, Sequences

CONSTANTS
    Files,      \* paths of markdown files, in the order of collect_files
    Text,       \* contents a file may have
    Length,     \* Length[t]: number of characters of text t
    Size,       \* CHUNK_SIZE
    Overlap,    \* CHUNK_OVERLAP
    Absent,     \* the file does not exist
    MaxEdits    \* bound: changes of files

Path == {Files[n] : n \in DOMAIN Files}

ASSUME IndexAssumption ==
    /\ Files \in Seq(Path)
    /\ \A m, n \in DOMAIN Files : Files[m] = Files[n] => m = n
    /\ Length \in [Text -> Nat]
    /\ Size \in Nat /\ Overlap \in Nat /\ Overlap < Size
    /\ Absent \notin Text
    /\ MaxEdits \in Nat

VARIABLES
    disk,       \* disk[p]: what file p holds
    collection, \* collection[p][i]: the document with id md5(p::i)
    pc,         \* where the script is
    reset,      \* it was run with --reset
    todo,       \* the places in Files of those it has not come to yet
    text,       \* the file it has read
    passed,     \* files it skipped, or that changed since it began
    edits       \* number of changes of files

vars == <<disk, collection, pc, reset, todo, text, passed, edits>>

-----------------------------------------------------------------------------
\* chunk_text

\* The loop goes on while the last chunk did not reach the end of the text.
Step == Size - Overlap
Indices(n) ==
    {i \in 0 .. n : i * Step < n /\ (i > 0 => (i - 1) * Step + Size < n)}

\* Defective variants: chunks side by side, and a chunk that is not cut off.
ChunkApart(t, i) ==
    [text |-> t, from |-> i * Size,
     upto |-> IF i * Size + Size < Length[t] THEN i * Size + Size ELSE Length[t]]

ChunkUncut(t, i) == [text |-> t, from |-> i * Step, upto |-> i * Step + Size]

\* Chunk i of text t: the characters from .. upto - 1.
Chunk(t, i) ==
    [text |-> t, from |-> i * Step,
     upto |-> IF i * Step + Size < Length[t] THEN i * Step + Size ELSE Length[t]]

Chunks(t) == [i \in Indices(Length[t]) |-> Chunk(t, i)]

-----------------------------------------------------------------------------
Empty == [p \in Path |-> << >>]

Init ==
    /\ disk \in [Path -> Text \cup {Absent}]
    /\ collection = Empty
    /\ pc = "idle"
    /\ reset = FALSE
    /\ todo = {}
    /\ text = Absent
    /\ passed = {}
    /\ edits = 0

\* Defective variant: --reset is forgotten.
WipedNever(wipe) == collection

\* delete_collection, get_or_create_collection
Wiped(wipe) == IF wipe THEN Empty ELSE collection

\* The collection is there, and the files that exist now are collected.
BeginRun(wipe) ==
    /\ pc \in {"idle", "done"}
    /\ reset' = wipe
    /\ collection' = Wiped(wipe)
    /\ todo' = {n \in DOMAIN Files : disk[Files[n]] # Absent}
    /\ pc' = IF todo' = {} THEN "idle" ELSE "read"
    /\ passed' = {}
    /\ UNCHANGED <<disk, text, edits>>

\* The loop is at file n, the first it has not come to yet.
At(n) == n \in todo /\ \A m \in todo : n <= m

\* On to the file after n.
NextFile(n) ==
    /\ todo' = todo \ {n}
    /\ pc' = IF todo' = {} THEN "done" ELSE "read"
    /\ text' = Absent

ReadFile(n) ==
    /\ pc = "read" /\ At(n)
    /\ disk[Files[n]] # Absent
    /\ text' = disk[Files[n]]
    /\ pc' = "upsert"
    /\ UNCHANGED <<disk, collection, reset, todo, passed, edits>>

\* A file that cannot be read, or is gone, is skipped.
SkipFile(n) ==
    /\ pc = "read" /\ At(n)
    /\ NextFile(n)
    /\ passed' = passed \cup {Files[n]}
    /\ UNCHANGED <<disk, collection, reset, edits>>

\* Defective variant: documents that are there are kept (add).
Added(old, new) ==
    [i \in DOMAIN new \cup DOMAIN old |-> IF i \in DOMAIN old THEN old[i] ELSE new[i]]

\* upsert: ids that are there are overwritten, the others stay.
Upserted(old, new) ==
    [i \in DOMAIN new \cup DOMAIN old |-> IF i \in DOMAIN new THEN new[i] ELSE old[i]]

Upsert(n) ==
    /\ pc = "upsert" /\ At(n)
    /\ Indices(Length[text]) # {}
    /\ collection' = [collection EXCEPT ![Files[n]] = Upserted(@, Chunks(text))]
    /\ NextFile(n)
    /\ UNCHANGED <<disk, reset, passed, edits>>

\* chromadb refuses an upsert of nothing, so an empty file ends the script;
\* so may Ctrl-C, or a failure of the database, anywhere.
Interrupted ==
    /\ pc \in {"read", "upsert"}
    /\ pc' = "idle"
    /\ todo' = {}
    /\ text' = Absent
    /\ UNCHANGED <<disk, collection, reset, passed, edits>>

\* Somebody writes, or removes, a file.
Edit(p, t) ==
    /\ edits < MaxEdits
    /\ disk[p] # t
    /\ disk' = [disk EXCEPT ![p] = t]
    /\ passed' = passed \cup {p}
    /\ edits' = edits + 1
    /\ UNCHANGED <<collection, pc, reset, todo, text>>

Next ==
    \/ \E wipe \in BOOLEAN : BeginRun(wipe)
    \/ \E n \in DOMAIN Files : ReadFile(n) \/ SkipFile(n) \/ Upsert(n)
    \/ Interrupted
    \/ \E p \in Path, t \in Text \cup {Absent} : Edit(p, t)

Spec == Init /\ [][Next]_vars

-----------------------------------------------------------------------------
(***************************************************************************)
(* Properties.                                                             *)
(***************************************************************************)

\* Documents are cut from texts: what upsert stores is within the text.
Document(d) == /\ d.text \in Text
               /\ d.from < d.upto
               /\ d.upto <= Length[d.text]

TypeOK ==
    /\ disk \in [Path -> Text \cup {Absent}]
    /\ DOMAIN collection = Path
    /\ \A p \in Path : \A i \in DOMAIN collection[p] : Document(collection[p][i])
    /\ pc \in {"idle", "read", "upsert", "done"}
    /\ text \in Text \cup {Absent}
    /\ pc = "upsert" <=> text # Absent
    /\ todo \subseteq DOMAIN Files
    /\ pc \in {"read", "upsert"} <=> todo # {}
    /\ passed \subseteq Path
    /\ edits \in 0 .. MaxEdits

Settled(p) == pc = "done" /\ p \notin passed /\ disk[p] # Absent

\* A run that came to its end has brought every file it could read up to
\* date, whatever earlier runs did, were interrupted in, or left behind.
UpToDate ==
    \A p \in Path : Settled(p) =>
        \A i \in Indices(Length[disk[p]]) :
            /\ i \in DOMAIN collection[p]
            /\ collection[p][i] = Chunk(disk[p], i)

\* After a run with --reset there is nothing else: a search finds no text of
\* a file that is gone or was shortened ("wipe and rebuild").
NothingElse ==
    \A p \in Path : (pc = "done" /\ reset /\ p \notin passed) =>
        IF disk[p] = Absent THEN collection[p] = << >>
        ELSE DOMAIN collection[p] = Indices(Length[disk[p]])

\* Every phrase of up to CHUNK_OVERLAP + 1 characters is whole in some chunk
\* of an indexed file: chunk_text cuts none of them in two.
PhrasesWhole ==
    \A p \in Path : Settled(p) =>
        \A from \in 0 .. Length[disk[p]] - 1 :
            LET upto == from + Overlap + 1
            IN  upto <= Length[disk[p]] =>
                    \E i \in DOMAIN collection[p] :
                        LET d == collection[p][i]
                        IN  d.text = disk[p] /\ d.from <= from /\ upto <= d.upto

=============================================================================

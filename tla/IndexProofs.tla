----------------------------- MODULE IndexProofs -----------------------------
(***************************************************************************)
(* Theorems about DocumentIndex, for any files, texts, chunk size and      *)
(* overlap, any number of edits, runs and interruptions.                   *)
(***************************************************************************)
EXTENDS DocumentIndex, SequenceTheorems, WellFoundedInduction, TLAPS

-----------------------------------------------------------------------------
(***************************************************************************)
(* Chunks.                                                                 *)
(***************************************************************************)

\* Every set of numbers that is not empty has a least member.
LEMMA LeastNumber ==
    ASSUME NEW T \in SUBSET Nat, T # {}
    PROVE  \E x \in T : \A y \in T : x <= y
  <1> DEFINE R == {pair \in Nat \X Nat : pair[1] < pair[2]}
  <1>1. IsWellFoundedOn(R, Nat)
    BY NatLessThanWellFounded DEF OpToRel
  <1> HIDE DEF R
  <1>2. PICK x \in T : \A y \in T : <<y, x>> \notin R
    BY <1>1, WFMin
  <1>3. \A y \in T : ~(y < x)
    BY <1>2 DEF R
  <1> QED
    BY <1>3

\* start += size - overlap always goes forward.
LEMMA StepPositive == Step \in Nat \ {0} /\ Step + Overlap = Size
  BY IndexAssumption DEF Step

\* Where the chunks start, in terms of their numbers.
LEMMA Starts ==
    ASSUME NEW i \in Nat
    PROVE  /\ i * Step \in Nat /\ (i + 1) * Step = i * Step + Step
           /\ i <= i * Step
           /\ i = 0 => i * Step = 0
           /\ \A j \in Nat : j <= i => j * Step <= i * Step
  <1>1. Step \in Nat /\ Step >= 1
    BY StepPositive
  <1> HIDE DEF Step
  <1> QED
    BY <1>1

\* Every place of a text is past the start of the last chunk that starts
\* before it.
LEMMA StartBefore ==
    ASSUME NEW from \in Nat
    PROVE  \E i \in Nat : i * Step <= from /\ from < i * Step + Step
  <1> DEFINE T == {i \in Nat : from < i * Step + Step}
  <1>1. from \in T
    BY Starts, StepPositive
  <1>2. PICK i \in T : \A j \in T : i <= j
    BY <1>1, LeastNumber
  <1>3. CASE i = 0
    BY <1>2, <1>3, Starts, StepPositive
  <1>4. CASE i # 0
    <2>1. i - 1 \in Nat /\ (i - 1) + 1 = i /\ i - 1 \notin T
      BY <1>2, <1>4
    <2>2. i * Step = (i - 1) * Step + Step /\ (i - 1) * Step \in Nat
      BY <2>1, Starts
    <2>3. ~(from < (i - 1) * Step + Step)
      BY <2>1
    <2> QED
      BY <1>2, <2>2, <2>3, StepPositive
  <1> QED
    BY <1>3, <1>4

\* Indices is the loop of chunk_text: a text that is not empty has a first
\* chunk, and there is a next one exactly when one did not reach the end.
THEOREM IndicesAreTheLoop ==
    ASSUME NEW n \in Nat
    PROVE  /\ 0 \in Indices(n) <=> n > 0
           /\ \A i \in Nat : i + 1 \in Indices(n) <=> i \in Indices(n)
                               /\ i * Step + Size < n
  <1>1. Step \in Nat \ {0} /\ Size \in Nat /\ Step <= Size
    BY StepPositive, IndexAssumption
  <1>2. 0 \in Indices(n) <=> n > 0
    BY Starts DEF Indices
  <1>3. ASSUME NEW i \in Nat, i + 1 \in Indices(n)
        PROVE  i \in Indices(n) /\ i * Step + Size < n
    <2>1. i * Step + Size < n /\ i + 1 <= n
      BY <1>3 DEF Indices
    <2>2. i \in 0 .. n /\ i * Step \in Nat /\ i * Step < n
      BY <1>1, <2>1, Starts
    <2>3. ASSUME i > 0
          PROVE  (i - 1) * Step + Size < n
      <3>1. i - 1 \in Nat /\ i - 1 <= i
        BY <2>3
      <3>2. (i - 1) * Step \in Nat /\ (i - 1) * Step <= i * Step
        BY <3>1, Starts
      <3> QED
        BY <1>1, <2>1, <2>2, <3>2
    <2> QED
      BY <2>1, <2>2, <2>3 DEF Indices
  <1>4. ASSUME NEW i \in Indices(n), i * Step + Size < n
        PROVE  i + 1 \in Indices(n)
    <2>1. i \in Nat /\ i * Step \in Nat /\ i <= i * Step
          /\ (i + 1) * Step = i * Step + Step
      <3>1. i \in Nat
        BY DEF Indices
      <3> QED
        BY <3>1, Starts
    <2>2. (i + 1) * Step < n /\ i + 1 \in 0 .. n /\ (i + 1) - 1 = i
      BY <1>1, <1>4, <2>1
    <2> QED
      BY <1>4, <2>2 DEF Indices
  <1>5. \A i \in Indices(n) : i \in Nat
    BY DEF Indices
  <1> QED
    BY <1>2, <1>3, <1>4, <1>5

\* A chunk is a part of its text that is not empty.
LEMMA ChunkIsDocument ==
    ASSUME NEW t \in Text, NEW i \in Indices(Length[t])
    PROVE  Document(Chunk(t, i))
  <1>1. Length[t] \in Nat /\ Size \in Nat \ {0}
    BY IndexAssumption
  <1>2. i \in Nat /\ i * Step \in Nat /\ i * Step < Length[t]
    BY <1>1, Starts DEF Indices
  <1> QED
    BY <1>1, <1>2 DEF Document, Chunk

\* A phrase of up to Overlap + 1 characters is whole in some chunk of its
\* text: in the one that starts last before it, or, if the loop ended before
\* that one, in the chunk that reached the end.
LEMMA PhraseInChunk ==
    ASSUME NEW t \in Text, NEW from \in Nat, from + Overlap + 1 <= Length[t]
    PROVE  \E i \in Indices(Length[t]) :
               Chunk(t, i).from <= from /\ from + Overlap + 1 <= Chunk(t, i).upto
  <1> DEFINE n == Length[t]
  <1>1. n \in Nat /\ Size \in Nat /\ Overlap \in Nat
    BY IndexAssumption
  <1>2. PICK i \in Nat : i * Step <= from /\ from < i * Step + Step
    BY StartBefore
  <1>3. /\ i * Step \in Nat /\ i <= i * Step /\ i * Step < n
        /\ from + Overlap + 1 <= i * Step + Size
    BY <1>1, <1>2, Starts, StepPositive
  <1> DEFINE Last == {j \in Nat : j * Step + Size >= n}
  <1>4. CASE i = 0
    <2>1. i \in Indices(n)
      BY <1>1, <1>3, <1>4 DEF Indices
    <2> QED
      BY <1>1, <1>2, <1>3, <2>1 DEF Chunk
  <1>5. CASE i # 0 /\ i - 1 \notin Last
    <2>1. i - 1 \in Nat /\ (i - 1) * Step \in Nat
      BY <1>5, Starts
    <2>2. (i - 1) * Step + Size < n
      BY <1>1, <1>5, <2>1
    <2>3. i \in 0 .. n
      BY <1>1, <1>3
    <2>4. i \in Indices(n)
      BY <1>3, <2>2, <2>3 DEF Indices
    <2> QED
      BY <1>1, <1>2, <1>3, <2>4 DEF Chunk
  <1>6. CASE i # 0 /\ i - 1 \in Last
    <2>1. PICK j \in Last : \A k \in Last : j <= k
      BY <1>6, LeastNumber
    <2>2. /\ j \in Nat /\ j <= i /\ j * Step \in Nat
          /\ j * Step <= i * Step /\ j * Step + Size >= n
      BY <1>6, <2>1, Starts
    <2>3. ASSUME j > 0
          PROVE  (j - 1) * Step + Size < n
      <3>1. j - 1 \in Nat /\ ~(j <= j - 1)
        BY <2>2, <2>3
      <3>2. (j - 1) * Step \in Nat /\ j - 1 \notin Last
        BY <2>1, <3>1, Starts
      <3> QED
        BY <1>1, <3>1, <3>2
    <2>4. j \in 0 .. n /\ j * Step < n
      BY <1>1, <1>3, <2>2
    <2>5. j \in Indices(n)
      BY <2>3, <2>4 DEF Indices
    <2>6. Chunk(t, j).from = j * Step /\ Chunk(t, j).upto = n
      BY <1>1, <2>2 DEF Chunk
    <2> QED
      BY <1>2, <1>3, <2>2, <2>5, <2>6
  <1> QED
    BY <1>4, <1>5, <1>6

-----------------------------------------------------------------------------
(***************************************************************************)
(* Runs.  From its beginning to its end a run has brought up to date what  *)
(* it has come to and has left the rest as it found it; files that were    *)
(* skipped or edited meanwhile are in passed and nothing is said of them.  *)
(***************************************************************************)

Underway == pc \in {"read", "upsert", "done"}

\* What has been read of a file that nobody touched is what it holds.
TextIsCurrent ==
    pc = "upsert" => \A n \in todo :
        (At(n) /\ Files[n] \notin passed) => text = disk[Files[n]]

UpToDateSoFar ==
    Underway => \A n \in DOMAIN Files \ todo :
        (Files[n] \notin passed /\ disk[Files[n]] # Absent) =>
            \A i \in Indices(Length[disk[Files[n]]]) :
                /\ i \in DOMAIN collection[Files[n]]
                /\ collection[Files[n]][i] = Chunk(disk[Files[n]], i)

NothingElseSoFar ==
    Underway /\ reset => \A n \in DOMAIN Files : Files[n] \notin passed =>
        IF n \in todo \/ disk[Files[n]] = Absent
        THEN collection[Files[n]] = << >>
        ELSE DOMAIN collection[Files[n]] = Indices(Length[disk[Files[n]]])

\* The inductive invariant.
IndexInv == TypeOK /\ TextIsCurrent /\ UpToDateSoFar /\ NothingElseSoFar

-----------------------------------------------------------------------------
LEMMA NoDocuments == DOMAIN << >> = {}
  BY EmptySeq

LEMMA IndexInvInit == Init => IndexInv
  BY NoDocuments, IndexAssumption
     DEF Init, IndexInv, TypeOK, Empty, TextIsCurrent, UpToDateSoFar,
         NothingElseSoFar, Underway

\* A run begins: what is there is to do, and the rest of the files is absent.
LEMMA IndexInvBegin ==
    ASSUME IndexInv, NEW wipe \in BOOLEAN, BeginRun(wipe)
    PROVE  IndexInv'
  <1> USE DEF IndexInv
  <1>1. /\ todo' = {n \in DOMAIN Files : disk[Files[n]] # Absent}
        /\ passed' = {} /\ collection' = Wiped(wipe) /\ reset' = wipe
        /\ pc' \in {"idle", "read"} /\ (pc' = "read" <=> todo' # {})
        /\ pc \in {"idle", "done"}
        /\ UNCHANGED <<disk, text, edits>>
    BY DEF BeginRun
  <1>2. TypeOK'
    <2>1. /\ DOMAIN collection' = Path
          /\ \A p \in Path : \A i \in DOMAIN collection'[p] : Document(collection'[p][i])
      BY <1>1, NoDocuments DEF Wiped, Empty, TypeOK
    <2> QED
      BY <1>1, <2>1 DEF TypeOK
  <1>3. TextIsCurrent' /\ UpToDateSoFar'
    BY <1>1 DEF TextIsCurrent, UpToDateSoFar
  <1>4. NothingElseSoFar'
    BY <1>1 DEF NothingElseSoFar, Wiped, Empty, Path
  <1> QED
    BY <1>2, <1>3, <1>4

LEMMA IndexInvRead ==
    ASSUME IndexInv, NEW n \in DOMAIN Files, ReadFile(n)
    PROVE  IndexInv'
  <1> USE DEF IndexInv
  <1>1. /\ pc = "read" /\ At(n) /\ disk[Files[n]] # Absent
        /\ text' = disk[Files[n]] /\ pc' = "upsert"
        /\ UNCHANGED <<disk, collection, reset, todo, passed, edits>>
    BY DEF ReadFile
  <1>2. TypeOK'
    BY <1>1 DEF TypeOK, Path
  <1>3. TextIsCurrent'
    <2>1. \A m \in todo : At(m)' => m = n
      BY <1>1, IndexAssumption, LenProperties DEF At, TypeOK
    <2> QED
      BY <1>1, <2>1 DEF TextIsCurrent
  <1>4. UpToDateSoFar' /\ NothingElseSoFar'
    BY <1>1 DEF UpToDateSoFar, NothingElseSoFar, Underway
  <1> QED
    BY <1>2, <1>3, <1>4

LEMMA IndexInvSkip ==
    ASSUME IndexInv, NEW n \in DOMAIN Files, SkipFile(n)
    PROVE  IndexInv'
  <1> USE DEF IndexInv
  <1>1. /\ pc = "read" /\ n \in todo /\ todo' = todo \ {n} /\ text' = Absent
        /\ pc' \in {"read", "done"} /\ (pc' = "read" <=> todo' # {})
        /\ passed' = passed \cup {Files[n]}
        /\ UNCHANGED <<disk, collection, reset, edits>>
    BY DEF SkipFile, NextFile, At
  <1>2. TypeOK'
    BY <1>1 DEF TypeOK, Path
  <1>3. TextIsCurrent' /\ UpToDateSoFar' /\ NothingElseSoFar'
    BY <1>1 DEF TextIsCurrent, UpToDateSoFar, NothingElseSoFar, Underway
  <1> QED
    BY <1>2, <1>3

\* What is left of the documents of a file after an upsert.
After(old, t) == Upserted(old, Chunks(t))

LEMMA UpsertedLemma ==
    ASSUME NEW t \in Text, NEW old
    PROVE  /\ DOMAIN After(old, t) = Indices(Length[t]) \cup DOMAIN old
           /\ \A i \in Indices(Length[t]) : After(old, t)[i] = Chunk(t, i)
           /\ \A i \in DOMAIN old \ Indices(Length[t]) : After(old, t)[i] = old[i]
  BY DEF After, Upserted, Chunks

LEMMA IndexInvUpsert ==
    ASSUME IndexInv, NEW n \in DOMAIN Files, Upsert(n)
    PROVE  IndexInv'
  <1> USE DEF IndexInv
  <1> DEFINE p == Files[n]
             new == After(collection[p], text)
  <1>1. /\ pc = "upsert" /\ At(n) /\ n \in todo /\ todo' = todo \ {n}
        /\ text' = Absent
        /\ pc' \in {"read", "done"} /\ (pc' = "read" <=> todo' # {})
        /\ collection' = [collection EXCEPT ![p] = new]
        /\ UNCHANGED <<disk, reset, passed, edits>>
    BY DEF Upsert, NextFile, At, After
  <1>2. p \in Path /\ text \in Text /\ text # Absent
    BY <1>1, IndexAssumption DEF TypeOK, Path
  <1>3. /\ DOMAIN new = Indices(Length[text]) \cup DOMAIN collection[p]
        /\ \A i \in Indices(Length[text]) : new[i] = Chunk(text, i)
        /\ \A i \in DOMAIN collection[p] \ Indices(Length[text]) :
              new[i] = collection[p][i]
    <2> HIDE DEF IndexInv
    <2>1. ASSUME NEW old PROVE
          /\ DOMAIN After(old, text) = Indices(Length[text]) \cup DOMAIN old
          /\ \A i \in Indices(Length[text]) : After(old, text)[i] = Chunk(text, i)
          /\ \A i \in DOMAIN old \ Indices(Length[text]) : After(old, text)[i] = old[i]
      BY <1>2, UpsertedLemma
    <2> QED
      BY <2>1
  <1> HIDE DEF new
  <1>4. /\ DOMAIN collection' = Path /\ collection'[p] = new
        /\ \A m \in DOMAIN Files \ {n} :
              Files[m] \in Path /\ collection'[Files[m]] = collection[Files[m]]
    BY <1>1, <1>2, IndexAssumption DEF TypeOK, Path
  <1>5. p \notin passed => text = disk[p]
    BY <1>1 DEF TextIsCurrent
  <1>6. TypeOK'
    <2>1. \A i \in DOMAIN new : Document(new[i])
      BY <1>2, <1>3, ChunkIsDocument DEF TypeOK
    <2>2. \A q \in Path : \A i \in DOMAIN collection'[q] : Document(collection'[q][i])
      <3> SUFFICES ASSUME NEW q \in Path, NEW i \in DOMAIN collection'[q]
                   PROVE  Document(collection'[q][i])
        OBVIOUS
      <3>1. CASE q = p
        BY <1>4, <2>1, <3>1
      <3>2. CASE q # p
        BY <1>1, <3>2 DEF TypeOK
      <3> QED
        BY <3>1, <3>2
    <2> QED
      BY <1>1, <1>4, <2>2 DEF TypeOK
  <1>7. TextIsCurrent'
    BY <1>1 DEF TextIsCurrent
  <1>8. UpToDateSoFar'
    <2> SUFFICES ASSUME NEW m \in DOMAIN Files \ todo', Files[m] \notin passed,
                        disk[Files[m]] # Absent,
                        NEW i \in Indices(Length[disk[Files[m]]])
                 PROVE  /\ i \in DOMAIN collection'[Files[m]]
                        /\ collection'[Files[m]][i] = Chunk(disk[Files[m]], i)
      BY <1>1 DEF UpToDateSoFar
    <2>1. CASE m = n
      BY <1>3, <1>4, <1>5, <2>1
    <2>2. CASE m # n
      BY <1>1, <1>4, <2>2 DEF UpToDateSoFar, Underway
    <2> QED
      BY <2>1, <2>2
  <1>9. NothingElseSoFar'
    <2> SUFFICES ASSUME reset, NEW m \in DOMAIN Files, Files[m] \notin passed
                 PROVE  IF m \in todo' \/ disk[Files[m]] = Absent
                        THEN collection'[Files[m]] = << >>
                        ELSE DOMAIN collection'[Files[m]] =
                                 Indices(Length[disk[Files[m]]])
      BY <1>1 DEF NothingElseSoFar
    <2>1. CASE m = n
      <3>1. collection[p] = << >>
        BY <1>1, <2>1 DEF NothingElseSoFar, Underway
      <3> QED
        BY <1>1, <1>2, <1>3, <1>4, <1>5, <2>1, <3>1, NoDocuments
    <2>2. CASE m # n
      BY <1>1, <1>4, <2>2 DEF NothingElseSoFar, Underway
    <2> QED
      BY <2>1, <2>2
  <1> QED
    BY <1>6, <1>7, <1>8, <1>9

LEMMA IndexInvNext == IndexInv /\ [Next]_vars => IndexInv'
  <1> SUFFICES ASSUME IndexInv, [Next]_vars PROVE IndexInv'
    OBVIOUS
  <1> USE DEF IndexInv
  <1>1. CASE Interrupted
    BY <1>1 DEF Interrupted, TypeOK, TextIsCurrent, UpToDateSoFar,
                NothingElseSoFar, Underway
  <1>2. ASSUME NEW p \in Path, NEW t \in Text \cup {Absent}, Edit(p, t)
        PROVE  IndexInv'
    <2>1. /\ disk' = [disk EXCEPT ![p] = t] /\ passed' = passed \cup {p}
          /\ edits' \in 0 .. MaxEdits
          /\ UNCHANGED <<collection, pc, reset, todo, text>>
      BY <1>2, IndexAssumption DEF Edit, TypeOK
    <2>2. \A n \in DOMAIN Files :
             Files[n] \notin passed' => disk'[Files[n]] = disk[Files[n]]
      BY <2>1 DEF TypeOK, Path
    <2>3. TypeOK'
      BY <2>1 DEF TypeOK
    <2>4. TextIsCurrent'
      BY <2>1, <2>2 DEF TextIsCurrent, At, TypeOK
    <2>5. UpToDateSoFar' /\ NothingElseSoFar'
      BY <2>1, <2>2 DEF UpToDateSoFar, NothingElseSoFar, Underway
    <2> QED
      BY <2>3, <2>4, <2>5
  <1>3. CASE UNCHANGED vars
    BY <1>3 DEF vars, TypeOK, TextIsCurrent, At, UpToDateSoFar, NothingElseSoFar,
                Underway
  <1> QED
    BY <1>1, <1>2, <1>3, IndexInvBegin, IndexInvRead, IndexInvSkip, IndexInvUpsert
       DEF Next

LEMMA IndexInvAlways == Spec => []IndexInv
  <1>1. Init => IndexInv
    BY IndexInvInit
  <1>2. IndexInv /\ [Next]_vars => IndexInv'
    BY IndexInvNext
  <1> QED
    BY <1>1, <1>2, PTL DEF Spec

\* What the collection holds are parts of texts, never empty and never past
\* their end, and the script's place in its files agrees with its state.
THEOREM IndexTypeCorrect == Spec => []TypeOK
  <1>1. IndexInv => TypeOK
    BY DEF IndexInv
  <1> QED
    BY <1>1, IndexInvAlways, PTL

\* A run of ingest that came to its end has brought every file it could read,
\* and that nobody edited meanwhile, up to date, over whatever earlier runs
\* left when they were interrupted.
THEOREM UpToDateCorrect == Spec => []UpToDate
  <1>1. IndexInv => UpToDate
    <2> SUFFICES ASSUME IndexInv, NEW p \in Path, Settled(p),
                        NEW i \in Indices(Length[disk[p]])
                 PROVE  i \in DOMAIN collection[p] /\ collection[p][i] = Chunk(disk[p], i)
      BY DEF UpToDate
    <2>1. PICK n \in DOMAIN Files : Files[n] = p
      BY DEF Path
    <2>2. todo = {}
      BY DEF IndexInv, TypeOK, Settled
    <2> QED
      BY <2>1, <2>2 DEF IndexInv, UpToDateSoFar, Underway, Settled
  <1> QED
    BY <1>1, IndexInvAlways, PTL

\* "wipe and rebuild": after a run with --reset there is no document of a file
\* that is gone, and none past the end of one that was shortened.
THEOREM NothingElseCorrect == Spec => []NothingElse
  <1>1. IndexInv => NothingElse
    <2> SUFFICES ASSUME IndexInv, NEW p \in Path, pc = "done", reset, p \notin passed
                 PROVE  IF disk[p] = Absent THEN collection[p] = << >>
                        ELSE DOMAIN collection[p] = Indices(Length[disk[p]])
      BY DEF NothingElse
    <2>1. PICK n \in DOMAIN Files : Files[n] = p
      BY DEF Path
    <2>2. todo = {}
      BY DEF IndexInv, TypeOK
    <2> QED
      BY <2>1, <2>2 DEF IndexInv, NothingElseSoFar, Underway
  <1> QED
    BY <1>1, IndexInvAlways, PTL

\* chunk_text cuts no phrase of up to CHUNK_OVERLAP + 1 characters of an
\* indexed file in two, for every size and overlap and texts of every length.
THEOREM PhrasesWholeCorrect == Spec => []PhrasesWhole
  <1>1. IndexInv /\ UpToDate => PhrasesWhole
    <2> SUFFICES ASSUME IndexInv, UpToDate, NEW p \in Path, Settled(p),
                        NEW from \in 0 .. Length[disk[p]] - 1,
                        from + Overlap + 1 <= Length[disk[p]]
                 PROVE  \E i \in DOMAIN collection[p] :
                           LET d == collection[p][i]
                           IN  /\ d.text = disk[p] /\ d.from <= from
                               /\ from + Overlap + 1 <= d.upto
      BY DEF PhrasesWhole
    <2>1. disk[p] \in Text /\ Length[disk[p]] \in Nat
      BY IndexAssumption DEF IndexInv, TypeOK, Settled
    <2>2. PICK i \in Indices(Length[disk[p]]) :
             /\ Chunk(disk[p], i).from <= from
             /\ from + Overlap + 1 <= Chunk(disk[p], i).upto
      BY <2>1, PhraseInChunk
    <2>3. i \in DOMAIN collection[p] /\ collection[p][i] = Chunk(disk[p], i)
      BY <2>2 DEF UpToDate
    <2>4. Chunk(disk[p], i).text = disk[p]
      BY DEF Chunk
    <2> QED
      BY <2>2, <2>3, <2>4
  <1> QED
    BY <1>1, IndexInvAlways, UpToDateCorrect, PTL

=============================================================================

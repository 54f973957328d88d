------------------------ MODULE SessionDownloadProofs ------------------------
(***************************************************************************)
(* Proofs about SessionDownload: what the journal of a part file confirms  *)
(* is true after any crash, a failed rename leaves no hole in the library  *)
(* when its rollback succeeds, and a job publishes exactly its revision.   *)
(*                                                                         *)
(* None of the three is inductive.  DownloadInv adds what the steps between *)
(* two of them rely on: that the finished files are verified and the markers *)
(* of the staging area true of them (CopyIsVerified), that the part file   *)
(* under a body, the checkpoint about to be written and the offset of a    *)
(* resumed request agree (BodyIsOne, PendIsHonest, OffsetIsTrue), what the *)
(* rollback of a replacement would put back (HolesAreKnown) and which files *)
(* are in place already (PublishedSoFar).                                  *)
(***************************************************************************)
EXTENDS SessionDownload, SequenceTheorems, FiniteSetTheorems, TLAPS

-----------------------------------------------------------------------------
(* The inductive invariant.                                                *)

\* The steps of a file that is at hand, of a download or of a selection.
InFile == {"recover", "ask", "body", "journal", "rename", "discard", "forget", "check", "clean",
           "swap", "drop"}
Disk ==
    /\ part \in [Revisions -> [Files -> Contents \cup {None}]]
    /\ journal \in [Revisions -> [Files -> Journals \cup {None}]]
    /\ tmp \in [Revisions -> SUBSET Files]
    /\ copy \in [Revisions -> [Files -> Contents \cup {None}]]
    /\ seal \in [Revisions -> BOOLEAN]
    /\ chosen \in [Revisions -> (SUBSET Files) \cup {None}]
Library ==
    /\ visible \in Trees \cup {None}
    /\ superseded \in [Revisions -> Trees \cup {None}]
    /\ trash \in [Revisions -> [1..Cardinality(Files) -> Contents \cup {None}]]
    /\ serving \in Revisions /\ shown \subseteq Files /\ trouble \in 0..MaxTrouble
JobShape ==
    job # None => /\ job \in Jobs
                  /\ job.i <= Len(job.req.files) + 1
                  /\ job.pc \in InFile => job.i <= Len(job.req.files)
                  /\ job.pc \in {"seal", "publish"} => job.i = 1
                  /\ job.unsynced > 0 => job.pc \in {"body", "failed"}

\* Only verified files are finished, and a marker of the staging area stays true.
CopyIsVerified ==
    \A v \in Revisions :
        /\ \A g \in Files : copy[v][g] \in {None, Whole(v)}
        /\ seal[v] => \A g \in Files : copy[v][g] = Whole(v)
        /\ chosen[v] # None => \A g \in chosen[v] : copy[v][g] = Whole(v)

\* While a body arrives the part file is all of the revision it is read from.
InBody ==
    job # None /\ (job.pc = "body" \/ (job.pc \in {"journal", "rename"} /\ job.next \in {"body", "check"}))
BodyIsOne ==
    InBody => /\ job.body \in Revisions /\ part[r][f] # None
              /\ job.unsynced <= Len(part[r][f])
              /\ \A k \in 1..Len(part[r][f]) : part[r][f][k] = job.body
              /\ journal[r][f] # None => journal[r][f].etag = job.body

\* What is about to become the journal is honest.
PendIsHonest ==
    job # None /\ job.pc \in {"journal", "rename"} =>
        /\ job.pend # None /\ job.next \in {"ask", "body", "check"}
        /\ part[r][f] # None =>
             \A k \in 1..Lesser(job.pend.off, Len(part[r][f])) : part[r][f][k] = job.pend.etag
        /\ job.next = "ask" => job.pend.off = job.off
        /\ job.next \in {"body", "check"} => job.pend.etag = job.body

\* A resumed request begins where the part file and the journal end.
OffsetIsTrue ==
    job # None =>
        /\ (job.pc = "ask" \/ (job.pc \in {"journal", "rename"} /\ job.next = "ask")) /\ job.off > 0 =>
             part[r][f] # None /\ Len(part[r][f]) = job.off
        /\ job.pc = "ask" /\ job.off > 0 => journal[r][f] # None /\ journal[r][f].off = job.off
        /\ job.pc \in {"discard", "forget"} =>
             /\ job.next \in {"ask", "body", "failed"}
             /\ job.next = "ask" => job.off = 0
             /\ job.next = "body" => job.body \in Revisions

\* Outside the two renames of a replacement nothing is missing but what a crash
\* or a lost rollback has left out; between them the error return knows what
\* to put back.
HolesAreKnown ==
    /\ job = None \/ job.pc \notin {"install", "swap"} => Holes \subseteq scar
    /\ At("install") =>
         /\ seal[r]
         /\ \A g \in shown : superseded[r] = None \/ superseded[r].file[g] = None => g \in scar
    /\ At("swap") =>
         /\ visible # None /\ Holes \ {f} \subseteq scar
         /\ f \in shown /\ trash[r][job.i] = None => f \in scar

\* The files of the request that are published so far.
Shows(g) == visible # None /\ visible.file[g] = Whole(r)
PublishedSoFar ==
    job # None =>
        /\ job.pc \in {"pick", "swap", "drop"} =>
             /\ chosen[r] = Range(job.req.files)
             /\ \A k \in 1..(job.i - 1) : Shows(job.req.files[k])
        /\ job.pc = "drop" => Shows(f)
        /\ job.pc = "mark" \/ (job.pc \in {"tidy", "done"} /\ ~job.already) =>
             \A g \in Range(job.req.files) : Shows(g)

DownloadInv ==
    /\ Disk /\ Library /\ JobShape /\ CopyIsVerified
    /\ JournalIsHonest /\ BodyIsOne /\ PendIsHonest /\ OffsetIsTrue
    /\ HolesAreKnown /\ PublishedSoFar

-----------------------------------------------------------------------------
(* Sequences, functions and requests.                                      *)

(* The constants. *)
LEMMA Constants ==
    /\ Size \in Nat /\ Size > 0 /\ Interval \in Nat /\ Interval > 0 /\ MaxTrouble \in Nat
    /\ None \notin Jobs /\ None \notin Revisions /\ None \notin Contents /\ None \notin Journals /\ None \notin Trees
    /\ \A S \in SUBSET Files : S # None
  BY DownloadAssumption

(* The content of a file is a sequence of at most Size blocks. *)
LEMMA ContentIsSeq ==
    \A s \in Contents : s \in Seq(Revisions) /\ Len(s) \in Nat /\ Len(s) <= Size /\ DOMAIN s = 1..Len(s)
<1> SUFFICES ASSUME NEW s \in Contents
             PROVE  s \in Seq(Revisions) /\ Len(s) \in Nat /\ Len(s) <= Size /\ DOMAIN s = 1..Len(s)
  OBVIOUS
<1>1. PICK n \in 0..Size : s \in [1..n -> Revisions]
  BY DEF Contents
<1>2. n \in Nat /\ n <= Size
  BY Constants
<1>3. s \in Seq(Revisions)
  BY <1>1, <1>2, SeqDef
<1>4. DOMAIN s = 1..n /\ Len(s) = n
  BY <1>1, <1>2, <1>3, LenProperties
<1> QED BY <1>2, <1>3, <1>4

LEMMA SeqIsContent ==
    ASSUME NEW s \in Seq(Revisions), Len(s) <= Size
    PROVE  s \in Contents
<1>1. Len(s) \in Nat /\ s \in [1..Len(s) -> Revisions]
  BY LenProperties
<1>2. Len(s) \in 0..Size
  BY <1>1, Constants
<1> QED BY <1>1, <1>2 DEF Contents

LEMMA WholeIsContent ==
    ASSUME NEW v \in Revisions
    PROVE  Whole(v) \in Contents /\ Whole(v) # None
<1>1. Whole(v) \in [1..Size -> Revisions] /\ Size \in 0..Size
  BY Constants DEF Whole
<1> QED BY <1>1, Constants DEF Contents

(* A part file that is cut back. *)
LEMMA Prefix ==
    ASSUME NEW s \in Contents, NEW n \in 0..Len(s)
    PROVE  /\ SubSeq(s, 1, n) \in Contents /\ Len(SubSeq(s, 1, n)) = n
           /\ \A k \in 1..n : SubSeq(s, 1, n)[k] = s[k]
<1>1. s \in Seq(Revisions) /\ Len(s) \in Nat /\ Len(s) <= Size
  BY ContentIsSeq
<1>2. n \in Nat /\ n <= Len(s) /\ n <= Size
  BY <1>1, Constants
<1>3. /\ SubSeq(s, 1, n) \in Seq(Revisions) /\ Len(SubSeq(s, 1, n)) = n
      /\ \A k \in 1..n : SubSeq(s, 1, n)[k] = s[k]
  BY <1>1, <1>2, SubSeqProperties
<1> QED BY <1>2, <1>3, SeqIsContent

(* A block more. *)
LEMMA OneMore ==
    ASSUME NEW s \in Contents, NEW v \in Revisions, Len(s) < Size
    PROVE  /\ Append(s, v) \in Contents /\ Len(Append(s, v)) = Len(s) + 1
           /\ \A k \in 1..Len(s) : Append(s, v)[k] = s[k]
           /\ Append(s, v)[Len(s) + 1] = v
<1>1. s \in Seq(Revisions) /\ Len(s) \in Nat /\ Len(s) <= Size
  BY ContentIsSeq
<1>2. /\ Append(s, v) \in Seq(Revisions) /\ Len(Append(s, v)) = Len(s) + 1
      /\ \A k \in 1..Len(s) : Append(s, v)[k] = s[k]
      /\ Append(s, v)[Len(s) + 1] = v
  BY <1>1, AppendProperties
<1>3. Len(Append(s, v)) <= Size
  BY <1>1, <1>2, Constants
<1> QED BY <1>2, <1>3, SeqIsContent

(* One file of one revision changes. *)
LEMMA Update2 ==
    ASSUME NEW A, NEW B, NEW V, NEW X \in [A -> [B -> V]], NEW a \in A, NEW b \in B, NEW y \in V
    PROVE  LET Y == [X EXCEPT ![a][b] = y]
           IN  /\ Y \in [A -> [B -> V]] /\ Y[a][b] = y
               /\ \A c \in A, e \in B : c # a \/ e # b => Y[c][e] = X[c][e]
  OBVIOUS

LEMMA Update1 ==
    ASSUME NEW A, NEW V, NEW X \in [A -> V], NEW a \in A, NEW y \in V
    PROVE  LET Y == [X EXCEPT ![a] = y]
           IN  Y \in [A -> V] /\ Y[a] = y /\ \A c \in A : c # a => Y[c] = X[c]
  OBVIOUS

(* The request of the job, and the file at hand. *)
LEMMA Requested ==
    ASSUME DownloadInv, job # None
    PROVE  /\ job \in Jobs /\ job.req \in Requests /\ r \in Revisions /\ job.req.files \in Seq(Files) /\ Len(job.req.files) \in Nat
           /\ job.req.scope \in {"whole", "selected"} /\ job.i \in Nat /\ job.i >= 1
           /\ Range(job.req.files) \subseteq Files
           /\ job.req.scope = "whole" => Range(job.req.files) = Files
           /\ \A k, l \in 1..Len(job.req.files) : job.req.files[k] = job.req.files[l] => k = l
           /\ \A k \in 1..Len(job.req.files) : job.req.files[k] \in Range(job.req.files)
           /\ \A g \in Range(job.req.files) : \E k \in 1..Len(job.req.files) : g = job.req.files[k]
           /\ job.i <= Len(job.req.files) =>
                f \in Files /\ job.i \in 1..Len(job.req.files) /\ job.i \in 1..Cardinality(Files)
<1> DEFINE s == job.req.files
<1>1. job \in Jobs /\ job.req \in Requests
  BY DEF DownloadInv, JobShape, Jobs
<1>2. /\ job.req.rev \in Revisions /\ s \in Seq(Files) /\ IsInjective(s) /\ IsFiniteSet(Files)
      /\ job.req.scope \in {"whole", "selected"} /\ (job.req.scope = "whole" => Range(s) = Files)
  BY <1>1, DownloadAssumption
<1>3. job.i \in Nat /\ job.i >= 1
  BY <1>1 DEF Jobs
<1> HIDE DEF s
<1>4. Len(s) \in Nat /\ DOMAIN s = 1..Len(s) /\ s \in [1..Len(s) -> Files]
  BY <1>2, LenProperties
<1>5. \A k, l \in 1..Len(s) : s[k] = s[l] => k = l
  BY <1>2, <1>4 DEF IsInjective
<1>6. /\ Range(s) \subseteq Files /\ \A k \in 1..Len(s) : s[k] \in Range(s)
      /\ \A g \in Range(s) : \E k \in 1..Len(s) : g = s[k]
  BY <1>4 DEF Range
<1>7. Len(s) <= Cardinality(Files) /\ Cardinality(Files) \in Nat
  <2>1. s \in Injection(1..Len(s), Files)
    BY <1>2, <1>4 DEF Injection
  <2>2. Cardinality(1..Len(s)) <= Cardinality(Files)
    BY <1>2, <2>1, FS_Injection
  <2>3. Cardinality(1..Len(s)) = Len(s)
    BY <1>4, FS_Interval
  <2> QED BY <1>2, <2>2, <2>3, FS_CardinalityType
<1>8. job.i <= Len(s) => s[job.i] \in Files /\ job.i \in 1..Len(s) /\ job.i \in 1..Cardinality(Files)
  BY <1>3, <1>4, <1>7
<1> QED BY <1>1, <1>2, <1>3, <1>4, <1>5, <1>6, <1>8 DEF s, r, f

-----------------------------------------------------------------------------
(* What a step leaves alone.                                               *)

(* The job only moves on. *)
LEMMA Moved ==
    ASSUME job \in Jobs, NEW p \in Steps, job' = [job EXCEPT !.pc = p]
    PROVE  /\ job' \in Jobs /\ job' # None /\ job'.pc = p /\ r' = r /\ f' = f
           /\ job'.req = job.req /\ job'.i = job.i /\ job'.off = job.off /\ job'.body = job.body
           /\ job'.unsynced = job.unsynced /\ job'.pend = job.pend /\ job'.next = job.next
           /\ job'.already = job.already
<1>1. /\ job'.pc = p /\ job'.req = job.req /\ job'.i = job.i /\ job'.off = job.off /\ job'.body = job.body
      /\ job'.unsynced = job.unsynced /\ job'.pend = job.pend /\ job'.next = job.next
      /\ job'.already = job.already
  BY DEF Jobs
<1>2. job' \in Jobs
  BY DEF Jobs
<1> QED BY <1>1, <1>2, Constants DEF r, f

(* The same, when the file at hand changes too. *)
LEMMA Advanced ==
    ASSUME job \in Jobs, NEW p \in Steps, NEW n \in Nat \ {0}, job' = [job EXCEPT !.pc = p, !.i = n]
    PROVE  /\ job' \in Jobs /\ job' # None /\ job'.pc = p /\ r' = r
           /\ job'.req = job.req /\ job'.i = n /\ job'.unsynced = job.unsynced
           /\ job'.already = job.already
<1>1. /\ job'.pc = p /\ job'.req = job.req /\ job'.i = n /\ job'.unsynced = job.unsynced
      /\ job'.already = job.already
  BY DEF Jobs
<1>2. job' \in Jobs
  BY DEF Jobs
<1> QED BY <1>1, <1>2, Constants DEF r

(* Nothing changes in the staging areas. *)
LEMMA DiskKept ==
    ASSUME DownloadInv, UNCHANGED disk
    PROVE  Disk' /\ CopyIsVerified' /\ JournalIsHonest'
<1>1. /\ part' = part /\ journal' = journal /\ tmp' = tmp /\ copy' = copy /\ seal' = seal
      /\ chosen' = chosen
  BY DEF disk
<1>2. Disk'
  BY <1>1 DEF DownloadInv, Disk
<1>3. CopyIsVerified'
  BY <1>1 DEF DownloadInv, CopyIsVerified
<1>4. JournalIsHonest'
  BY <1>1 DEF DownloadInv, JournalIsHonest
<1> QED BY <1>2, <1>3, <1>4

(* The part file and the journal of one file change. *)
LEMMA OnePart ==
    ASSUME DownloadInv, NEW v \in Revisions, NEW g \in Files,
           part' \in [Revisions -> [Files -> Contents \cup {None}]],
           journal' \in [Revisions -> [Files -> Journals \cup {None}]],
           tmp' \in [Revisions -> SUBSET Files],
           \A c \in Revisions, e \in Files :
               c # v \/ e # g => part'[c][e] = part[c][e] /\ journal'[c][e] = journal[c][e],
           journal'[v][g] # None /\ part'[v][g] # None =>
               \A k \in 1..Lesser(journal'[v][g].off, Len(part'[v][g])) :
                   part'[v][g][k] = journal'[v][g].etag
    PROVE  /\ UNCHANGED <<copy, seal, chosen>> => Disk' /\ CopyIsVerified'
           /\ JournalIsHonest'
<1>1. ASSUME UNCHANGED <<copy, seal, chosen>> PROVE Disk' /\ CopyIsVerified'
  BY <1>1 DEF DownloadInv, Disk, CopyIsVerified
<1>2. JournalIsHonest'
  <2> SUFFICES ASSUME NEW c \in Revisions, NEW e \in Files, journal'[c][e] # None, part'[c][e] # None
               PROVE  \A k \in 1..Lesser(journal'[c][e].off, Len(part'[c][e])) :
                          part'[c][e][k] = journal'[c][e].etag
    BY DEF JournalIsHonest
  <2>1. CASE c = v /\ e = g
    BY <2>1
  <2>2. CASE c # v \/ e # g
    <3>1. part'[c][e] = part[c][e] /\ journal'[c][e] = journal[c][e]
      BY <2>2
    <3>2. \A k \in 1..Lesser(journal[c][e].off, Len(part[c][e])) : part[c][e][k] = journal[c][e].etag
      BY <3>1 DEF DownloadInv, JournalIsHonest
    <3> QED BY <3>1, <3>2
  <2> QED BY <2>1, <2>2
<1> QED BY <1>1, <1>2

(* The staging area of the revision goes. *)
LEMMA Cleared ==
    ASSUME DownloadInv, job # None, StagingCleared
    PROVE  Disk' /\ CopyIsVerified' /\ JournalIsHonest'
<1> DEFINE none == [g \in Files |-> None]
<1>1. r \in Revisions /\ none \in [Files -> Contents \cup {None}] /\ none \in [Files -> Journals \cup {None}]
  BY Requested
<1>2. /\ part \in [Revisions -> [Files -> Contents \cup {None}]]
      /\ journal \in [Revisions -> [Files -> Journals \cup {None}]]
      /\ tmp \in [Revisions -> SUBSET Files]
      /\ copy \in [Revisions -> [Files -> Contents \cup {None}]]
      /\ seal \in [Revisions -> BOOLEAN]
      /\ chosen \in [Revisions -> (SUBSET Files) \cup {None}]
  BY DEF DownloadInv, Disk
<1>3. /\ part' = [part EXCEPT ![r] = none] /\ journal' = [journal EXCEPT ![r] = none]
      /\ tmp' = [tmp EXCEPT ![r] = {}] /\ copy' = [copy EXCEPT ![r] = none]
      /\ seal' = [seal EXCEPT ![r] = FALSE] /\ chosen' = [chosen EXCEPT ![r] = None]
  BY DEF StagingCleared
<1>4. \A g \in Files : none[g] = None
  OBVIOUS
<1> HIDE DEF none
<1>5. /\ part' \in [Revisions -> [Files -> Contents \cup {None}]] /\ part'[r] = none
      /\ \A v \in Revisions : v # r => part'[v] = part[v]
  BY <1>1, <1>2, <1>3, Update1
<1>6. /\ journal' \in [Revisions -> [Files -> Journals \cup {None}]] /\ journal'[r] = none
      /\ \A v \in Revisions : v # r => journal'[v] = journal[v]
  BY <1>1, <1>2, <1>3, Update1
<1>7. /\ tmp' \in [Revisions -> SUBSET Files] /\ seal' \in [Revisions -> BOOLEAN]
      /\ chosen' \in [Revisions -> (SUBSET Files) \cup {None}]
  <2>1. tmp' \in [Revisions -> SUBSET Files]
    BY <1>1, <1>2, <1>3
  <2>2. seal' \in [Revisions -> BOOLEAN]
    BY <1>1, <1>2, <1>3
  <2>3. None \in (SUBSET Files) \cup {None}
    OBVIOUS
  <2>4. chosen' \in [Revisions -> (SUBSET Files) \cup {None}]
    BY <1>1, <1>2, <1>3, <2>3, Update1
  <2> QED BY <2>1, <2>2, <2>4
<1>8. /\ copy' \in [Revisions -> [Files -> Contents \cup {None}]] /\ copy'[r] = none
      /\ \A v \in Revisions : v # r => copy'[v] = copy[v]
  BY <1>1, <1>2, <1>3, Update1
<1>9. /\ seal'[r] = FALSE /\ chosen'[r] = None
      /\ \A v \in Revisions : v # r => seal'[v] = seal[v] /\ chosen'[v] = chosen[v]
  BY <1>1, <1>2, <1>3
<1>10. Disk'
  BY <1>5, <1>6, <1>7, <1>8 DEF Disk
<1>11. CopyIsVerified'
  <2> SUFFICES ASSUME NEW v \in Revisions
               PROVE  /\ \A g \in Files : copy'[v][g] \in {None, Whole(v)}
                      /\ seal'[v] => \A g \in Files : copy'[v][g] = Whole(v)
                      /\ chosen'[v] # None => \A g \in chosen'[v] : copy'[v][g] = Whole(v)
    BY DEF CopyIsVerified, Whole
  <2>1. CASE v = r
    BY <2>1, <1>4, <1>8, <1>9
  <2>2. CASE v # r
    BY <2>2, <1>8, <1>9 DEF DownloadInv, CopyIsVerified
  <2> QED BY <2>1, <2>2
<1>12. JournalIsHonest'
  <2> SUFFICES ASSUME NEW c \in Revisions, NEW e \in Files, journal'[c][e] # None, part'[c][e] # None
               PROVE  \A k \in 1..Lesser(journal'[c][e].off, Len(part'[c][e])) :
                          part'[c][e][k] = journal'[c][e].etag
    BY DEF JournalIsHonest
  <2>1. c # r
    BY <1>4, <1>5
  <2>2. part'[c][e] = part[c][e] /\ journal'[c][e] = journal[c][e]
    BY <2>1, <1>5, <1>6
  <2>3. \A k \in 1..Lesser(journal[c][e].off, Len(part[c][e])) : part[c][e][k] = journal[c][e].etag
    BY <2>2 DEF DownloadInv, JournalIsHonest
  <2> QED BY <2>2, <2>3
<1> QED BY <1>10, <1>11, <1>12

(* A step outside the publication. *)
Publishing == {"pick", "drop", "mark", "tidy", "done"}
LEMMA NotPublishing ==
    ASSUME DownloadInv, UNCHANGED <<tree, shown, scar>>, serving' \in Revisions, trouble' \in 0..MaxTrouble,
           job = None \/ job.pc \notin {"install", "swap"},
           job' = None \/ job'.pc \notin {"install", "swap"} \cup Publishing
    PROVE  Library' /\ HolesAreKnown' /\ PublishedSoFar'
<1>1. visible' = visible /\ superseded' = superseded /\ trash' = trash /\ shown' = shown /\ scar' = scar
  BY DEF tree
<1>2. Library'
  BY <1>1 DEF DownloadInv, Library
<1>3. HolesAreKnown'
  <2>1. Holes \subseteq scar
    BY DEF DownloadInv, HolesAreKnown
  <2>2. Holes' = Holes
    BY <1>1 DEF Holes
  <2>3. ~At("install")' /\ ~At("swap")'
    BY DEF At
  <2> QED BY <1>1, <2>1, <2>2, <2>3 DEF HolesAreKnown
<1>4. PublishedSoFar'
  BY DEF PublishedSoFar, Publishing
<1> QED BY <1>2, <1>3, <1>4

(* A step after which no file is being received. *)
Loading == {"ask", "body", "journal", "rename", "discard", "forget"}
LEMMA NotLoading ==
    ASSUME job' = None \/ job'.pc \notin Loading
    PROVE  BodyIsOne' /\ PendIsHonest' /\ OffsetIsTrue'
  BY DEF Loading, BodyIsOne, InBody, PendIsHonest, OffsetIsTrue

LEMMA NoJob == job' = None => JobShape'
  BY DEF JobShape

(* Of a job that holds no unflushed bytes, what has to be looked at. *)
LEMMA Shape ==
    ASSUME job' \in Jobs, job'.i <= Len(job'.req.files) + 1,
           job'.pc \in InFile => job'.i <= Len(job'.req.files),
           job'.pc \in {"seal", "publish"} => job'.i = 1,
           job'.unsynced = 0 \/ job'.pc \in {"body", "failed"}
    PROVE  JobShape'
  BY DEF JobShape

LEMMA Flushed ==
    ASSUME DownloadInv, job # None, job.pc \notin {"body", "failed"}
    PROVE  job.unsynced = 0
<1>1. job.unsynced \in Nat
  BY Requested DEF Jobs
<1> QED BY <1>1 DEF DownloadInv, JobShape

-----------------------------------------------------------------------------
(* The steps of the download of a file.                                    *)

(* The types of the staging areas, and of the file at hand. *)
LEMMA AtFile ==
    ASSUME DownloadInv, job # None, job.i <= Len(job.req.files)
    PROVE  /\ r \in Revisions /\ f \in Files
           /\ part \in [Revisions -> [Files -> Contents \cup {None}]] /\ part[r][f] \in Contents \cup {None}
           /\ journal \in [Revisions -> [Files -> Journals \cup {None}]] /\ journal[r][f] \in Journals \cup {None}
           /\ tmp \in [Revisions -> SUBSET Files]
           /\ copy \in [Revisions -> [Files -> Contents \cup {None}]]
           /\ journal[r][f] # None => journal[r][f].off \in 0..Size /\ journal[r][f].etag \in Revisions
<1>1. r \in Revisions /\ f \in Files
  BY Requested
<1>2. /\ part \in [Revisions -> [Files -> Contents \cup {None}]]
      /\ journal \in [Revisions -> [Files -> Journals \cup {None}]]
      /\ tmp \in [Revisions -> SUBSET Files]
      /\ copy \in [Revisions -> [Files -> Contents \cup {None}]]
  BY DEF DownloadInv, Disk
<1>3. part[r][f] \in Contents \cup {None} /\ journal[r][f] \in Journals \cup {None}
  BY <1>1, <1>2
<1>4. \A j \in Journals : j.off \in 0..Size /\ j.etag \in Revisions
  BY DEF Journals
<1> QED BY <1>1, <1>2, <1>3, <1>4

(* The part file and the journal of the file at hand go. *)
LEMMA PartGone ==
    ASSUME DownloadInv, job # None, job.i <= Len(job.req.files),
           part' = [part EXCEPT ![r][f] = None],
           journal' = journal \/ journal' = [journal EXCEPT ![r][f] = None],
           UNCHANGED <<tmp, copy, seal, chosen>>
    PROVE  Disk' /\ CopyIsVerified' /\ JournalIsHonest' /\ part'[r][f] = None
<1>1. /\ part' \in [Revisions -> [Files -> Contents \cup {None}]] /\ part'[r][f] = None
      /\ \A c \in Revisions, e \in Files : c # r \/ e # f => part'[c][e] = part[c][e]
  BY AtFile, Update2
<1>2. /\ journal' \in [Revisions -> [Files -> Journals \cup {None}]]
      /\ \A c \in Revisions, e \in Files : c # r \/ e # f => journal'[c][e] = journal[c][e]
  <2>1. CASE journal' = journal
    BY <2>1, AtFile
  <2>2. CASE journal' = [journal EXCEPT ![r][f] = None]
    BY <2>2, AtFile, Update2
  <2> QED BY <2>1, <2>2
<1>3. tmp' \in [Revisions -> SUBSET Files]
  BY AtFile
<1>4. r \in Revisions /\ f \in Files
  BY AtFile
<1> QED BY <1>1, <1>2, <1>3, <1>4, OnePart

(* The journal of the file at hand goes. *)
LEMMA JournalGone ==
    ASSUME DownloadInv, job # None, job.i <= Len(job.req.files),
           journal' = [journal EXCEPT ![r][f] = None], part' = part,
           UNCHANGED <<tmp, copy, seal, chosen>>
    PROVE  Disk' /\ CopyIsVerified' /\ JournalIsHonest'
<1>1. /\ journal' \in [Revisions -> [Files -> Journals \cup {None}]] /\ journal'[r][f] = None
      /\ \A c \in Revisions, e \in Files : c # r \/ e # f => journal'[c][e] = journal[c][e]
  BY AtFile, Update2
<1>2. tmp' \in [Revisions -> SUBSET Files] /\ part' \in [Revisions -> [Files -> Contents \cup {None}]]
  BY AtFile
<1>3. r \in Revisions /\ f \in Files
  BY AtFile
<1> QED BY <1>1, <1>2, <1>3, OnePart

LEMMA InspectFilePreserves ==
    ASSUME DownloadInv, InspectFile
    PROVE  DownloadInv'
<1>1. /\ job # None /\ job.pc = "file" /\ job.i <= Len(job.req.files)
      /\ UNCHANGED <<tmp, seal, chosen, tree, serving, shown, scar, trouble>>
  BY DEF InspectFile, At
<1>2. job \in Jobs /\ job.i \in Nat /\ job.i + 1 \in Nat \ {0} /\ Len(job.req.files) \in Nat
      /\ job.unsynced = 0 /\ r \in Revisions /\ f \in Files
  BY <1>1, Requested, Flushed
<1>3. serving' \in Revisions /\ trouble' \in 0..MaxTrouble
  BY <1>1 DEF DownloadInv, Library
<1>4. CASE Verified(copy[r][f], r)
  <2>1. /\ part' = [part EXCEPT ![r][f] = None] /\ journal' = [journal EXCEPT ![r][f] = None]
        /\ job' = [job EXCEPT !.i = @ + 1] /\ copy' = copy
    BY <1>4 DEF InspectFile
  <2>2. Disk' /\ CopyIsVerified' /\ JournalIsHonest'
    BY <1>1, <2>1, PartGone
  <2>3. job' \in Jobs /\ job'.pc = "file" /\ job'.req = job.req /\ job'.i = job.i + 1 /\ job'.unsynced = 0
    BY <1>1, <1>2, <2>1 DEF Jobs
  <2>4. JobShape'
    BY <1>1, <1>2, <2>3, Shape DEF InFile
  <2>5. Library' /\ HolesAreKnown' /\ PublishedSoFar'
    BY <1>1, <1>3, <2>3, NotPublishing DEF Publishing
  <2>6. BodyIsOne' /\ PendIsHonest' /\ OffsetIsTrue'
    BY <2>3, NotLoading DEF Loading
  <2> QED BY <2>2, <2>4, <2>5, <2>6 DEF DownloadInv
<1>5. CASE ~Verified(copy[r][f], r)
  <2>1. /\ copy' = [copy EXCEPT ![r][f] = None] /\ job' = [job EXCEPT !.pc = "recover"]
        /\ part' = part /\ journal' = journal
    BY <1>5 DEF InspectFile, Goto
  <2>2. "recover" \in Steps
    BY DEF Steps
  <2>3. job' \in Jobs /\ job'.pc = "recover" /\ job'.req = job.req /\ job'.i = job.i /\ job'.unsynced = 0
    BY <1>2, <2>1, <2>2, Moved
  <2>4. JobShape'
    BY <1>1, <1>2, <2>3, Shape DEF InFile
  <2>5. Library' /\ HolesAreKnown' /\ PublishedSoFar'
    BY <1>1, <1>3, <2>3, NotPublishing DEF Publishing
  <2>6. BodyIsOne' /\ PendIsHonest' /\ OffsetIsTrue'
    BY <2>3, NotLoading DEF Loading
  <2>7. /\ copy' \in [Revisions -> [Files -> Contents \cup {None}]] /\ copy'[r][f] = None
        /\ \A c \in Revisions, e \in Files : c # r \/ e # f => copy'[c][e] = copy[c][e]
    BY <1>1, <2>1, AtFile, Update2
  <2>8. Disk'
    BY <1>1, <2>1, <2>7 DEF DownloadInv, Disk
  <2>9. JournalIsHonest'
    BY <2>1 DEF DownloadInv, JournalIsHonest
  <2>10. copy[r][f] # Whole(r)
    BY <1>5 DEF Verified, sha256_of_file
  <2>11. CopyIsVerified'
    <3>1. CopyIsVerified
      BY DEF DownloadInv
    <3>2. ~seal[r] /\ (chosen[r] # None => f \notin chosen[r])
      BY <1>2, <2>10, <3>1 DEF CopyIsVerified
    <3>3. chosen \in [Revisions -> (SUBSET Files) \cup {None}]
      BY DEF DownloadInv, Disk
    <3> SUFFICES ASSUME NEW v \in Revisions
                 PROVE  /\ \A g \in Files : copy'[v][g] \in {None, Whole(v)}
                        /\ seal[v] => \A g \in Files : copy'[v][g] = Whole(v)
                        /\ chosen[v] # None => \A g \in chosen[v] : copy'[v][g] = Whole(v)
      BY <1>1 DEF CopyIsVerified, Whole
    <3>4. \A g \in Files : copy'[v][g] \in {None, Whole(v)}
      BY <2>7, <3>1 DEF CopyIsVerified
    <3>5. seal[v] => \A g \in Files : copy'[v][g] = Whole(v)
      BY <2>7, <3>1, <3>2 DEF CopyIsVerified
    <3>6. ASSUME chosen[v] # None, NEW g \in chosen[v] PROVE copy'[v][g] = Whole(v)
      <4>1. g \in Files
        BY <3>3, <3>6
      <4>2. copy[v][g] = Whole(v)
        BY <3>1, <3>6 DEF CopyIsVerified
      <4>3. v # r \/ g # f
        BY <3>2, <3>6
      <4> QED BY <2>7, <4>1, <4>2, <4>3
    <3> QED BY <3>4, <3>5, <3>6
  <2> QED BY <2>4, <2>5, <2>6, <2>8, <2>9, <2>11 DEF DownloadInv
<1> QED BY <1>4, <1>5

LEMMA EndOfFilesPreserves ==
    ASSUME DownloadInv, EndOfFiles
    PROVE  DownloadInv'
<1>1. /\ job # None /\ job.pc = "file" /\ job' = [job EXCEPT !.pc = "seal", !.i = 1]
      /\ UNCHANGED <<disk, tree, serving, shown, scar, trouble>>
  BY DEF EndOfFiles, At
<1>2. job \in Jobs /\ Len(job.req.files) \in Nat /\ job.unsynced = 0
  BY <1>1, Requested, Flushed
<1>3. serving' \in Revisions /\ trouble' \in 0..MaxTrouble
  BY <1>1 DEF DownloadInv, Library
<1>4. "seal" \in Steps /\ 1 \in Nat \ {0}
  BY DEF Steps
<1>5. job' \in Jobs /\ job'.pc = "seal" /\ job'.req = job.req /\ job'.i = 1 /\ job'.unsynced = 0
  BY <1>1, <1>2, <1>4, Advanced
<1>6. JobShape'
  BY <1>2, <1>5, Shape DEF InFile
<1>7. Library' /\ HolesAreKnown' /\ PublishedSoFar'
  BY <1>1, <1>3, <1>5, NotPublishing DEF Publishing
<1>8. BodyIsOne' /\ PendIsHonest' /\ OffsetIsTrue'
  BY <1>5, NotLoading DEF Loading
<1>9. Disk' /\ CopyIsVerified' /\ JournalIsHonest'
  BY <1>1, DiskKept
<1> QED BY <1>6, <1>7, <1>8, <1>9 DEF DownloadInv

(* The offset to resume at. *)
LEMMA SafeOffset ==
    ASSUME DownloadInv, job # None, job.i <= Len(job.req.files)
    PROVE  LET rec == journal[r][f]
               safe == recover_resume_offset(Len0(part[r][f]), Offset(rec))
           IN  /\ safe \in 0..Size /\ safe <= Offset(rec) /\ Offset(rec) \in Nat
               /\ part[r][f] = None => safe = 0
               /\ part[r][f] # None => safe \in 0..Len(part[r][f])
               /\ part[r][f] # None /\ rec # None => safe = Lesser(rec.off, Len(part[r][f]))
               /\ Offset(rec) > 0 => rec # None /\ Offset(rec) = rec.off
<1> DEFINE rec == journal[r][f]
           len == Len0(part[r][f])
<1>1. len \in Nat /\ len <= Size /\ (part[r][f] = None => len = 0) /\ (part[r][f] # None => len = Len(part[r][f]))
  BY AtFile, ContentIsSeq, Constants DEF Len0
<1>2. Offset(rec) \in 0..Size /\ (rec = None => Offset(rec) = 0) /\ (rec # None => Offset(rec) = rec.off)
  BY AtFile, Constants DEF Offset
<1> HIDE DEF rec, len
<1>3. recover_resume_offset(len, Offset(rec)) = IF len < Offset(rec) THEN len ELSE Offset(rec)
  BY DEF recover_resume_offset, Lesser
<1>4. /\ recover_resume_offset(len, Offset(rec)) \in 0..Size
      /\ recover_resume_offset(len, Offset(rec)) \in 0..len
      /\ recover_resume_offset(len, Offset(rec)) <= Offset(rec)
  BY <1>1, <1>2, <1>3, Constants
<1>5. part[r][f] # None /\ rec # None => recover_resume_offset(len, Offset(rec)) = Lesser(rec.off, Len(part[r][f]))
  BY <1>1, <1>2, <1>3, Constants DEF Lesser
<1> QED BY <1>1, <1>2, <1>4, <1>5 DEF rec, len

LEMMA RecoverOffsetPreserves ==
    ASSUME DownloadInv, RecoverOffset
    PROVE  DownloadInv'
<1> DEFINE rec == journal[r][f]
           safe == recover_resume_offset(Len0(part[r][f]), Offset(rec))
<1>1. /\ job # None /\ job.pc = "recover"
      /\ UNCHANGED <<journal, tmp, copy, seal, chosen, tree, serving, shown, scar, trouble>>
  BY DEF RecoverOffset, At
<1>2. /\ part' = IF part[r][f] = None THEN part ELSE [part EXCEPT ![r][f] = SubSeq(@, 1, safe)]
      /\ job' = IF Offset(rec) > safe
                THEN [job EXCEPT !.off = safe, !.pc = "journal", !.next = "ask",
                                 !.pend = [rec EXCEPT !.off = safe]]
                ELSE [job EXCEPT !.off = safe, !.pc = "ask"]
  BY DEF RecoverOffset
<1>3. job.i <= Len(job.req.files)
  BY <1>1 DEF DownloadInv, JobShape, InFile
<1>4. job \in Jobs /\ Len(job.req.files) \in Nat /\ job.i \in Nat /\ job.unsynced = 0
  BY <1>1, Requested, Flushed
<1>5. serving' \in Revisions /\ trouble' \in 0..MaxTrouble
  BY <1>1 DEF DownloadInv, Library
<1>6. /\ safe \in 0..Size /\ safe <= Offset(rec) /\ Offset(rec) \in Nat
      /\ part[r][f] = None => safe = 0
      /\ part[r][f] # None => safe \in 0..Len(part[r][f])
      /\ part[r][f] # None /\ rec # None => safe = Lesser(rec.off, Len(part[r][f]))
      /\ Offset(rec) > 0 => rec # None /\ Offset(rec) = rec.off
  BY <1>1, <1>3, SafeOffset
<1>7. /\ r \in Revisions /\ f \in Files /\ rec \in Journals \cup {None}
      /\ part \in [Revisions -> [Files -> Contents \cup {None}]] /\ part[r][f] \in Contents \cup {None}
      /\ journal' \in [Revisions -> [Files -> Journals \cup {None}]] /\ tmp' \in [Revisions -> SUBSET Files]
      /\ journal'[r][f] = rec
  BY <1>1, <1>3, AtFile
<1> HIDE DEF rec, safe
<1>8. /\ part' \in [Revisions -> [Files -> Contents \cup {None}]]
      /\ \A c \in Revisions, e \in Files : c # r \/ e # f => part'[c][e] = part[c][e]
      /\ part[r][f] = None => part'[r][f] = None
      /\ part[r][f] # None => /\ part'[r][f] \in Contents /\ part'[r][f] # None /\ Len(part'[r][f]) = safe
                              /\ \A k \in 1..safe : part'[r][f][k] = part[r][f][k]
  <2>1. CASE part[r][f] = None
    BY <2>1, <1>2, <1>7
  <2>2. CASE part[r][f] # None
    <3> DEFINE cut == SubSeq(part[r][f], 1, safe)
    <3>1. cut \in Contents /\ Len(cut) = safe /\ \A k \in 1..safe : cut[k] = part[r][f][k]
      BY <2>2, <1>6, <1>7, Prefix
    <3>2. part' = [part EXCEPT ![r][f] = cut]
      BY <2>2, <1>2
    <3>3. cut # None
      BY <3>1, Constants
    <3> HIDE DEF cut
    <3>4. /\ part' \in [Revisions -> [Files -> Contents \cup {None}]] /\ part'[r][f] = cut
          /\ \A c \in Revisions, e \in Files : c # r \/ e # f => part'[c][e] = part[c][e]
      BY <1>7, <3>1, <3>2, Update2
    <3> QED BY <2>2, <3>1, <3>3, <3>4
  <2> QED BY <2>1, <2>2
<1>9. rec # None /\ part'[r][f] # None =>
          \A k \in 1..safe : part'[r][f][k] = rec.etag
  BY <1>6, <1>7, <1>8 DEF DownloadInv, JournalIsHonest, rec
<1>10. safe \in Nat
  BY <1>6, Constants
<1>11. Disk' /\ CopyIsVerified' /\ JournalIsHonest'
  <2>1. rec # None /\ part'[r][f] # None =>
          \A k \in 1..Lesser(rec.off, Len(part'[r][f])) : part'[r][f][k] = rec.etag
    <3> SUFFICES ASSUME rec # None, part'[r][f] # None, NEW k \in 1..Lesser(rec.off, Len(part'[r][f]))
                 PROVE  part'[r][f][k] = rec.etag
      OBVIOUS
    <3>1. Len(part'[r][f]) = safe /\ rec.off \in 0..Size
      BY <1>8, <1>7 DEF Journals
    <3>2. k \in 1..safe
      BY <3>1, <1>10, Constants DEF Lesser
    <3> QED BY <3>2, <1>9
  <2>2. \A c \in Revisions, e \in Files :
               c # r \/ e # f => part'[c][e] = part[c][e] /\ journal'[c][e] = journal[c][e]
    BY <1>1, <1>8
  <2> QED BY <1>1, <1>7, <1>8, <2>1, <2>2, OnePart
<1>12. /\ job' \in Jobs /\ job' # None /\ job'.req = job.req /\ job'.i = job.i /\ job'.unsynced = 0 /\ job'.off = safe
       /\ Offset(rec) <= safe => job'.pc = "ask"
       /\ Offset(rec) > safe => /\ job'.pc = "journal" /\ job'.next = "ask" /\ job'.pend # None
                                /\ job'.pend.off = safe /\ job'.pend.etag = rec.etag
  <2>1. CASE Offset(rec) > safe
    <3> DEFINE p == [rec EXCEPT !.off = safe]
    <3>1. rec # None /\ rec \in Journals
      BY <2>1, <1>6, <1>7, <1>10
    <3>2. p \in Journals /\ p.off = safe /\ p.etag = rec.etag
      BY <3>1, <1>6 DEF Journals
    <3>3. p # None
      BY <3>2, Constants
    <3>4. job' = [job EXCEPT !.off = safe, !.pc = "journal", !.next = "ask", !.pend = p]
      BY <2>1, <1>2
    <3> HIDE DEF p
    <3>5. /\ job'.req = job.req /\ job'.i = job.i /\ job'.unsynced = 0 /\ job'.off = safe
          /\ job'.pc = "journal" /\ job'.next = "ask" /\ job'.pend = p
      BY <3>4, <1>4 DEF Jobs
    <3>6. job' \in Jobs
      BY <3>2, <3>4, <1>4, <1>6 DEF Jobs, Steps
    <3> QED BY <2>1, <3>2, <3>3, <3>5, <3>6, <1>6, <1>10, Constants
  <2>2. CASE ~(Offset(rec) > safe)
    <3>1. job' = [job EXCEPT !.off = safe, !.pc = "ask"]
      BY <2>2, <1>2
    <3>2. /\ job'.req = job.req /\ job'.i = job.i /\ job'.unsynced = 0 /\ job'.off = safe
          /\ job'.pc = "ask"
      BY <3>1, <1>4 DEF Jobs
    <3>3. job' \in Jobs
      BY <3>1, <1>4, <1>6 DEF Jobs, Steps
    <3> QED BY <2>2, <3>2, <3>3, <1>6, <1>10, Constants
  <2> QED BY <2>1, <2>2
<1>13. r' = r /\ f' = f
  BY <1>12 DEF r, f
<1>14. job'.pc = "ask" \/ (job'.pc = "journal" /\ job'.next = "ask")
  BY <1>6, <1>10, <1>12
<1>15. JobShape'
  BY <1>3, <1>4, <1>12, <1>14, Shape
<1>16. Library' /\ HolesAreKnown' /\ PublishedSoFar'
  BY <1>1, <1>5, <1>14, NotPublishing DEF Publishing
<1>17. BodyIsOne'
  BY <1>14 DEF BodyIsOne, InBody
<1>18. PendIsHonest'
  <2> SUFFICES ASSUME job'.pc = "journal"
               PROVE  /\ job'.pend # None /\ job'.next = "ask" /\ job'.pend.off = job'.off
                      /\ part'[r][f] # None =>
                           \A k \in 1..Lesser(job'.pend.off, Len(part'[r][f])) :
                               part'[r][f][k] = job'.pend.etag
    BY <1>13, <1>14 DEF PendIsHonest
  <2>1. Offset(rec) > safe
    BY <1>6, <1>10, <1>12
  <2>2. /\ job'.pend # None /\ job'.next = "ask" /\ job'.pend.off = safe /\ job'.off = safe
        /\ job'.pend.etag = rec.etag
    BY <2>1, <1>12
  <2>3. rec # None
    BY <2>1, <1>6, <1>10
  <2>4. part'[r][f] # None => Lesser(safe, Len(part'[r][f])) = safe
    BY <1>8, <1>10 DEF Lesser
  <2> QED BY <2>2, <2>3, <2>4, <1>9
<1>19. OffsetIsTrue'
  <2>1. safe > 0 => part'[r][f] # None /\ Len(part'[r][f]) = safe
    BY <1>6, <1>8
  <2>2. job'.pc = "ask" /\ safe > 0 => rec # None /\ rec.off = safe
    BY <1>6, <1>10, <1>12
  <2> QED BY <1>7, <1>12, <1>13, <1>14, <2>1, <2>2 DEF OffsetIsTrue
<1> QED BY <1>11, <1>15, <1>16, <1>17, <1>18, <1>19 DEF DownloadInv

(* The answer to a request that resumes is for the revision of the journal. *)
LEMMA Answered ==
    ASSUME DownloadInv, At("ask"), NEW answer,
           answer = interpret_range_response(job.off, expected_etag_for_resume(job.off, journal[r][f]))
    PROVE  /\ answer \in {"full", "changed", "partial", "complete"}
           /\ answer = "partial" => job.off > 0 /\ journal[r][f] # None /\ journal[r][f].etag = serving
<1>1. job # None /\ job.pc = "ask"
  BY DEF At
<1>2. job.i <= Len(job.req.files)
  BY <1>1 DEF DownloadInv, JobShape, InFile
<1>3. job.off \in Nat /\ serving # None /\ serving \in Revisions
  BY <1>1, Requested, Constants DEF Jobs, DownloadInv, Library
<1>4. job.off > 0 => /\ journal[r][f] # None
                     /\ expected_etag_for_resume(job.off, journal[r][f]) = journal[r][f].etag
  BY <1>1, <1>3 DEF expected_etag_for_resume, DownloadInv, OffsetIsTrue
<1>5. journal[r][f] # None => journal[r][f].etag # None
  BY <1>1, <1>2, AtFile, Constants
<1>6. CASE job.off = 0
  BY <1>6 DEF interpret_range_response
<1>7. CASE job.off > 0
  BY <1>3, <1>4, <1>5, <1>7, Constants DEF interpret_range_response
<1> QED BY <1>3, <1>6, <1>7

LEMMA AskPreserves ==
    ASSUME DownloadInv, Ask
    PROVE  DownloadInv'
<1> DEFINE answer == interpret_range_response(job.off, expected_etag_for_resume(job.off, journal[r][f]))
<1>1. /\ At("ask") /\ job # None /\ job.pc = "ask"
      /\ UNCHANGED <<disk, tree, serving, shown, scar, trouble>>
  BY DEF Ask, At
<1>2. job' = CASE answer = "full" ->
                     [job EXCEPT !.pc = "discard", !.next = "body", !.body = serving, !.since = 0]
                [] answer = "changed" -> [job EXCEPT !.pc = "discard", !.next = "ask", !.off = 0]
                [] answer = "partial" ->
                     [job EXCEPT !.pc = "body", !.body = serving, !.since = 0]
                [] answer = "complete" -> [job EXCEPT !.pc = "check"]
  BY DEF Ask
<1>3. /\ answer \in {"full", "changed", "partial", "complete"}
      /\ answer = "partial" => job.off > 0 /\ journal[r][f] # None /\ journal[r][f].etag = serving
  BY <1>1, Answered
<1> HIDE DEF answer
<1>4. job.i <= Len(job.req.files)
  BY <1>1 DEF DownloadInv, JobShape, InFile
<1>5. job \in Jobs /\ Len(job.req.files) \in Nat /\ job.i \in Nat /\ job.unsynced = 0
  BY <1>1, Requested, Flushed
<1>6. serving' \in Revisions /\ trouble' \in 0..MaxTrouble /\ serving \in Revisions
  BY <1>1 DEF DownloadInv, Library
<1>7. part' = part /\ journal' = journal
  BY <1>1 DEF disk
<1>8. Disk' /\ CopyIsVerified' /\ JournalIsHonest'
  BY <1>1, DiskKept
<1>9. /\ job' \in Jobs /\ job' # None /\ job'.req = job.req /\ job'.i = job.i /\ job'.unsynced = 0
      /\ answer = "full" => job'.pc = "discard" /\ job'.next = "body" /\ job'.body = serving
      /\ answer = "changed" => job'.pc = "discard" /\ job'.next = "ask" /\ job'.off = 0
      /\ answer = "partial" => job'.pc = "body" /\ job'.body = serving
      /\ answer = "complete" => job'.pc = "check"
  <2>1. CASE answer = "full"
    <3>1. job' = [job EXCEPT !.pc = "discard", !.next = "body", !.body = serving, !.since = 0]
      BY <2>1, <1>2
    <3>2. job' \in Jobs
      BY <3>1, <1>5, <1>6 DEF Jobs, Steps
    <3>3. /\ job'.req = job.req /\ job'.i = job.i /\ job'.unsynced = 0
          /\ job'.pc = "discard" /\ job'.next = "body" /\ job'.body = serving
      BY <3>1, <1>5 DEF Jobs
    <3> QED BY <2>1, <3>2, <3>3, Constants
  <2>2. CASE answer = "changed"
    <3>1. job' = [job EXCEPT !.pc = "discard", !.next = "ask", !.off = 0]
      BY <2>2, <1>2
    <3>2. job' \in Jobs
      <4>1. 0 \in 0..Size
        BY Constants
      <4> QED BY <3>1, <4>1, <1>5 DEF Jobs, Steps
    <3>3. /\ job'.req = job.req /\ job'.i = job.i /\ job'.unsynced = 0
          /\ job'.pc = "discard" /\ job'.next = "ask" /\ job'.off = 0
      BY <3>1, <1>5 DEF Jobs
    <3> QED BY <2>2, <3>2, <3>3, Constants
  <2>3. CASE answer = "partial"
    <3>1. job' = [job EXCEPT !.pc = "body", !.body = serving, !.since = 0]
      BY <2>3, <1>2
    <3>2. job' \in Jobs
      BY <3>1, <1>5, <1>6 DEF Jobs, Steps
    <3>3. /\ job'.req = job.req /\ job'.i = job.i /\ job'.unsynced = 0
          /\ job'.pc = "body" /\ job'.body = serving
      BY <3>1, <1>5 DEF Jobs
    <3> QED BY <2>3, <3>2, <3>3, Constants
  <2>4. CASE answer = "complete"
    <3>1. job' = [job EXCEPT !.pc = "check"]
      BY <2>4, <1>2
    <3>2. job' \in Jobs
      BY <3>1, <1>5 DEF Jobs, Steps
    <3>3. job'.req = job.req /\ job'.i = job.i /\ job'.unsynced = 0 /\ job'.pc = "check"
      BY <3>1, <1>5 DEF Jobs
    <3> QED BY <2>4, <3>2, <3>3, Constants
  <2> QED BY <1>3, <2>1, <2>2, <2>3, <2>4
<1>10. r' = r /\ f' = f
  BY <1>9 DEF r, f
<1>11. job'.pc \in {"discard", "body", "check"}
  BY <1>3, <1>9
<1>12. JobShape'
  BY <1>4, <1>5, <1>9, <1>11, Shape
<1>13. Library' /\ HolesAreKnown' /\ PublishedSoFar'
  BY <1>1, <1>6, <1>11, NotPublishing DEF Publishing
<1>14. BodyIsOne'
  <2> SUFFICES ASSUME job'.pc = "body"
               PROVE  /\ job'.body \in Revisions /\ part[r][f] # None /\ job'.unsynced <= Len(part[r][f])
                      /\ \A k \in 1..Len(part[r][f]) : part[r][f][k] = job'.body
                      /\ journal[r][f] # None => journal[r][f].etag = job'.body
    BY <1>7, <1>10, <1>11 DEF BodyIsOne, InBody
  <2>1. answer = "partial" /\ job'.body = serving
    BY <1>3, <1>9
  <2>2. job.off > 0 /\ journal[r][f] # None /\ journal[r][f].etag = serving
    BY <1>3, <2>1
  <2>3. part[r][f] # None /\ Len(part[r][f]) = job.off /\ journal[r][f].off = job.off
    BY <1>1, <2>2 DEF DownloadInv, OffsetIsTrue
  <2>4. job.off \in Nat /\ r \in Revisions /\ f \in Files
    BY <1>1, <1>4, <1>5, AtFile DEF Jobs
  <2>5. \A k \in 1..Lesser(job.off, job.off) : part[r][f][k] = serving
    BY <2>2, <2>3, <2>4 DEF DownloadInv, JournalIsHonest
  <2>6. Lesser(job.off, job.off) = job.off
    BY DEF Lesser
  <2> QED BY <1>6, <1>9, <2>1, <2>2, <2>3, <2>4, <2>5, <2>6
<1>15. PendIsHonest'
  BY <1>11 DEF PendIsHonest
<1>16. OffsetIsTrue'
  BY <1>3, <1>6, <1>9, <1>11 DEF OffsetIsTrue
<1> QED BY <1>8, <1>12, <1>13, <1>14, <1>15, <1>16 DEF DownloadInv

LEMMA DiscardPartPreserves ==
    ASSUME DownloadInv, DiscardPart
    PROVE  DownloadInv'
<1>1. /\ job # None /\ job.pc = "discard" /\ job' = [job EXCEPT !.pc = "forget"]
      /\ part' = [part EXCEPT ![r][f] = None] /\ journal' = journal
      /\ UNCHANGED <<tmp, copy, seal, chosen, tree, serving, shown, scar, trouble>>
  BY DEF DiscardPart, At, Goto
<1>2. job.i <= Len(job.req.files)
  BY <1>1 DEF DownloadInv, JobShape, InFile
<1>3. job \in Jobs /\ Len(job.req.files) \in Nat /\ job.i \in Nat /\ job.unsynced = 0
  BY <1>1, Requested, Flushed
<1>4. serving' \in Revisions /\ trouble' \in 0..MaxTrouble
  BY <1>1 DEF DownloadInv, Library
<1>5. Disk' /\ CopyIsVerified' /\ JournalIsHonest'
  BY <1>1, <1>2, PartGone
<1>6. "forget" \in Steps
  BY DEF Steps
<1>7. /\ job' \in Jobs /\ job'.pc = "forget" /\ job'.req = job.req /\ job'.i = job.i /\ job'.unsynced = 0
      /\ job'.next = job.next /\ job'.off = job.off /\ job'.body = job.body
  BY <1>1, <1>3, <1>6, Moved
<1>8. JobShape'
  BY <1>2, <1>3, <1>7, Shape
<1>9. Library' /\ HolesAreKnown' /\ PublishedSoFar'
  BY <1>1, <1>4, <1>7, NotPublishing DEF Publishing
<1>10. BodyIsOne' /\ PendIsHonest'
  BY <1>7 DEF BodyIsOne, InBody, PendIsHonest
<1>11. OffsetIsTrue'
  BY <1>1, <1>7 DEF DownloadInv, OffsetIsTrue
<1> QED BY <1>5, <1>8, <1>9, <1>10, <1>11 DEF DownloadInv

LEMMA DiscardJournalPreserves ==
    ASSUME DownloadInv, DiscardJournal
    PROVE  DownloadInv'
<1>1. /\ job # None /\ job.pc = "forget" /\ job' = [job EXCEPT !.pc = job.next]
      /\ journal' = [journal EXCEPT ![r][f] = None]
      /\ part' = IF job.next = "body" THEN [part EXCEPT ![r][f] = <<>>] ELSE part
      /\ UNCHANGED <<tmp, copy, seal, chosen, tree, serving, shown, scar, trouble>>
  BY DEF DiscardJournal, At, Goto
<1>2. job.i <= Len(job.req.files)
  BY <1>1 DEF DownloadInv, JobShape, InFile
<1>3. job \in Jobs /\ Len(job.req.files) \in Nat /\ job.i \in Nat /\ job.unsynced = 0
  BY <1>1, Requested, Flushed
<1>4. serving' \in Revisions /\ trouble' \in 0..MaxTrouble
  BY <1>1 DEF DownloadInv, Library
<1>5. /\ job.next \in {"ask", "body", "failed"} /\ (job.next = "ask" => job.off = 0)
      /\ (job.next = "body" => job.body \in Revisions)
  BY <1>1 DEF DownloadInv, OffsetIsTrue
<1>6. <<>> \in Contents /\ Len(<<>>) = 0 /\ <<>> # None
  <2>1. <<>> \in Seq(Revisions) /\ Len(<<>>) = 0
    OBVIOUS
  <2>2. Len(<<>>) <= Size
    BY <2>1, Constants
  <2> QED BY <2>1, <2>2, SeqIsContent, Constants
<1>7. /\ journal' \in [Revisions -> [Files -> Journals \cup {None}]] /\ journal'[r][f] = None
      /\ \A c \in Revisions, e \in Files : c # r \/ e # f => journal'[c][e] = journal[c][e]
  BY <1>1, <1>2, AtFile, Update2
<1>8. /\ part' \in [Revisions -> [Files -> Contents \cup {None}]]
      /\ job.next = "body" => part'[r][f] = <<>>
      /\ \A c \in Revisions, e \in Files : c # r \/ e # f => part'[c][e] = part[c][e]
  <2>1. CASE job.next = "body"
    BY <2>1, <1>1, <1>2, <1>6, AtFile, Update2
  <2>2. CASE job.next # "body"
    BY <2>2, <1>1, <1>2, AtFile
  <2> QED BY <2>1, <2>2
<1>9. Disk' /\ CopyIsVerified' /\ JournalIsHonest'
  <2>1. tmp' \in [Revisions -> SUBSET Files] /\ r \in Revisions /\ f \in Files
    BY <1>1, <1>2, AtFile
  <2> QED BY <1>1, <1>7, <1>8, <2>1, OnePart
<1>10. job.next \in Steps
  BY <1>5 DEF Steps
<1>11. /\ job' \in Jobs /\ job'.pc = job.next /\ job'.req = job.req /\ job'.i = job.i /\ job'.unsynced = 0
       /\ job'.next = job.next /\ job'.off = job.off /\ job'.body = job.body /\ r' = r /\ f' = f
  BY <1>1, <1>3, <1>10, Moved
<1>12. JobShape'
  BY <1>2, <1>3, <1>5, <1>11, Shape
<1>13. Library' /\ HolesAreKnown' /\ PublishedSoFar'
  BY <1>1, <1>4, <1>5, <1>11, NotPublishing DEF Publishing
<1>14. BodyIsOne'
  <2>1. job.next = "body" => /\ job'.unsynced <= Len(part'[r][f]) /\ part'[r][f] # None
                             /\ \A k \in 1..Len(part'[r][f]) : part'[r][f][k] = job'.body
    BY <1>6, <1>8, <1>11
  <2> QED BY <1>5, <1>7, <1>11, <2>1 DEF BodyIsOne, InBody
<1>15. PendIsHonest'
  BY <1>5, <1>11 DEF PendIsHonest
<1>16. OffsetIsTrue'
  BY <1>5, <1>11 DEF OffsetIsTrue
<1> QED BY <1>9, <1>12, <1>13, <1>14, <1>15, <1>16 DEF DownloadInv

LEMMA ReceiveBlockPreserves ==
    ASSUME DownloadInv, ReceiveBlock
    PROVE  DownloadInv'
<1> DEFINE now == part[r][f]
           more == Append(now, job.body)
<1>1. /\ job # None /\ job.pc = "body" /\ Len(now) < Size
      /\ part' = [part EXCEPT ![r][f] = more]
      /\ job' = IF job.since + 1 >= Interval
                THEN [job EXCEPT !.since = 0, !.unsynced = 0, !.pc = "journal", !.next = "body",
                                 !.pend = [off |-> Len(now) + 1, etag |-> job.body]]
                ELSE [job EXCEPT !.since = @ + 1, !.unsynced = @ + 1]
      /\ UNCHANGED <<journal, tmp, copy, seal, chosen, tree, serving, shown, scar, trouble>>
  BY DEF ReceiveBlock, At, MoreToRead
<1>2. job.i <= Len(job.req.files)
  BY <1>1 DEF DownloadInv, JobShape, InFile
<1>3. job \in Jobs /\ Len(job.req.files) \in Nat /\ job.i \in Nat /\ job.unsynced \in Nat /\ job.since \in Nat
  BY <1>1, Requested DEF Jobs
<1>4. serving' \in Revisions /\ trouble' \in 0..MaxTrouble
  BY <1>1 DEF DownloadInv, Library
<1>5. /\ job.body \in Revisions /\ now # None /\ job.unsynced <= Len(now)
      /\ \A k \in 1..Len(now) : now[k] = job.body
      /\ journal[r][f] # None => journal[r][f].etag = job.body
  BY <1>1 DEF DownloadInv, BodyIsOne, InBody
<1>6. /\ r \in Revisions /\ f \in Files /\ now \in Contents
      /\ part \in [Revisions -> [Files -> Contents \cup {None}]]
      /\ journal' \in [Revisions -> [Files -> Journals \cup {None}]] /\ tmp' \in [Revisions -> SUBSET Files]
      /\ journal' = journal /\ Len(now) \in Nat
  BY <1>1, <1>2, <1>5, AtFile, ContentIsSeq
<1> HIDE DEF now
<1>7. /\ more \in Contents /\ Len(more) = Len(now) + 1 /\ \A k \in 1..Len(now) : more[k] = now[k]
      /\ more[Len(now) + 1] = job.body
  BY <1>1, <1>5, <1>6, OneMore
<1> HIDE DEF more
<1>8. /\ part' \in [Revisions -> [Files -> Contents \cup {None}]] /\ part'[r][f] = more
      /\ \A c \in Revisions, e \in Files : c # r \/ e # f => part'[c][e] = part[c][e]
  BY <1>1, <1>6, <1>7, Update2
<1>9. more # None /\ \A k \in 1..Len(more) : more[k] = job.body
  BY <1>5, <1>6, <1>7, Constants
<1>10. Disk' /\ CopyIsVerified' /\ JournalIsHonest'
  <2>1. ASSUME journal[r][f] # None, NEW k \in 1..Lesser(journal[r][f].off, Len(more))
        PROVE  more[k] = journal[r][f].etag
    <3>1. journal[r][f].off \in Nat
      BY <2>1, <1>1, <1>2, AtFile, Constants
    <3>2. k \in 1..Len(more)
      BY <3>1, <1>6, <1>7 DEF Lesser
    <3> QED BY <2>1, <3>2, <1>5, <1>9
  <2>2. \A c \in Revisions, e \in Files :
               c # r \/ e # f => part'[c][e] = part[c][e] /\ journal'[c][e] = journal[c][e]
    BY <1>6, <1>8
  <2> QED BY <1>1, <1>6, <1>8, <2>1, <2>2, OnePart
<1>11. /\ job' \in Jobs /\ job' # None /\ job'.req = job.req /\ job'.i = job.i /\ job'.body = job.body
       /\ job'.unsynced \in Nat /\ job'.unsynced <= Len(more)
       /\ \/ job'.pc = "body"
          \/ /\ job'.pc = "journal" /\ job'.next = "body" /\ job'.unsynced = 0 /\ job'.pend # None
             /\ job'.pend.etag = job.body
  <2>1. CASE job.since + 1 >= Interval
    <3> DEFINE p == [off |-> Len(now) + 1, etag |-> job.body]
    <3>1. Len(now) + 1 \in 0..Size
      BY <1>1, <1>6, Constants
    <3>2. p \in Journals /\ p.etag = job.body
      BY <3>1, <1>5 DEF Journals
    <3>3. p # None
      BY <3>2, Constants
    <3>4. job' = [job EXCEPT !.since = 0, !.unsynced = 0, !.pc = "journal", !.next = "body", !.pend = p]
      BY <2>1, <1>1
    <3> HIDE DEF p
    <3>5. /\ job'.req = job.req /\ job'.i = job.i /\ job'.body = job.body /\ job'.unsynced = 0
          /\ job'.pc = "journal" /\ job'.next = "body" /\ job'.pend = p
      BY <3>4, <1>3 DEF Jobs
    <3>6. job' \in Jobs
      BY <3>2, <3>4, <1>3 DEF Jobs, Steps
    <3> QED BY <3>2, <3>3, <3>5, <3>6, <1>6, <1>7, Constants
  <2>2. CASE ~(job.since + 1 >= Interval)
    <3>1. job' = [job EXCEPT !.since = @ + 1, !.unsynced = @ + 1]
      BY <2>2, <1>1
    <3>2. /\ job'.req = job.req /\ job'.i = job.i /\ job'.body = job.body /\ job'.pc = "body"
          /\ job'.unsynced = job.unsynced + 1
      BY <3>1, <1>1, <1>3 DEF Jobs
    <3>3. job' \in Jobs
      <4>1. job.since + 1 \in Nat /\ job.unsynced + 1 \in Nat
        BY <1>3
      <4>2. job' = [job EXCEPT !.since = job.since + 1, !.unsynced = job.unsynced + 1]
        BY <3>1
      <4> QED BY <4>1, <4>2, <1>3 DEF Jobs
    <3> QED BY <3>2, <3>3, <1>3, <1>5, <1>6, <1>7, Constants
  <2> QED BY <2>1, <2>2
<1>12. r' = r /\ f' = f
  BY <1>11 DEF r, f
<1>13. JobShape'
  BY <1>2, <1>3, <1>11, Shape
<1>14. Library' /\ HolesAreKnown' /\ PublishedSoFar'
  BY <1>1, <1>4, <1>11, NotPublishing DEF Publishing
<1>15. BodyIsOne'
  BY <1>5, <1>6, <1>8, <1>9, <1>11, <1>12 DEF BodyIsOne
<1>16. PendIsHonest'
  <2> SUFFICES ASSUME job'.pc = "journal"
               PROVE  /\ job'.pend # None /\ job'.next = "body" /\ job'.pend.etag = job'.body
                      /\ \A k \in 1..Lesser(job'.pend.off, Len(more)) : more[k] = job'.pend.etag
    BY <1>8, <1>11, <1>12 DEF PendIsHonest
  <2>1. job'.pend # None /\ job'.next = "body" /\ job'.pend.etag = job.body /\ job'.body = job.body
    BY <1>11
  <2>2. job'.pend \in Journals
    BY <2>1, <1>11 DEF Jobs
  <2>3. job'.pend.off \in Nat
    BY <2>2, Constants DEF Journals
  <2>4. \A k \in 1..Lesser(job'.pend.off, Len(more)) : k \in 1..Len(more)
    BY <2>3, <1>6, <1>7 DEF Lesser
  <2> QED BY <2>1, <2>4, <1>9
<1>17. OffsetIsTrue'
  BY <1>11 DEF OffsetIsTrue
<1> QED BY <1>10, <1>13, <1>14, <1>15, <1>16, <1>17 DEF DownloadInv

LEMMA EndOfBodyPreserves ==
    ASSUME DownloadInv, EndOfBody
    PROVE  DownloadInv'
<1> DEFINE p == [off |-> Size, etag |-> job.body]
<1>1. /\ job # None /\ job.pc = "body" /\ Len(part[r][f]) = Size
      /\ job' = [job EXCEPT !.since = 0, !.unsynced = 0, !.pc = "journal", !.next = "check", !.pend = p]
      /\ UNCHANGED <<disk, tree, serving, shown, scar, trouble>>
  BY DEF EndOfBody, At
<1>2. job.i <= Len(job.req.files)
  BY <1>1 DEF DownloadInv, JobShape, InFile
<1>3. job \in Jobs /\ Len(job.req.files) \in Nat /\ job.i \in Nat
  BY <1>1, Requested
<1>4. serving' \in Revisions /\ trouble' \in 0..MaxTrouble
  BY <1>1 DEF DownloadInv, Library
<1>5. /\ job.body \in Revisions /\ part[r][f] # None
      /\ \A k \in 1..Len(part[r][f]) : part[r][f][k] = job.body
      /\ journal[r][f] # None => journal[r][f].etag = job.body
  BY <1>1 DEF DownloadInv, BodyIsOne, InBody
<1>6. part' = part /\ journal' = journal
  BY <1>1 DEF disk
<1>7. Disk' /\ CopyIsVerified' /\ JournalIsHonest'
  BY <1>1, DiskKept
<1>8. p \in Journals /\ p.off = Size /\ p.etag = job.body
  <2>1. Size \in 0..Size
    BY Constants
  <2> QED BY <2>1, <1>5 DEF Journals
<1>9. p # None
  BY <1>8, Constants
<1> HIDE DEF p
<1>10. /\ job'.req = job.req /\ job'.i = job.i /\ job'.body = job.body /\ job'.unsynced = 0
       /\ job'.pc = "journal" /\ job'.next = "check" /\ job'.pend = p
  BY <1>1, <1>3 DEF Jobs
<1>11. job' \in Jobs
  BY <1>1, <1>3, <1>8 DEF Jobs, Steps
<1>12. r' = r /\ f' = f
  BY <1>10 DEF r, f
<1>13. JobShape'
  BY <1>2, <1>3, <1>10, <1>11, Shape
<1>14. Library' /\ HolesAreKnown' /\ PublishedSoFar'
  BY <1>1, <1>4, <1>10, NotPublishing DEF Publishing
<1>15. BodyIsOne'
  BY <1>1, <1>5, <1>6, <1>10, <1>12, Constants DEF BodyIsOne
<1>16. PendIsHonest'
  <2>1. Lesser(Size, Size) = Size
    BY DEF Lesser
  <2> QED BY <1>1, <1>5, <1>6, <1>8, <1>9, <1>10, <1>12, <2>1 DEF PendIsHonest
<1>17. OffsetIsTrue'
  BY <1>10 DEF OffsetIsTrue
<1> QED BY <1>7, <1>13, <1>14, <1>15, <1>16, <1>17 DEF DownloadInv

LEMMA WriteJournalPreserves ==
    ASSUME DownloadInv, WriteJournal
    PROVE  DownloadInv'
<1>1. /\ job # None /\ job.pc = "journal"
      /\ UNCHANGED <<part, journal, copy, seal, chosen, tree, serving, shown, scar, trouble>>
      /\ \/ job' = [job EXCEPT !.pc = "failed"] /\ tmp' = tmp
         \/ job' = [job EXCEPT !.pc = "rename"] /\ tmp' = [tmp EXCEPT ![r] = @ \cup {f}]
  BY DEF WriteJournal, At, Goto
<1>2. job.i <= Len(job.req.files)
  BY <1>1 DEF DownloadInv, JobShape, InFile
<1>3. job \in Jobs /\ Len(job.req.files) \in Nat /\ job.i \in Nat /\ job.unsynced = 0
  BY <1>1, Requested, Flushed
<1>4. serving' \in Revisions /\ trouble' \in 0..MaxTrouble
  BY <1>1 DEF DownloadInv, Library
<1>5. tmp' \in [Revisions -> SUBSET Files]
  BY <1>1, <1>2, AtFile
<1>6. Disk' /\ CopyIsVerified' /\ JournalIsHonest'
  <2>1. Disk'
    BY <1>1, <1>5 DEF DownloadInv, Disk
  <2>2. CopyIsVerified'
    BY <1>1 DEF DownloadInv, CopyIsVerified
  <2>3. JournalIsHonest'
    BY <1>1 DEF DownloadInv, JournalIsHonest
  <2> QED BY <2>1, <2>2, <2>3
<1>7. "failed" \in Steps /\ "rename" \in Steps
  BY DEF Steps
<1>8. /\ job' \in Jobs /\ job'.pc \in {"failed", "rename"} /\ job'.req = job.req /\ job'.i = job.i
      /\ job'.unsynced = 0 /\ job'.next = job.next /\ job'.off = job.off /\ job'.body = job.body
      /\ job'.pend = job.pend /\ r' = r /\ f' = f
  <2>1. CASE job' = [job EXCEPT !.pc = "failed"]
    BY <2>1, <1>3, <1>7, Moved
  <2>2. CASE job' = [job EXCEPT !.pc = "rename"]
    BY <2>2, <1>3, <1>7, Moved
  <2> QED BY <1>1, <2>1, <2>2
<1>9. JobShape'
  BY <1>2, <1>3, <1>8, Shape
<1>10. Library' /\ HolesAreKnown' /\ PublishedSoFar'
  BY <1>1, <1>4, <1>8, NotPublishing DEF Publishing
<1>11. BodyIsOne'
  BY <1>1, <1>3, <1>8 DEF DownloadInv, BodyIsOne, InBody
<1>12. PendIsHonest'
  BY <1>1, <1>8 DEF DownloadInv, PendIsHonest
<1>13. OffsetIsTrue'
  BY <1>1, <1>8 DEF DownloadInv, OffsetIsTrue
<1> QED BY <1>6, <1>9, <1>10, <1>11, <1>12, <1>13 DEF DownloadInv

LEMMA RenameJournalPreserves ==
    ASSUME DownloadInv, RenameJournal
    PROVE  DownloadInv'
<1>1. /\ job # None /\ job.pc = "rename" /\ job' = [job EXCEPT !.pc = job.next, !.pend = None]
      /\ tmp' = [tmp EXCEPT ![r] = @ \ {f}] /\ journal' = [journal EXCEPT ![r][f] = job.pend]
      /\ UNCHANGED <<part, copy, seal, chosen, tree, serving, shown, scar, trouble>>
  BY DEF RenameJournal, At
<1>2. job.i <= Len(job.req.files)
  BY <1>1 DEF DownloadInv, JobShape, InFile
<1>3. job \in Jobs /\ Len(job.req.files) \in Nat /\ job.i \in Nat /\ job.unsynced = 0
  BY <1>1, Requested, Flushed
<1>4. serving' \in Revisions /\ trouble' \in 0..MaxTrouble
  BY <1>1 DEF DownloadInv, Library
<1>5. /\ job.pend # None /\ job.next \in {"ask", "body", "check"}
      /\ part[r][f] # None =>
           \A k \in 1..Lesser(job.pend.off, Len(part[r][f])) : part[r][f][k] = job.pend.etag
      /\ job.next = "ask" => job.pend.off = job.off
      /\ job.next \in {"body", "check"} => job.pend.etag = job.body
  BY <1>1 DEF DownloadInv, PendIsHonest
<1>6. job.pend \in Journals
  BY <1>3, <1>5 DEF Jobs
<1>7. /\ journal' \in [Revisions -> [Files -> Journals \cup {None}]] /\ journal'[r][f] = job.pend
      /\ \A c \in Revisions, e \in Files : c # r \/ e # f => journal'[c][e] = journal[c][e]
  BY <1>1, <1>2, <1>6, AtFile, Update2
<1>8. /\ tmp' \in [Revisions -> SUBSET Files] /\ r \in Revisions /\ f \in Files
      /\ part' = part /\ part \in [Revisions -> [Files -> Contents \cup {None}]]
  BY <1>1, <1>2, AtFile
<1>9. Disk' /\ CopyIsVerified' /\ JournalIsHonest'
  BY <1>1, <1>5, <1>7, <1>8, OnePart
<1>10. /\ job' \in Jobs /\ job' # None /\ job'.pc = job.next /\ job'.req = job.req /\ job'.i = job.i
       /\ job'.unsynced = 0 /\ job'.next = job.next /\ job'.off = job.off /\ job'.body = job.body
  <2>1. job.next \in Steps
    BY <1>5 DEF Steps
  <2>2. job' \in Jobs
    BY <1>1, <1>3, <2>1 DEF Jobs
  <2>3. /\ job'.pc = job.next /\ job'.req = job.req /\ job'.i = job.i
        /\ job'.unsynced = 0 /\ job'.next = job.next /\ job'.off = job.off /\ job'.body = job.body
    BY <1>1, <1>3 DEF Jobs
  <2> QED BY <2>2, <2>3, Constants
<1>11. r' = r /\ f' = f
  BY <1>10 DEF r, f
<1>12. JobShape'
  BY <1>2, <1>3, <1>5, <1>10, Shape
<1>13. Library' /\ HolesAreKnown' /\ PublishedSoFar'
  BY <1>1, <1>4, <1>5, <1>10, NotPublishing DEF Publishing
<1>14. BodyIsOne'
  <2> SUFFICES ASSUME job.next = "body"
               PROVE  /\ job.body \in Revisions /\ part[r][f] # None /\ job.unsynced <= Len(part[r][f])
                      /\ \A k \in 1..Len(part[r][f]) : part[r][f][k] = job.body
                      /\ job.pend.etag = job.body
    BY <1>3, <1>5, <1>7, <1>8, <1>10, <1>11 DEF BodyIsOne, InBody
  <2>1. InBody
    BY <1>1 DEF InBody
  <2> QED BY <1>5, <2>1 DEF DownloadInv, BodyIsOne
<1>15. PendIsHonest'
  BY <1>5, <1>10 DEF PendIsHonest
<1>16. OffsetIsTrue'
  <2>1. job.next = "ask" /\ job.off > 0 => part[r][f] # None /\ Len(part[r][f]) = job.off
    BY <1>1 DEF DownloadInv, OffsetIsTrue
  <2> QED BY <1>5, <1>7, <1>8, <1>10, <1>11, <2>1 DEF OffsetIsTrue
<1> QED BY <1>9, <1>12, <1>13, <1>14, <1>15, <1>16 DEF DownloadInv

LEMMA CheckPartPreserves ==
    ASSUME DownloadInv, CheckPart
    PROVE  DownloadInv'
<1>1. /\ job # None /\ job.pc = "check"
      /\ UNCHANGED <<journal, tmp, seal, chosen, tree, serving, shown, scar, trouble>>
  BY DEF CheckPart, At
<1>2. job.i <= Len(job.req.files)
  BY <1>1 DEF DownloadInv, JobShape, InFile
<1>3. job \in Jobs /\ Len(job.req.files) \in Nat /\ job.i \in Nat /\ job.unsynced = 0
  BY <1>1, Requested, Flushed
<1>4. serving' \in Revisions /\ trouble' \in 0..MaxTrouble
  BY <1>1 DEF DownloadInv, Library
<1>5. CASE Verified(part[r][f], r)
  <2>1. /\ copy' = [copy EXCEPT ![r][f] = part[r][f]] /\ part' = [part EXCEPT ![r][f] = None]
        /\ job' = [job EXCEPT !.pc = "clean"]
    BY <1>5 DEF CheckPart, Goto
  <2>2. part[r][f] = Whole(r) /\ r \in Revisions /\ f \in Files /\ Whole(r) \in Contents
    BY <1>1, <1>2, <1>5, AtFile, WholeIsContent DEF Verified, sha256_of_file
  <2>3. /\ copy' \in [Revisions -> [Files -> Contents \cup {None}]] /\ copy'[r][f] = Whole(r)
        /\ \A c \in Revisions, e \in Files : c # r \/ e # f => copy'[c][e] = copy[c][e]
    BY <1>1, <1>2, <2>1, <2>2, AtFile, Update2
  <2>4. /\ part' \in [Revisions -> [Files -> Contents \cup {None}]] /\ part'[r][f] = None
        /\ \A c \in Revisions, e \in Files : c # r \/ e # f => part'[c][e] = part[c][e]
    BY <1>1, <1>2, <2>1, AtFile, Update2
  <2>5. JournalIsHonest'
    <3>1. /\ journal' \in [Revisions -> [Files -> Journals \cup {None}]] /\ tmp' \in [Revisions -> SUBSET Files]
          /\ journal' = journal
      BY <1>1, <1>2, AtFile
    <3> QED BY <2>2, <2>4, <3>1, OnePart
  <2>6. Disk'
    BY <1>1, <2>3, <2>4 DEF DownloadInv, Disk
  <2>7. CopyIsVerified'
    <3>1. CopyIsVerified /\ chosen \in [Revisions -> (SUBSET Files) \cup {None}]
      BY DEF DownloadInv, Disk
    <3> SUFFICES ASSUME NEW v \in Revisions
                 PROVE  /\ \A g \in Files : copy'[v][g] \in {None, Whole(v)}
                        /\ seal[v] => \A g \in Files : copy'[v][g] = Whole(v)
                        /\ chosen[v] # None => \A g \in chosen[v] : copy'[v][g] = Whole(v)
      BY <1>1 DEF CopyIsVerified, Whole
    <3>2. \A g \in Files : copy[v][g] = Whole(v) => copy'[v][g] = Whole(v)
      BY <2>3
    <3>3. \A g \in Files : copy'[v][g] \in {None, Whole(v)}
      BY <2>3, <3>1 DEF CopyIsVerified
    <3> QED BY <3>1, <3>2, <3>3 DEF CopyIsVerified
  <2>8. "clean" \in Steps
    BY DEF Steps
  <2>9. job' \in Jobs /\ job'.pc = "clean" /\ job'.req = job.req /\ job'.i = job.i /\ job'.unsynced = 0
    BY <1>3, <2>1, <2>8, Moved
  <2>10. JobShape'
    BY <1>2, <1>3, <2>9, Shape
  <2>11. Library' /\ HolesAreKnown' /\ PublishedSoFar'
    BY <1>1, <1>4, <2>9, NotPublishing DEF Publishing
  <2>12. BodyIsOne' /\ PendIsHonest' /\ OffsetIsTrue'
    BY <2>9, NotLoading DEF Loading
  <2> QED BY <2>5, <2>6, <2>7, <2>10, <2>11, <2>12 DEF DownloadInv
<1>6. CASE ~Verified(part[r][f], r)
  <2>1. /\ copy' = copy /\ part' = part /\ job' = [job EXCEPT !.pc = "discard", !.next = "failed"]
    BY <1>6 DEF CheckPart
  <2>2. Disk' /\ CopyIsVerified' /\ JournalIsHonest'
    BY <1>1, <2>1, DiskKept DEF disk
  <2>3. job' \in Jobs
    BY <1>3, <2>1 DEF Jobs, Steps
  <2>4. job'.pc = "discard" /\ job'.next = "failed" /\ job'.req = job.req /\ job'.i = job.i /\ job'.unsynced = 0
    BY <1>3, <2>1 DEF Jobs
  <2>5. JobShape'
    BY <1>2, <1>3, <2>3, <2>4, Shape
  <2>6. Library' /\ HolesAreKnown' /\ PublishedSoFar'
    BY <1>1, <1>4, <2>4, NotPublishing DEF Publishing
  <2>7. BodyIsOne' /\ PendIsHonest' /\ OffsetIsTrue'
    BY <2>4 DEF BodyIsOne, InBody, PendIsHonest, OffsetIsTrue
  <2> QED BY <2>2, <2>5, <2>6, <2>7 DEF DownloadInv
<1> QED BY <1>5, <1>6

LEMMA CleanJournalPreserves ==
    ASSUME DownloadInv, CleanJournal
    PROVE  DownloadInv'
<1>1. /\ job # None /\ job.pc = "clean" /\ journal' = [journal EXCEPT ![r][f] = None]
      /\ job' = [job EXCEPT !.pc = "file", !.i = @ + 1, !.body = None, !.off = 0]
      /\ UNCHANGED <<part, tmp, copy, seal, chosen, tree, serving, shown, scar, trouble>>
  BY DEF CleanJournal, At
<1>2. job.i <= Len(job.req.files)
  BY <1>1 DEF DownloadInv, JobShape, InFile
<1>3. job \in Jobs /\ Len(job.req.files) \in Nat /\ job.i \in Nat /\ job.unsynced = 0
  BY <1>1, Requested, Flushed
<1>4. serving' \in Revisions /\ trouble' \in 0..MaxTrouble
  BY <1>1 DEF DownloadInv, Library
<1>5. Disk' /\ CopyIsVerified' /\ JournalIsHonest'
  BY <1>1, <1>2, JournalGone
<1>6. job' \in Jobs
  <2>1. job.i + 1 \in Nat \ {0} /\ 0 \in 0..Size
    BY <1>3, Constants
  <2>2. job' = [job EXCEPT !.pc = "file", !.i = job.i + 1, !.body = None, !.off = 0]
    BY <1>1
  <2> QED BY <1>3, <2>1, <2>2 DEF Jobs, Steps
<1>7. job'.pc = "file" /\ job'.req = job.req /\ job'.i = job.i + 1 /\ job'.unsynced = 0
  BY <1>1, <1>3 DEF Jobs
<1>8. JobShape'
  BY <1>2, <1>3, <1>6, <1>7, Shape DEF InFile
<1>9. Library' /\ HolesAreKnown' /\ PublishedSoFar'
  BY <1>1, <1>4, <1>7, NotPublishing DEF Publishing
<1>10. BodyIsOne' /\ PendIsHonest' /\ OffsetIsTrue'
  BY <1>7, NotLoading DEF Loading
<1> QED BY <1>5, <1>8, <1>9, <1>10 DEF DownloadInv

LEMMA SourceFailsPreserves ==
    ASSUME DownloadInv, SourceFails
    PROVE  DownloadInv'
<1>1. /\ job # None /\ job.pc \notin {"install", "swap"} /\ job' = [job EXCEPT !.pc = "failed"]
      /\ trouble < MaxTrouble /\ trouble' = trouble + 1
      /\ UNCHANGED <<disk, tree, serving, shown, scar>>
  BY DEF SourceFails, Goto, Spend
<1>2. job \in Jobs /\ Len(job.req.files) \in Nat /\ job.i \in Nat /\ job.i <= Len(job.req.files) + 1
  BY <1>1, Requested DEF DownloadInv, JobShape
<1>3. serving' \in Revisions /\ trouble' \in 0..MaxTrouble
  BY <1>1, Constants DEF DownloadInv, Library
<1>4. Disk' /\ CopyIsVerified' /\ JournalIsHonest'
  BY <1>1, DiskKept
<1>5. "failed" \in Steps
  BY DEF Steps
<1>6. job' \in Jobs /\ job'.pc = "failed" /\ job'.req = job.req /\ job'.i = job.i
  BY <1>1, <1>2, <1>5, Moved
<1>7. JobShape'
  BY <1>2, <1>6, Shape DEF InFile
<1>8. Library' /\ HolesAreKnown' /\ PublishedSoFar'
  BY <1>1, <1>3, <1>6, NotPublishing DEF Publishing
<1>9. BodyIsOne' /\ PendIsHonest' /\ OffsetIsTrue'
  BY <1>6, NotLoading DEF Loading
<1> QED BY <1>4, <1>7, <1>8, <1>9 DEF DownloadInv

-----------------------------------------------------------------------------
(* The steps of the publication.                                           *)

LEMMA TreeFields ==
    \A t \in Trees : /\ t.file \in [Files -> Contents \cup {None}]
                     /\ t.rev \in Revisions \cup {None} /\ t.sel \in Selections \cup {None}
  BY DEF Trees

(* One file of a tree is replaced. *)
LEMMA TreeUpdate ==
    ASSUME NEW t \in Trees, NEW g \in Files, NEW y \in Contents \cup {None}
    PROVE  LET u == [t EXCEPT !.file[g] = y]
           IN  u \in Trees /\ u.file[g] = y /\ \A e \in Files : e # g => u.file[e] = t.file[e]
<1> DEFINE u == [t EXCEPT !.file[g] = y]
           h == [t.file EXCEPT ![g] = y]
<1>1. t.file \in [Files -> Contents \cup {None}]
  BY TreeFields
<1>2. h \in [Files -> Contents \cup {None}] /\ h[g] = y /\ \A e \in Files : e # g => h[e] = t.file[e]
  BY <1>1
<1>3. u = [t EXCEPT !.file = h]
  OBVIOUS
<1> HIDE DEF h
<1>4. u.file = h
  BY <1>3 DEF Trees
<1>5. u \in Trees
  BY <1>2, <1>3 DEF Trees
<1> QED BY <1>2, <1>4, <1>5

(* The directory that the files are published into. *)
LEMMA TreeIsVisible ==
    ASSUME DownloadInv
    PROVE  /\ Tree \in Trees /\ Tree # None /\ (visible # None => Tree = visible)
           /\ visible = None => \A g \in Files : Tree.file[g] = None
<1>1. visible \in Trees \cup {None}
  BY DEF DownloadInv, Library
<1>2. EmptyTree \in Trees /\ \A g \in Files : EmptyTree.file[g] = None
  BY DEF EmptyTree, Trees
<1> QED BY <1>1, <1>2, Constants DEF Tree

(* The types of the library. *)
LEMMA LibraryTypes ==
    ASSUME DownloadInv, job # None
    PROVE  /\ visible \in Trees \cup {None} /\ superseded \in [Revisions -> Trees \cup {None}]
           /\ trash \in [Revisions -> [1..Cardinality(Files) -> Contents \cup {None}]]
           /\ serving \in Revisions /\ shown \subseteq Files /\ trouble \in 0..MaxTrouble
           /\ superseded[r] \in Trees \cup {None}
           /\ copy[r] \in [Files -> Contents \cup {None}]
           /\ seal[r] \in BOOLEAN /\ chosen[r] \in (SUBSET Files) \cup {None}
<1>1. r \in Revisions
  BY Requested
<1>2. /\ visible \in Trees \cup {None} /\ superseded \in [Revisions -> Trees \cup {None}]
      /\ trash \in [Revisions -> [1..Cardinality(Files) -> Contents \cup {None}]]
      /\ serving \in Revisions /\ shown \subseteq Files /\ trouble \in 0..MaxTrouble
  BY DEF DownloadInv, Library
<1>3. /\ copy \in [Revisions -> [Files -> Contents \cup {None}]] /\ seal \in [Revisions -> BOOLEAN]
      /\ chosen \in [Revisions -> (SUBSET Files) \cup {None}]
  BY DEF DownloadInv, Disk
<1> QED BY <1>1, <1>2, <1>3

LEMMA SealPreserves ==
    ASSUME DownloadInv, Seal
    PROVE  DownloadInv'
<1> DEFINE whole == job.req.scope = "whole"
           there == IF whole THEN is_published ELSE SelectedIsComplete
<1>1. /\ job # None /\ job.pc = "seal"
      /\ UNCHANGED <<part, journal, tmp, copy, tree, serving, shown, scar, trouble>>
      /\ \/ there /\ job' = [job EXCEPT !.pc = "publish"] /\ UNCHANGED <<seal, chosen>>
         \/ job' = [job EXCEPT !.pc = "refused"] /\ UNCHANGED <<seal, chosen>>
         \/ /\ verify_manifest /\ job' = [job EXCEPT !.pc = "publish"]
            /\ seal' = IF whole THEN [seal EXCEPT ![r] = TRUE] ELSE seal
            /\ chosen' = IF whole THEN chosen ELSE [chosen EXCEPT ![r] = Range(job.req.files)]
  BY DEF Seal, At, Goto
<1>2. /\ job \in Jobs /\ Len(job.req.files) \in Nat /\ job.i = 1 /\ job.unsynced = 0 /\ r \in Revisions
      /\ Range(job.req.files) \subseteq Files /\ (whole => Range(job.req.files) = Files)
  BY <1>1, Requested, Flushed DEF DownloadInv, JobShape
<1>3. serving' \in Revisions /\ trouble' \in 0..MaxTrouble
  BY <1>1 DEF DownloadInv, Library
<1> HIDE DEF there, whole
<1>4. "publish" \in Steps /\ "refused" \in Steps
  BY DEF Steps
<1>5. job' \in Jobs /\ job'.pc \in {"publish", "refused"} /\ job'.req = job.req /\ job'.i = 1 /\ job'.unsynced = 0
  <2>1. CASE job' = [job EXCEPT !.pc = "publish"]
    BY <2>1, <1>2, <1>4, Moved
  <2>2. CASE job' = [job EXCEPT !.pc = "refused"]
    BY <2>2, <1>2, <1>4, Moved
  <2> QED BY <1>1, <2>1, <2>2
<1>6. JobShape'
  BY <1>2, <1>5, Shape DEF InFile
<1>7. Library' /\ HolesAreKnown' /\ PublishedSoFar'
  BY <1>1, <1>3, <1>5, NotPublishing DEF Publishing
<1>8. BodyIsOne' /\ PendIsHonest' /\ OffsetIsTrue'
  BY <1>5, NotLoading DEF Loading
<1>9. Disk' /\ CopyIsVerified' /\ JournalIsHonest'
  <2>1. CASE UNCHANGED <<seal, chosen>>
    BY <2>1, <1>1, DiskKept DEF disk
  <2>2. CASE /\ verify_manifest
             /\ seal' = IF whole THEN [seal EXCEPT ![r] = TRUE] ELSE seal
             /\ chosen' = IF whole THEN chosen ELSE [chosen EXCEPT ![r] = Range(job.req.files)]
    <3>1. seal \in [Revisions -> BOOLEAN] /\ chosen \in [Revisions -> (SUBSET Files) \cup {None}] /\ CopyIsVerified
      BY DEF DownloadInv, Disk
    <3>2. \A g \in Range(job.req.files) : copy[r][g] = Whole(r)
      BY <2>2 DEF verify_manifest, Verified, sha256_of_file
    <3>3. seal' \in [Revisions -> BOOLEAN] /\ \A v \in Revisions : seal'[v] => seal[v] \/ (v = r /\ whole)
      <4>1. CASE whole
        BY <4>1, <2>2, <3>1, <1>2
      <4>2. CASE ~whole
        BY <4>2, <2>2, <3>1
      <4> QED BY <4>1, <4>2
    <3>4. /\ chosen' \in [Revisions -> (SUBSET Files) \cup {None}]
          /\ \A v \in Revisions : chosen'[v] = chosen[v] \/ (v = r /\ chosen'[v] = Range(job.req.files))
      <4>1. CASE whole
        BY <4>1, <2>2, <3>1, <1>2
      <4>2. CASE ~whole
        <5>1. chosen' = [chosen EXCEPT ![r] = Range(job.req.files)]
          BY <4>2, <2>2
        <5>2. Range(job.req.files) \in (SUBSET Files) \cup {None}
          BY <1>2
        <5> QED BY <5>1, <5>2, <3>1, <1>2, Update1
      <4> QED BY <4>1, <4>2
    <3>5. Disk'
      BY <1>1, <3>3, <3>4 DEF DownloadInv, Disk
    <3>6. JournalIsHonest'
      BY <1>1 DEF DownloadInv, JournalIsHonest
    <3>7. CopyIsVerified'
      <4> SUFFICES ASSUME NEW v \in Revisions
                   PROVE  /\ \A g \in Files : copy[v][g] \in {None, Whole(v)}
                          /\ seal'[v] => \A g \in Files : copy[v][g] = Whole(v)
                          /\ chosen'[v] # None => \A g \in chosen'[v] : copy[v][g] = Whole(v)
        BY <1>1 DEF CopyIsVerified, Whole
      <4>1. \A g \in Files : copy[v][g] \in {None, Whole(v)}
        BY <3>1 DEF CopyIsVerified
      <4>2. seal'[v] => \A g \in Files : copy[v][g] = Whole(v)
        BY <3>1, <3>2, <3>3, <1>2 DEF CopyIsVerified
      <4>3. chosen'[v] # None => \A g \in chosen'[v] : copy[v][g] = Whole(v)
        BY <3>1, <3>2, <3>4 DEF CopyIsVerified
      <4> QED BY <4>1, <4>2, <4>3
    <3> QED BY <3>5, <3>6, <3>7
  <2> QED BY <1>1, <2>1, <2>2
<1> QED BY <1>6, <1>7, <1>8, <1>9 DEF DownloadInv

LEMMA PublishWholePreserves ==
    ASSUME DownloadInv, PublishWhole
    PROVE  DownloadInv'
<1>1. /\ job # None /\ job.pc = "publish" /\ UNCHANGED <<disk, trash, serving, shown, scar, trouble>>
  BY DEF PublishWhole, At
<1>2. job \in Jobs /\ Len(job.req.files) \in Nat /\ job.i = 1 /\ job.unsynced = 0 /\ r \in Revisions
  BY <1>1, Requested, Flushed DEF DownloadInv, JobShape
<1>3. Disk' /\ CopyIsVerified' /\ JournalIsHonest' /\ seal' = seal
  BY <1>1, DiskKept DEF disk
<1>4. Holes \subseteq scar
  BY <1>1 DEF DownloadInv, HolesAreKnown
<1>5. /\ visible \in Trees \cup {None} /\ superseded \in [Revisions -> Trees \cup {None}]
      /\ trash' \in [Revisions -> [1..Cardinality(Files) -> Contents \cup {None}]]
      /\ serving' \in Revisions /\ shown' \subseteq Files /\ trouble' \in 0..MaxTrouble
  BY <1>1, LibraryTypes
<1>6. CASE is_published
  <2>1. job' = [job EXCEPT !.pc = "tidy", !.already = TRUE] /\ visible' = visible /\ superseded' = superseded
    BY <1>6 DEF PublishWhole
  <2>2. job' \in Jobs
    BY <1>2, <2>1 DEF Jobs, Steps
  <2>3. job'.pc = "tidy" /\ job'.already = TRUE /\ job'.req = job.req /\ job'.i = 1 /\ job'.unsynced = 0
    BY <1>2, <2>1 DEF Jobs
  <2>4. JobShape'
    BY <1>2, <2>2, <2>3, Shape DEF InFile
  <2>5. Library'
    BY <1>5, <2>1 DEF Library
  <2>6. HolesAreKnown'
    <3>1. Holes' = Holes
      BY <1>1, <2>1 DEF Holes
    <3> QED BY <1>1, <1>4, <2>3, <3>1 DEF HolesAreKnown, At
  <2>7. PublishedSoFar'
    BY <2>3 DEF PublishedSoFar
  <2>8. BodyIsOne' /\ PendIsHonest' /\ OffsetIsTrue'
    BY <2>3, NotLoading DEF Loading
  <2> QED BY <1>3, <2>4, <2>5, <2>6, <2>7, <2>8 DEF DownloadInv
<1>7. CASE ~is_published
  <2>1. /\ seal[r] /\ visible' = None /\ job' = [job EXCEPT !.pc = "install"]
        /\ superseded' = IF visible = None THEN superseded ELSE [superseded EXCEPT ![r] = visible]
    BY <1>7 DEF PublishWhole, Goto
  <2>2. "install" \in Steps
    BY DEF Steps
  <2>3. /\ job' \in Jobs /\ job' # None /\ job'.pc = "install" /\ job'.req = job.req /\ job'.i = 1
        /\ job'.unsynced = 0 /\ r' = r
    BY <1>2, <2>1, <2>2, Moved
  <2>4. JobShape'
    BY <1>2, <2>3, Shape DEF InFile
  <2>5. superseded' \in [Revisions -> Trees \cup {None}] /\ (visible # None => superseded'[r] = visible)
    <3>1. CASE visible = None
      BY <3>1, <2>1, <1>5
    <3>2. CASE visible # None
      BY <3>2, <2>1, <1>2, <1>5
    <3> QED BY <3>1, <3>2
  <2>6. Library'
    BY <1>5, <2>1, <2>5 DEF Library
  <2>7. HolesAreKnown'
    <3>1. ASSUME NEW g \in shown, superseded'[r] = None \/ superseded'[r].file[g] = None
          PROVE  g \in scar
      <4>1. g \in Holes
        BY <3>1, <2>5 DEF Holes
      <4> QED BY <4>1, <1>4
    <3> QED BY <1>1, <1>3, <2>1, <2>3, <3>1 DEF HolesAreKnown, At
  <2>8. PublishedSoFar'
    BY <2>3 DEF PublishedSoFar
  <2>9. BodyIsOne' /\ PendIsHonest' /\ OffsetIsTrue'
    BY <2>3, NotLoading DEF Loading
  <2> QED BY <1>3, <2>4, <2>6, <2>7, <2>8, <2>9 DEF DownloadInv
<1> QED BY <1>6, <1>7

LEMMA InstallTreePreserves ==
    ASSUME DownloadInv, InstallTree
    PROVE  DownloadInv'
<1> DEFINE s == IF chosen[r] = None THEN None ELSE [rev |-> r, files |-> chosen[r]]
           t == [file |-> copy[r], rev |-> r, sel |-> s]
<1>1. /\ job # None /\ job.pc = "install" /\ visible' = t /\ StagingCleared
      /\ job' = [job EXCEPT !.pc = "tidy"] /\ shown' = shown \cup Files /\ scar' = {}
      /\ UNCHANGED <<superseded, trash, serving, trouble>>
  BY DEF InstallTree, At, Goto
<1>2. /\ job \in Jobs /\ Len(job.req.files) \in Nat /\ job.i \in Nat /\ job.i <= Len(job.req.files) + 1
      /\ job.unsynced = 0 /\ r \in Revisions /\ Range(job.req.files) \subseteq Files
  BY <1>1, Requested, Flushed DEF DownloadInv, JobShape
<1>3. seal[r]
  BY <1>1 DEF DownloadInv, HolesAreKnown, At
<1>4. \A g \in Files : copy[r][g] = Whole(r)
  BY <1>2, <1>3 DEF DownloadInv, CopyIsVerified
<1>5. Whole(r) # None
  BY <1>2, WholeIsContent
<1>6. t \in Trees /\ t.file = copy[r]
  <2>1. copy[r] \in [Files -> Contents \cup {None}] /\ chosen[r] \in (SUBSET Files) \cup {None}
    BY <1>1, LibraryTypes
  <2>2. s \in Selections \cup {None}
    BY <1>2, <2>1 DEF Selections
  <2> HIDE DEF s
  <2> QED BY <1>2, <2>1, <2>2 DEF Trees
<1>7. t # None
  BY <1>6, Constants
<1> HIDE DEF t, s
<1>8. Disk' /\ CopyIsVerified' /\ JournalIsHonest'
  BY <1>1, Cleared
<1>9. "tidy" \in Steps
  BY DEF Steps
<1>10. /\ job' \in Jobs /\ job' # None /\ job'.pc = "tidy" /\ job'.req = job.req /\ job'.i = job.i
       /\ job'.unsynced = 0 /\ r' = r
  BY <1>1, <1>2, <1>9, Moved
<1>11. JobShape'
  BY <1>2, <1>10, Shape DEF InFile
<1>12. Library'
  BY <1>1, <1>6, LibraryTypes DEF Library
<1>13. HolesAreKnown'
  <2>1. Holes' = {}
    <3>1. shown' \subseteq Files
      BY <1>12 DEF Library
    <3>2. \A g \in Files : visible' # None /\ visible'.file[g] # None
      BY <1>1, <1>4, <1>5, <1>6, <1>7
    <3> QED BY <3>1, <3>2 DEF Holes
  <2> QED BY <1>10, <2>1 DEF HolesAreKnown, At
<1>14. PublishedSoFar'
  <2>1. \A g \in Files : visible' # None /\ visible'.file[g] = Whole(r)
    BY <1>1, <1>4, <1>6, <1>7
  <2>2. Whole(r)' = Whole(r)
    BY <1>10 DEF Whole
  <2>3. \A g \in Range(job'.req.files) : visible' # None /\ visible'.file[g] = Whole(r)'
    BY <1>2, <1>10, <2>1, <2>2
  <2> QED BY <1>10, <2>3 DEF PublishedSoFar, Shows
<1>15. BodyIsOne' /\ PendIsHonest' /\ OffsetIsTrue'
  BY <1>10, NotLoading DEF Loading
<1> QED BY <1>8, <1>11, <1>12, <1>13, <1>14, <1>15 DEF DownloadInv

LEMMA InstallFailsPreserves ==
    ASSUME DownloadInv, InstallFails
    PROVE  DownloadInv'
<1>1. /\ job # None /\ job.pc = "install" /\ job' = [job EXCEPT !.pc = "failed"]
      /\ visible' = superseded[r] /\ superseded' = [superseded EXCEPT ![r] = None]
      /\ trouble < MaxTrouble /\ trouble' = trouble + 1
      /\ UNCHANGED <<disk, trash, serving, shown, scar>>
  BY DEF InstallFails, At, Goto, Spend, PutBack
<1>2. /\ job \in Jobs /\ Len(job.req.files) \in Nat /\ job.i \in Nat /\ job.i <= Len(job.req.files) + 1
      /\ job.unsynced = 0 /\ r \in Revisions
  BY <1>1, Requested, Flushed DEF DownloadInv, JobShape
<1>3. /\ superseded \in [Revisions -> Trees \cup {None}] /\ superseded[r] \in Trees \cup {None}
      /\ trash' \in [Revisions -> [1..Cardinality(Files) -> Contents \cup {None}]]
      /\ serving' \in Revisions /\ shown' \subseteq Files /\ trouble \in 0..MaxTrouble
  BY <1>1, LibraryTypes
<1>4. Disk' /\ CopyIsVerified' /\ JournalIsHonest'
  BY <1>1, DiskKept
<1>5. "failed" \in Steps
  BY DEF Steps
<1>6. /\ job' \in Jobs /\ job' # None /\ job'.pc = "failed" /\ job'.req = job.req /\ job'.i = job.i
  BY <1>1, <1>2, <1>5, Moved
<1>7. JobShape'
  BY <1>2, <1>6, Shape DEF InFile
<1>8. Library'
  <2>1. superseded' \in [Revisions -> Trees \cup {None}]
    BY <1>1, <1>2, <1>3
  <2>2. trouble' \in 0..MaxTrouble
    BY <1>1, <1>3, Constants
  <2> QED BY <1>1, <1>3, <2>1, <2>2 DEF Library
<1>9. HolesAreKnown'
  <2>1. Holes' \subseteq scar
    BY <1>1 DEF DownloadInv, HolesAreKnown, At, Holes
  <2> QED BY <1>1, <1>6, <2>1 DEF HolesAreKnown, At
<1>10. PublishedSoFar'
  BY <1>6 DEF PublishedSoFar
<1>11. BodyIsOne' /\ PendIsHonest' /\ OffsetIsTrue'
  BY <1>6, NotLoading DEF Loading
<1> QED BY <1>4, <1>7, <1>8, <1>9, <1>10, <1>11 DEF DownloadInv

(* A step that leaves the directory of the session as it is, in a job that *)
(* is between two files or done with them.                                 *)
LEMMA TreeKept ==
    ASSUME DownloadInv, job # None, job.pc \notin {"install", "swap"},
           UNCHANGED <<visible, serving, shown, scar, trouble>>,
           superseded' \in [Revisions -> Trees \cup {None}],
           trash' \in [Revisions -> [1..Cardinality(Files) -> Contents \cup {None}]],
           job' # None, job'.pc \notin {"install", "swap"}
    PROVE  Library' /\ HolesAreKnown'
<1>1. Library'
  BY DEF DownloadInv, Library
<1>2. Holes' = Holes
  BY DEF Holes
<1>3. Holes \subseteq scar
  BY DEF DownloadInv, HolesAreKnown
<1> QED BY <1>1, <1>2, <1>3 DEF HolesAreKnown, At

(* The trash of the revision is emptied. *)
LEMMA TrashEmptied ==
    ASSUME DownloadInv, job # None, trash' = [trash EXCEPT ![r] = [i \in DOMAIN @ |-> None]]
    PROVE  trash' \in [Revisions -> [1..Cardinality(Files) -> Contents \cup {None}]]
<1> DEFINE empty == [i \in DOMAIN trash[r] |-> None]
<1>1. trash \in [Revisions -> [1..Cardinality(Files) -> Contents \cup {None}]] /\ r \in Revisions
  BY LibraryTypes, Requested
<1>2. DOMAIN trash[r] = 1..Cardinality(Files)
  BY <1>1
<1>3. empty \in [1..Cardinality(Files) -> Contents \cup {None}]
  BY <1>2
<1>4. trash' = [trash EXCEPT ![r] = empty]
  OBVIOUS
<1> HIDE DEF empty
<1> QED BY <1>1, <1>3, <1>4, Update1

LEMMA TidyWholePreserves ==
    ASSUME DownloadInv, TidyWhole
    PROVE  DownloadInv'
<1>1. /\ job # None /\ job.pc = "tidy" /\ superseded' = [superseded EXCEPT ![r] = None] /\ StagingCleared
      /\ job' = [job EXCEPT !.pc = "done"] /\ UNCHANGED <<visible, trash, serving, shown, scar, trouble>>
  BY DEF TidyWhole, At, Goto
<1>2. /\ job \in Jobs /\ Len(job.req.files) \in Nat /\ job.i \in Nat /\ job.i <= Len(job.req.files) + 1
      /\ job.unsynced = 0 /\ r \in Revisions
  BY <1>1, Requested, Flushed DEF DownloadInv, JobShape
<1>3. Disk' /\ CopyIsVerified' /\ JournalIsHonest'
  BY <1>1, Cleared
<1>4. "done" \in Steps
  BY DEF Steps
<1>5. /\ job' \in Jobs /\ job' # None /\ job'.pc = "done" /\ job'.req = job.req /\ job'.i = job.i
      /\ job'.unsynced = 0 /\ job'.already = job.already /\ r' = r
  BY <1>1, <1>2, <1>4, Moved
<1>6. JobShape'
  BY <1>2, <1>5, Shape DEF InFile
<1>7. Library' /\ HolesAreKnown'
  <2>1. superseded' \in [Revisions -> Trees \cup {None}]
    BY <1>1, <1>2, LibraryTypes
  <2>2. trash' \in [Revisions -> [1..Cardinality(Files) -> Contents \cup {None}]]
    BY <1>1, LibraryTypes
  <2> QED BY <1>1, <1>5, <2>1, <2>2, TreeKept
<1>8. PublishedSoFar'
  <2>1. ~job.already => \A g \in Range(job.req.files) : visible # None /\ visible.file[g] = Whole(r)
    BY <1>1 DEF DownloadInv, PublishedSoFar, Shows
  <2>2. Whole(r)' = Whole(r)
    BY <1>5 DEF Whole
  <2> QED BY <1>1, <1>5, <2>1, <2>2 DEF PublishedSoFar, Shows
<1>9. BodyIsOne' /\ PendIsHonest' /\ OffsetIsTrue'
  BY <1>5, NotLoading DEF Loading
<1> QED BY <1>3, <1>6, <1>7, <1>8, <1>9 DEF DownloadInv

LEMMA PublishSelectedPreserves ==
    ASSUME DownloadInv, PublishSelected
    PROVE  DownloadInv'
<1>1. /\ job # None /\ job.pc = "publish" /\ UNCHANGED <<visible, superseded, serving, shown, scar, trouble>>
  BY DEF PublishSelected, At
<1>2. job \in Jobs /\ Len(job.req.files) \in Nat /\ job.i = 1 /\ job.unsynced = 0 /\ r \in Revisions
  BY <1>1, Requested, Flushed DEF DownloadInv, JobShape
<1>3. superseded' \in [Revisions -> Trees \cup {None}]
  BY <1>1, LibraryTypes
<1>4. CASE SelectedIsComplete
  <2>1. /\ StagingCleared /\ trash' = [trash EXCEPT ![r] = [i \in DOMAIN @ |-> None]]
        /\ job' = [job EXCEPT !.pc = "done", !.already = TRUE]
    BY <1>4 DEF PublishSelected
  <2>2. Disk' /\ CopyIsVerified' /\ JournalIsHonest'
    BY <1>1, <2>1, Cleared
  <2>3. job' \in Jobs
    BY <1>2, <2>1 DEF Jobs, Steps
  <2>4. job'.pc = "done" /\ job'.already = TRUE /\ job'.req = job.req /\ job'.i = 1 /\ job'.unsynced = 0
    BY <1>2, <2>1 DEF Jobs
  <2>5. JobShape'
    BY <1>2, <2>3, <2>4, Shape DEF InFile
  <2>6. Library' /\ HolesAreKnown'
    <3>1. job' # None
      BY <2>3, Constants
    <3>2. trash' \in [Revisions -> [1..Cardinality(Files) -> Contents \cup {None}]]
      BY <1>1, <2>1, TrashEmptied
    <3> QED BY <1>1, <1>3, <2>4, <3>1, <3>2, TreeKept
  <2>7. PublishedSoFar'
    BY <2>4 DEF PublishedSoFar
  <2>8. BodyIsOne' /\ PendIsHonest' /\ OffsetIsTrue'
    BY <2>4, NotLoading DEF Loading
  <2> QED BY <2>2, <2>5, <2>6, <2>7, <2>8 DEF DownloadInv
<1>5. CASE ~SelectedIsComplete
  <2>1. /\ chosen[r] = Range(job.req.files) /\ job' = [job EXCEPT !.pc = "pick"] /\ UNCHANGED <<disk, trash>>
    BY <1>5 DEF PublishSelected, Goto
  <2>2. Disk' /\ CopyIsVerified' /\ JournalIsHonest' /\ chosen' = chosen
    BY <2>1, DiskKept DEF disk
  <2>3. "pick" \in Steps
    BY DEF Steps
  <2>4. /\ job' \in Jobs /\ job' # None /\ job'.pc = "pick" /\ job'.req = job.req /\ job'.i = 1
        /\ job'.unsynced = 0 /\ r' = r
    BY <1>2, <2>1, <2>3, Moved
  <2>5. JobShape'
    BY <1>2, <2>4, Shape DEF InFile
  <2>6. Library' /\ HolesAreKnown'
    <3>1. trash' \in [Revisions -> [1..Cardinality(Files) -> Contents \cup {None}]]
      BY <1>1, <2>1, LibraryTypes
    <3> QED BY <1>1, <1>3, <2>4, <3>1, TreeKept
  <2>7. PublishedSoFar'
    <3>1. chosen'[r'] = Range(job'.req.files)
      BY <2>1, <2>2, <2>4
    <3>2. 1..(job'.i - 1) = {}
      BY <2>4
    <3> QED BY <2>4, <3>1, <3>2 DEF PublishedSoFar
  <2>8. BodyIsOne' /\ PendIsHonest' /\ OffsetIsTrue'
    BY <2>4, NotLoading DEF Loading
  <2> QED BY <2>2, <2>5, <2>6, <2>7, <2>8 DEF DownloadInv
<1> QED BY <1>4, <1>5

(* What a job that is putting its files in place has done so far. *)
LEMMA Picking ==
    ASSUME DownloadInv, job # None, job.pc \in {"pick", "swap", "drop"}
    PROVE  /\ job \in Jobs /\ Len(job.req.files) \in Nat /\ job.i \in Nat /\ job.i >= 1 /\ job.unsynced = 0
           /\ job.i <= Len(job.req.files) + 1 /\ r \in Revisions
           /\ chosen[r] = Range(job.req.files) /\ \A g \in Range(job.req.files) : copy[r][g] = Whole(r)
           /\ \A k \in 1..(job.i - 1) : /\ k \in 1..Len(job.req.files) /\ job.req.files[k] \in Files
                                        /\ visible # None /\ visible.file[job.req.files[k]] = Whole(r)
           /\ job.i <= Len(job.req.files) =>
                /\ f \in Files /\ f \in Range(job.req.files) /\ job.i \in 1..Cardinality(Files)
                /\ \A k \in 1..(job.i - 1) : job.req.files[k] # f
<1>1. /\ job \in Jobs /\ r \in Revisions /\ Len(job.req.files) \in Nat /\ job.i \in Nat /\ job.i >= 1
      /\ Range(job.req.files) \subseteq Files
      /\ \A k, l \in 1..Len(job.req.files) : job.req.files[k] = job.req.files[l] => k = l
      /\ \A k \in 1..Len(job.req.files) : job.req.files[k] \in Range(job.req.files)
      /\ job.i <= Len(job.req.files) =>
           f \in Files /\ job.i \in 1..Len(job.req.files) /\ job.i \in 1..Cardinality(Files)
  BY Requested
<1>2. job.i <= Len(job.req.files) + 1 /\ job.unsynced = 0
  BY Flushed DEF DownloadInv, JobShape
<1>3. /\ chosen[r] = Range(job.req.files)
      /\ \A k \in 1..(job.i - 1) : visible # None /\ visible.file[job.req.files[k]] = Whole(r)
  BY DEF DownloadInv, PublishedSoFar, Shows
<1>4. chosen[r] # None
  BY <1>1, <1>3, Constants
<1>5. \A g \in Range(job.req.files) : copy[r][g] = Whole(r)
  BY <1>1, <1>3, <1>4 DEF DownloadInv, CopyIsVerified
<1>6. \A k \in 1..(job.i - 1) : k \in 1..Len(job.req.files) /\ k # job.i
  BY <1>1, <1>2
<1>7. \A k \in 1..(job.i - 1) : job.req.files[k] \in Files
  BY <1>1, <1>6
<1>8. job.i <= Len(job.req.files) =>
        f \in Range(job.req.files) /\ \A k \in 1..(job.i - 1) : job.req.files[k] # f
  BY <1>1, <1>6 DEF f
<1> QED BY <1>1, <1>2, <1>3, <1>5, <1>6, <1>7, <1>8

(* What there is to show of a job that is putting its files in place. *)
LEMMA SoFar ==
    ASSUME job' # None, job'.pc \in {"pick", "swap", "drop"}, chosen'[r'] = Range(job'.req.files),
           \A k \in 1..(job'.i - 1) : visible' # None /\ visible'.file[job'.req.files[k]] = Whole(r'),
           job'.pc = "drop" => visible' # None /\ visible'.file[f'] = Whole(r')
    PROVE  PublishedSoFar'
<1>1. Whole(r)' = Whole(r')
  BY DEF Whole
<1> QED BY <1>1 DEF PublishedSoFar, Shows

LEMMA PickFilePreserves ==
    ASSUME DownloadInv, PickFile
    PROVE  DownloadInv'
<1> DEFINE now == IF Tree.file[f] = None THEN trash[r][job.i] ELSE Tree.file[f]
<1>1. /\ job # None /\ job.pc = "pick" /\ job.i <= Len(job.req.files)
      /\ UNCHANGED <<disk, superseded, serving, shown, scar, trouble>>
  BY DEF PickFile, At
<1>2. /\ job \in Jobs /\ Len(job.req.files) \in Nat /\ job.i \in Nat /\ job.i >= 1 /\ job.unsynced = 0
      /\ r \in Revisions /\ f \in Files /\ job.i \in 1..Cardinality(Files)
      /\ chosen[r] = Range(job.req.files)
      /\ \A k \in 1..(job.i - 1) : /\ job.req.files[k] \in Files /\ job.req.files[k] # f
                                   /\ visible # None /\ visible.file[job.req.files[k]] = Whole(r)
  BY <1>1, Picking
<1>3. Disk' /\ CopyIsVerified' /\ JournalIsHonest' /\ chosen' = chosen
  BY <1>1, DiskKept DEF disk
<1>4. /\ superseded' \in [Revisions -> Trees \cup {None}]
      /\ trash \in [Revisions -> [1..Cardinality(Files) -> Contents \cup {None}]]
      /\ serving' \in Revisions /\ shown' \subseteq Files /\ trouble' \in 0..MaxTrouble
  BY <1>1, LibraryTypes
<1>5. /\ Tree \in Trees /\ Tree # None /\ (visible # None => Tree = visible)
      /\ visible = None => \A g \in Files : Tree.file[g] = None
  BY TreeIsVisible
<1>6. Holes \subseteq scar
  BY <1>1 DEF DownloadInv, HolesAreKnown
<1>7. \A g \in shown : Tree.file[g] = None => g \in Holes
  BY <1>5 DEF Holes
<1>8. Tree.file \in [Files -> Contents \cup {None}]
  BY <1>5, TreeFields
<1>9. \A k \in 1..(job.i - 1) : /\ job.req.files[k] \in Files /\ job.req.files[k] # f
                                /\ Tree.file[job.req.files[k]] = Whole(r)
  BY <1>2, <1>5
<1>10. CASE Verified(Tree.file[f], r)
  <2>1. /\ trash' = [trash EXCEPT ![r][job.i] = None] /\ job' = [job EXCEPT !.i = @ + 1] /\ visible' = Tree
    BY <1>10 DEF PickFile
  <2>2. Tree.file[f] = Whole(r)
    BY <1>10 DEF Verified, sha256_of_file
  <2>3. job' \in Jobs
    <3>1. job.i + 1 \in Nat \ {0}
      BY <1>2
    <3>2. job' = [job EXCEPT !.i = job.i + 1]
      BY <2>1
    <3> QED BY <1>2, <3>1, <3>2 DEF Jobs
  <2>4. job' # None /\ job'.pc = "pick" /\ job'.req = job.req /\ job'.i = job.i + 1 /\ job'.unsynced = 0
    BY <1>1, <1>2, <2>1, <2>3, Constants DEF Jobs
  <2>5. r' = r
    BY <2>4 DEF r
  <2>6. JobShape'
    BY <1>1, <1>2, <2>3, <2>4, Shape DEF InFile
  <2>7. Library'
    <3>1. trash' \in [Revisions -> [1..Cardinality(Files) -> Contents \cup {None}]]
      BY <1>2, <1>4, <2>1, Update2
    <3> QED BY <1>4, <1>5, <2>1, <3>1 DEF Library
  <2>8. HolesAreKnown'
    <3>1. Holes' \subseteq scar
      BY <1>1, <1>5, <1>6, <1>7, <2>1 DEF Holes
    <3> QED BY <1>1, <2>4, <3>1 DEF HolesAreKnown, At
  <2>9. PublishedSoFar'
    <3>1. \A k \in 1..((job.i + 1) - 1) : Tree.file[job.req.files[k]] = Whole(r)
      <4> SUFFICES ASSUME NEW k \in 1..((job.i + 1) - 1)
                   PROVE  Tree.file[job.req.files[k]] = Whole(r)
        OBVIOUS
      <4>1. k = job.i \/ k \in 1..(job.i - 1)
        BY <1>2
      <4> QED BY <4>1, <1>9, <2>2 DEF f
    <3>2. \A k \in 1..(job'.i - 1) : visible' # None /\ visible'.file[job'.req.files[k]] = Whole(r')
      BY <1>5, <2>1, <2>4, <2>5, <3>1
    <3>3. chosen'[r'] = Range(job'.req.files)
      BY <1>2, <1>3, <2>4, <2>5
    <3> QED BY <2>4, <3>2, <3>3, SoFar
  <2>10. BodyIsOne' /\ PendIsHonest' /\ OffsetIsTrue'
    BY <2>4, NotLoading DEF Loading
  <2> QED BY <1>3, <2>6, <2>7, <2>8, <2>9, <2>10 DEF DownloadInv
<1>11. CASE ~Verified(Tree.file[f], r)
  <2>1. /\ trash' = [trash EXCEPT ![r][job.i] = now] /\ visible' = [Tree EXCEPT !.file[f] = None]
        /\ job' = [job EXCEPT !.pc = "swap"]
    BY <1>11 DEF PickFile, Goto
  <2>2. now \in Contents \cup {None} /\ (now = None => Tree.file[f] = None)
    BY <1>2, <1>4, <1>8
  <2> HIDE DEF now
  <2>3. /\ visible' \in Trees /\ visible'.file[f] = None
        /\ \A e \in Files : e # f => visible'.file[e] = Tree.file[e]
    BY <1>2, <1>5, <2>1, TreeUpdate
  <2>4. visible' # None
    BY <2>3, Constants
  <2>5. /\ trash' \in [Revisions -> [1..Cardinality(Files) -> Contents \cup {None}]] /\ trash'[r][job.i] = now
    <3> DEFINE N == 1..Cardinality(Files)
    <3>1. r \in Revisions /\ job.i \in N /\ trash \in [Revisions -> [N -> Contents \cup {None}]]
      BY <1>2, <1>4
    <3> HIDE DEF N
    <3>2. trash' \in [Revisions -> [N -> Contents \cup {None}]] /\ trash'[r][job.i] = now
      BY <2>1, <2>2, <3>1, Update2
    <3> QED BY <3>2 DEF N
  <2>6. "swap" \in Steps
    BY DEF Steps
  <2>7. /\ job' \in Jobs /\ job' # None /\ job'.pc = "swap" /\ job'.req = job.req /\ job'.i = job.i
        /\ job'.unsynced = 0 /\ r' = r /\ f' = f
    BY <1>2, <2>1, <2>6, Moved
  <2>9. JobShape'
    BY <1>1, <1>2, <2>7, Shape
  <2>10. Library'
    BY <1>4, <2>3, <2>5 DEF Library
  <2>11. HolesAreKnown'
    <3>1. Holes' \ {f} \subseteq scar
      <4> SUFFICES ASSUME NEW g \in Holes', g # f
                   PROVE  g \in scar
        OBVIOUS
      <4>1. g \in shown /\ g \in Files /\ visible'.file[g] = None
        BY <1>1, <1>4, <2>4 DEF Holes
      <4>2. Tree.file[g] = None
        BY <4>1, <2>3
      <4> QED BY <4>1, <4>2, <1>6, <1>7
    <3>2. f \in shown /\ trash'[r][job.i] = None => f \in scar
      BY <1>6, <1>7, <2>2, <2>5
    <3>3. At("swap")' /\ ~At("install")'
      BY <2>7 DEF At
    <3> QED BY <1>1, <2>4, <2>7, <3>1, <3>2, <3>3 DEF HolesAreKnown
  <2>12. PublishedSoFar'
    <3>1. \A k \in 1..(job'.i - 1) : visible' # None /\ visible'.file[job'.req.files[k]] = Whole(r')
      BY <1>9, <2>3, <2>4, <2>7
    <3>2. chosen'[r'] = Range(job'.req.files)
      BY <1>2, <1>3, <2>7
    <3> QED BY <2>7, <3>1, <3>2, SoFar
  <2>13. BodyIsOne' /\ PendIsHonest' /\ OffsetIsTrue'
    BY <2>7, NotLoading DEF Loading
  <2> QED BY <1>3, <2>9, <2>10, <2>11, <2>12, <2>13 DEF DownloadInv
<1> QED BY <1>10, <1>11

(* Between the two renames of the replacement of a file. *)
LEMMA Swapping ==
    ASSUME DownloadInv, At("swap")
    PROVE  /\ job # None /\ job.pc = "swap" /\ job.i <= Len(job.req.files)
           /\ visible \in Trees /\ visible # None /\ Holes \ {f} \subseteq scar
           /\ f \in shown /\ trash[r][job.i] = None => f \in scar
           /\ trash[r][job.i] \in Contents \cup {None} /\ shown \subseteq Files
<1>1. job # None /\ job.pc = "swap"
  BY DEF At
<1>2. job.i <= Len(job.req.files)
  BY <1>1 DEF DownloadInv, JobShape, InFile
<1>3. /\ visible # None /\ Holes \ {f} \subseteq scar
      /\ f \in shown /\ trash[r][job.i] = None => f \in scar
  BY DEF DownloadInv, HolesAreKnown
<1>4. /\ visible \in Trees \cup {None} /\ shown \subseteq Files
      /\ trash \in [Revisions -> [1..Cardinality(Files) -> Contents \cup {None}]]
  BY <1>1, LibraryTypes
<1>5. r \in Revisions /\ job.i \in 1..Cardinality(Files)
  BY <1>1, <1>2, Picking
<1>6. trash[r][job.i] \in Contents \cup {None}
  BY <1>4, <1>5
<1> QED BY <1>1, <1>2, <1>3, <1>4, <1>6

LEMMA SwapFilePreserves ==
    ASSUME DownloadInv, SwapFile
    PROVE  DownloadInv'
<1>1. /\ At("swap") /\ visible' = [visible EXCEPT !.file[f] = copy[r][f]]
      /\ shown' = shown \cup {f} /\ scar' = scar \ {f} /\ job' = [job EXCEPT !.pc = "drop"]
      /\ UNCHANGED <<disk, superseded, trash, serving, trouble>>
  BY DEF SwapFile, Goto
<1>2. /\ job # None /\ job.pc = "swap" /\ job.i <= Len(job.req.files)
      /\ visible \in Trees /\ visible # None /\ Holes \ {f} \subseteq scar /\ shown \subseteq Files
  BY <1>1, Swapping
<1>3. /\ job \in Jobs /\ Len(job.req.files) \in Nat /\ job.i \in Nat /\ job.i >= 1 /\ job.unsynced = 0
      /\ r \in Revisions /\ f \in Files /\ chosen[r] = Range(job.req.files) /\ copy[r][f] = Whole(r)
      /\ \A k \in 1..(job.i - 1) : /\ job.req.files[k] \in Files /\ job.req.files[k] # f
                                   /\ visible.file[job.req.files[k]] = Whole(r)
  BY <1>2, Picking
<1>4. Whole(r) \in Contents /\ Whole(r) # None
  BY <1>3, WholeIsContent
<1>5. /\ visible' \in Trees /\ visible'.file[f] = Whole(r)
      /\ \A e \in Files : e # f => visible'.file[e] = visible.file[e]
  BY <1>1, <1>2, <1>3, <1>4, TreeUpdate
<1>6. visible' # None
  BY <1>5, Constants
<1>7. Disk' /\ CopyIsVerified' /\ JournalIsHonest' /\ chosen' = chosen
  BY <1>1, DiskKept DEF disk
<1>8. "drop" \in Steps
  BY DEF Steps
<1>9. /\ job' \in Jobs /\ job' # None /\ job'.pc = "drop" /\ job'.req = job.req /\ job'.i = job.i
      /\ job'.unsynced = 0 /\ r' = r /\ f' = f
  BY <1>1, <1>3, <1>8, Moved
<1>11. JobShape'
  BY <1>2, <1>3, <1>9, Shape
<1>12. Library'
  BY <1>1, <1>2, <1>3, <1>5, LibraryTypes DEF Library
<1>13. HolesAreKnown'
  <2>1. Holes' \subseteq scar'
    <3> SUFFICES ASSUME NEW g \in Holes'
                 PROVE  g \in scar \ {f}
      BY <1>1
    <3>1. g \in shown \cup {f} /\ visible'.file[g] = None
      BY <1>1, <1>6 DEF Holes
    <3>2. g # f /\ g \in shown /\ g \in Files
      BY <1>2, <1>4, <1>5, <3>1
    <3>3. g \in Holes
      BY <1>5, <3>1, <3>2 DEF Holes
    <3> QED BY <1>2, <3>2, <3>3
  <2> QED BY <1>9, <2>1 DEF HolesAreKnown, At
<1>14. PublishedSoFar'
  <2>1. \A k \in 1..(job'.i - 1) : visible' # None /\ visible'.file[job'.req.files[k]] = Whole(r')
    BY <1>3, <1>5, <1>6, <1>9
  <2>2. visible' # None /\ visible'.file[f'] = Whole(r')
    BY <1>5, <1>6, <1>9
  <2>3. chosen'[r'] = Range(job'.req.files)
    BY <1>3, <1>7, <1>9
  <2> QED BY <1>9, <2>1, <2>2, <2>3, SoFar
<1>15. BodyIsOne' /\ PendIsHonest' /\ OffsetIsTrue'
  BY <1>9, NotLoading DEF Loading
<1> QED BY <1>7, <1>11, <1>12, <1>13, <1>14, <1>15 DEF DownloadInv

LEMMA SwapFailsPreserves ==
    ASSUME DownloadInv, SwapFails
    PROVE  DownloadInv'
<1>1. /\ At("swap") /\ visible' = [visible EXCEPT !.file[f] = trash[r][job.i]]
      /\ trash' = [trash EXCEPT ![r][job.i] = None] /\ job' = [job EXCEPT !.pc = "failed"]
      /\ trouble < MaxTrouble /\ trouble' = trouble + 1
      /\ UNCHANGED <<disk, superseded, serving, shown, scar>>
  BY DEF SwapFails, Goto, Spend
<1>2. /\ job # None /\ job.pc = "swap" /\ job.i <= Len(job.req.files)
      /\ visible \in Trees /\ visible # None /\ Holes \ {f} \subseteq scar /\ shown \subseteq Files
      /\ f \in shown /\ trash[r][job.i] = None => f \in scar
      /\ trash[r][job.i] \in Contents \cup {None}
  BY <1>1, Swapping
<1>3. /\ job \in Jobs /\ Len(job.req.files) \in Nat /\ job.i \in Nat /\ job.i >= 1
      /\ r \in Revisions /\ f \in Files /\ job.i \in 1..Cardinality(Files)
  BY <1>2, Picking
<1>4. /\ visible' \in Trees /\ visible'.file[f] = trash[r][job.i]
      /\ \A e \in Files : e # f => visible'.file[e] = visible.file[e]
  <2> DEFINE old == trash[r][job.i]
  <2>1. visible' = [visible EXCEPT !.file[f] = old] /\ old \in Contents \cup {None}
    BY <1>1, <1>2
  <2> HIDE DEF old
  <2>2. /\ visible' \in Trees /\ visible'.file[f] = old
        /\ \A e \in Files : e # f => visible'.file[e] = visible.file[e]
    BY <1>2, <1>3, <2>1, TreeUpdate
  <2> QED BY <2>2 DEF old
<1>5. visible' # None
  BY <1>4, Constants
<1>6. Disk' /\ CopyIsVerified' /\ JournalIsHonest'
  BY <1>1, DiskKept
<1>7. "failed" \in Steps
  BY DEF Steps
<1>8. job' \in Jobs /\ job' # None /\ job'.pc = "failed" /\ job'.req = job.req /\ job'.i = job.i
  BY <1>1, <1>3, <1>7, Moved
<1>9. JobShape'
  BY <1>2, <1>3, <1>8, Shape DEF InFile
<1>10. Library'
  <2>1. /\ trash \in [Revisions -> [1..Cardinality(Files) -> Contents \cup {None}]]
        /\ superseded' \in [Revisions -> Trees \cup {None}] /\ serving' \in Revisions
        /\ shown' \subseteq Files /\ trouble \in 0..MaxTrouble
    BY <1>1, <1>2, LibraryTypes
  <2>2. trash' \in [Revisions -> [1..Cardinality(Files) -> Contents \cup {None}]]
    BY <1>1, <1>3, <2>1, Update2
  <2>3. trouble' \in 0..MaxTrouble
    BY <1>1, <2>1, Constants
  <2> QED BY <1>4, <2>1, <2>2, <2>3 DEF Library
<1>11. HolesAreKnown'
  <2>1. Holes' \subseteq scar
    <3> SUFFICES ASSUME NEW g \in Holes'
                 PROVE  g \in scar
      OBVIOUS
    <3>1. g \in shown /\ g \in Files /\ visible'.file[g] = None
      BY <1>1, <1>2, <1>5 DEF Holes
    <3>2. CASE g = f
      BY <3>1, <3>2, <1>2, <1>4
    <3>3. CASE g # f
      <4>1. g \in Holes
        BY <3>1, <3>3, <1>4 DEF Holes
      <4> QED BY <3>3, <4>1, <1>2
    <3> QED BY <3>2, <3>3
  <2> QED BY <1>1, <1>8, <2>1 DEF HolesAreKnown, At
<1>12. PublishedSoFar'
  BY <1>8 DEF PublishedSoFar
<1>13. BodyIsOne' /\ PendIsHonest' /\ OffsetIsTrue'
  BY <1>8, NotLoading DEF Loading
<1> QED BY <1>6, <1>9, <1>10, <1>11, <1>12, <1>13 DEF DownloadInv

LEMMA RollbackLostPreserves ==
    ASSUME DownloadInv, RollbackLost
    PROVE  DownloadInv'
<1>1. /\ job # None /\ job.pc \in {"install", "swap"} /\ job' = [job EXCEPT !.pc = "failed"]
      /\ trouble < MaxTrouble /\ trouble' = trouble + 1 /\ scar' = scar \cup Holes
      /\ UNCHANGED <<disk, serving, shown>>
      /\ visible' = visible /\ superseded' = superseded /\ trash' = trash
  BY DEF RollbackLost, At, Goto, Spend, tree
<1>2. /\ job \in Jobs /\ Len(job.req.files) \in Nat /\ job.i \in Nat /\ job.i <= Len(job.req.files) + 1
      /\ job.unsynced = 0
  BY <1>1, Requested, Flushed DEF DownloadInv, JobShape
<1>3. trouble' \in 0..MaxTrouble
  BY <1>1, Constants DEF DownloadInv, Library
<1>4. Disk' /\ CopyIsVerified' /\ JournalIsHonest'
  BY <1>1, DiskKept
<1>5. "failed" \in Steps
  BY DEF Steps
<1>6. job' \in Jobs /\ job' # None /\ job'.pc = "failed" /\ job'.req = job.req /\ job'.i = job.i
  BY <1>1, <1>2, <1>5, Moved
<1>7. JobShape'
  BY <1>2, <1>6, Shape DEF InFile
<1>8. Library'
  BY <1>1, <1>3 DEF DownloadInv, Library
<1>9. HolesAreKnown'
  <2>1. Holes' = Holes
    BY <1>1 DEF Holes
  <2> QED BY <1>1, <1>6, <2>1 DEF HolesAreKnown, At
<1>10. PublishedSoFar'
  BY <1>6 DEF PublishedSoFar
<1>11. BodyIsOne' /\ PendIsHonest' /\ OffsetIsTrue'
  BY <1>6, NotLoading DEF Loading
<1> QED BY <1>4, <1>7, <1>8, <1>9, <1>10, <1>11 DEF DownloadInv

LEMMA RestoreOnlyPreserves ==
    ASSUME DownloadInv, RestoreOnly
    PROVE  DownloadInv'
<1> DEFINE old == trash[r][job.i]
<1>1. /\ job # None /\ job.pc = "pick" /\ job.i <= Len(job.req.files)
      /\ visible' = [Tree EXCEPT !.file[f] = old] /\ old # None
      /\ trash' = [trash EXCEPT ![r][job.i] = None] /\ job' = [job EXCEPT !.pc = "failed"]
      /\ trouble < MaxTrouble /\ trouble' = trouble + 1
      /\ UNCHANGED <<disk, superseded, serving, shown, scar>>
  BY DEF RestoreOnly, At, Goto, Spend
<1>2. /\ job \in Jobs /\ Len(job.req.files) \in Nat /\ job.i \in Nat /\ job.unsynced = 0
      /\ r \in Revisions /\ f \in Files /\ job.i \in 1..Cardinality(Files)
  BY <1>1, Picking
<1>3. /\ trash \in [Revisions -> [1..Cardinality(Files) -> Contents \cup {None}]]
      /\ superseded' \in [Revisions -> Trees \cup {None}] /\ serving' \in Revisions
      /\ shown' \subseteq Files /\ trouble \in 0..MaxTrouble
  BY <1>1, LibraryTypes
<1>4. /\ Tree \in Trees /\ Tree # None /\ (visible # None => Tree = visible)
      /\ visible = None => \A g \in Files : Tree.file[g] = None
  BY TreeIsVisible
<1>5. old \in Contents \cup {None}
  BY <1>2, <1>3
<1> HIDE DEF old
<1>6. /\ visible' \in Trees /\ \A e \in Files : e # f => visible'.file[e] = Tree.file[e]
      /\ visible'.file[f] = old
  BY <1>1, <1>2, <1>4, <1>5, TreeUpdate
<1>7. Disk' /\ CopyIsVerified' /\ JournalIsHonest'
  BY <1>1, DiskKept
<1>8. "failed" \in Steps
  BY DEF Steps
<1>9. job' \in Jobs /\ job' # None /\ job'.pc = "failed" /\ job'.req = job.req /\ job'.i = job.i
  BY <1>1, <1>2, <1>8, Moved
<1>10. JobShape'
  BY <1>1, <1>2, <1>9, Shape DEF InFile
<1>11. Library'
  <2>1. trash' \in [Revisions -> [1..Cardinality(Files) -> Contents \cup {None}]]
    BY <1>1, <1>2, <1>3, Update2
  <2>2. trouble' \in 0..MaxTrouble
    BY <1>1, <1>3, Constants
  <2> QED BY <1>3, <1>6, <2>1, <2>2 DEF Library
<1>12. HolesAreKnown'
  <2>1. Holes \subseteq scar /\ \A g \in shown : Tree.file[g] = None => g \in Holes
    BY <1>1, <1>4 DEF DownloadInv, HolesAreKnown, Holes
  <2>2. \A g \in Holes' : g \in shown /\ Tree.file[g] = None
    BY <1>1, <1>3, <1>6, Constants DEF Holes
  <2> QED BY <1>1, <1>9, <2>1, <2>2 DEF HolesAreKnown, At
<1>13. PublishedSoFar'
  BY <1>9 DEF PublishedSoFar
<1>14. BodyIsOne' /\ PendIsHonest' /\ OffsetIsTrue'
  BY <1>9, NotLoading DEF Loading
<1> QED BY <1>7, <1>10, <1>11, <1>12, <1>13, <1>14 DEF DownloadInv

LEMMA DropTrashPreserves ==
    ASSUME DownloadInv, DropTrash
    PROVE  DownloadInv'
<1>1. /\ job # None /\ job.pc = "drop" /\ trash' = [trash EXCEPT ![r][job.i] = None]
      /\ job' = [job EXCEPT !.pc = "pick", !.i = job.i + 1]
      /\ UNCHANGED <<disk, visible, superseded, serving, shown, scar, trouble>>
  BY DEF DropTrash, At
<1>2. job.i <= Len(job.req.files)
  BY <1>1 DEF DownloadInv, JobShape, InFile
<1>3. /\ job \in Jobs /\ Len(job.req.files) \in Nat /\ job.i \in Nat /\ job.i >= 1 /\ job.unsynced = 0
      /\ r \in Revisions /\ job.i \in 1..Cardinality(Files) /\ chosen[r] = Range(job.req.files)
      /\ \A k \in 1..(job.i - 1) : visible # None /\ visible.file[job.req.files[k]] = Whole(r)
  BY <1>1, <1>2, Picking
<1>4. visible # None /\ visible.file[job.req.files[job.i]] = Whole(r)
  BY <1>1 DEF DownloadInv, PublishedSoFar, Shows, f
<1>5. Disk' /\ CopyIsVerified' /\ JournalIsHonest' /\ chosen' = chosen
  BY <1>1, DiskKept DEF disk
<1>6. "pick" \in Steps /\ job.i + 1 \in Nat \ {0}
  BY <1>3 DEF Steps
<1>7. /\ job' \in Jobs /\ job' # None /\ job'.pc = "pick" /\ job'.req = job.req /\ job'.i = job.i + 1
      /\ job'.unsynced = 0 /\ r' = r
  BY <1>1, <1>3, <1>6, Advanced
<1>8. JobShape'
  BY <1>2, <1>3, <1>7, Shape DEF InFile
<1>9. Library' /\ HolesAreKnown'
  <2>1. /\ trash \in [Revisions -> [1..Cardinality(Files) -> Contents \cup {None}]]
        /\ superseded' \in [Revisions -> Trees \cup {None}]
    BY <1>1, LibraryTypes
  <2>2. trash' \in [Revisions -> [1..Cardinality(Files) -> Contents \cup {None}]]
    BY <1>1, <1>3, <2>1, Update2
  <2> QED BY <1>1, <1>7, <2>1, <2>2, TreeKept
<1>10. PublishedSoFar'
  <2>1. \A k \in 1..(job'.i - 1) : visible' # None /\ visible'.file[job'.req.files[k]] = Whole(r')
    <3> SUFFICES ASSUME NEW k \in 1..((job.i + 1) - 1)
                 PROVE  visible # None /\ visible.file[job.req.files[k]] = Whole(r)
      BY <1>1, <1>7
    <3>1. k = job.i \/ k \in 1..(job.i - 1)
      BY <1>3
    <3> QED BY <3>1, <1>3, <1>4
  <2>2. chosen'[r'] = Range(job'.req.files)
    BY <1>3, <1>5, <1>7
  <2> QED BY <1>7, <2>1, <2>2, SoFar
<1>11. BodyIsOne' /\ PendIsHonest' /\ OffsetIsTrue'
  BY <1>7, NotLoading DEF Loading
<1> QED BY <1>5, <1>8, <1>9, <1>10, <1>11 DEF DownloadInv

LEMMA MarkSelectedPreserves ==
    ASSUME DownloadInv, MarkSelected
    PROVE  DownloadInv'
<1> DEFINE m == [rev |-> r, files |-> Range(job.req.files)]
<1>1. /\ job # None /\ job.pc = "pick" /\ job.i > Len(job.req.files)
      /\ visible' = [Tree EXCEPT !.sel = m] /\ job' = [job EXCEPT !.pc = "mark"]
      /\ UNCHANGED <<disk, superseded, trash, serving, shown, scar, trouble>>
  BY DEF MarkSelected, At, Goto
<1>2. /\ job \in Jobs /\ Len(job.req.files) \in Nat /\ job.i \in Nat /\ job.i >= 1 /\ job.unsynced = 0
      /\ r \in Revisions /\ job.i <= Len(job.req.files) + 1
      /\ \A k \in 1..(job.i - 1) : visible # None /\ visible.file[job.req.files[k]] = Whole(r)
  BY <1>1, Picking
<1>3. /\ Tree \in Trees /\ (visible # None => Tree = visible)
      /\ visible = None => \A g \in Files : Tree.file[g] = None
  BY TreeIsVisible
<1>4. m \in Selections
  BY <1>1, Requested DEF Selections
<1> HIDE DEF m
<1>5. visible' \in Trees
  BY <1>1, <1>3, <1>4 DEF Trees
<1>6. visible'.file = Tree.file
  BY <1>1, <1>3 DEF Trees
<1>7. visible' # None
  BY <1>5, Constants
<1>8. Disk' /\ CopyIsVerified' /\ JournalIsHonest'
  BY <1>1, DiskKept
<1>9. "mark" \in Steps
  BY DEF Steps
<1>10. /\ job' \in Jobs /\ job' # None /\ job'.pc = "mark" /\ job'.req = job.req /\ job'.i = job.i
       /\ job'.unsynced = 0 /\ r' = r
  BY <1>1, <1>2, <1>9, Moved
<1>11. JobShape'
  BY <1>2, <1>10, Shape DEF InFile
<1>12. Library'
  BY <1>1, <1>5, LibraryTypes DEF Library
<1>13. HolesAreKnown'
  <2>1. Holes \subseteq scar
    BY <1>1 DEF DownloadInv, HolesAreKnown
  <2>2. Holes' \subseteq Holes
    BY <1>1, <1>3, <1>6, <1>7 DEF Holes
  <2> QED BY <1>1, <1>10, <2>1, <2>2 DEF HolesAreKnown, At
<1>14. PublishedSoFar'
  <2>1. \A g \in Range(job.req.files) : visible'.file[g] = Whole(r)
    <3> SUFFICES ASSUME NEW g \in Range(job.req.files)
                 PROVE  visible'.file[g] = Whole(r)
      OBVIOUS
    <3>1. PICK k \in 1..Len(job.req.files) : g = job.req.files[k]
      BY <1>1, Requested
    <3>2. k \in 1..(job.i - 1)
      BY <1>1, <1>2
    <3> QED BY <1>2, <1>3, <1>6, <3>1, <3>2
  <2>2. Whole(r)' = Whole(r')
    BY DEF Whole
  <2> QED BY <1>7, <1>10, <2>1, <2>2 DEF PublishedSoFar, Shows
<1>15. BodyIsOne' /\ PendIsHonest' /\ OffsetIsTrue'
  BY <1>10, NotLoading DEF Loading
<1> QED BY <1>8, <1>11, <1>12, <1>13, <1>14, <1>15 DEF DownloadInv

LEMMA TidySelectedPreserves ==
    ASSUME DownloadInv, TidySelected
    PROVE  DownloadInv'
<1>1. /\ job # None /\ job.pc = "mark" /\ StagingCleared
      /\ trash' = [trash EXCEPT ![r] = [i \in DOMAIN @ |-> None]] /\ job' = [job EXCEPT !.pc = "done"]
      /\ UNCHANGED <<visible, superseded, serving, shown, scar, trouble>>
  BY DEF TidySelected, At, Goto
<1>2. /\ job \in Jobs /\ Len(job.req.files) \in Nat /\ job.i \in Nat /\ job.i <= Len(job.req.files) + 1
      /\ job.unsynced = 0 /\ r \in Revisions
  BY <1>1, Requested, Flushed DEF DownloadInv, JobShape
<1>3. Disk' /\ CopyIsVerified' /\ JournalIsHonest'
  BY <1>1, Cleared
<1>4. "done" \in Steps
  BY DEF Steps
<1>5. /\ job' \in Jobs /\ job' # None /\ job'.pc = "done" /\ job'.req = job.req /\ job'.i = job.i
      /\ job'.unsynced = 0 /\ r' = r
  BY <1>1, <1>2, <1>4, Moved
<1>6. JobShape'
  BY <1>2, <1>5, Shape DEF InFile
<1>7. Library' /\ HolesAreKnown'
  <2>1. superseded' \in [Revisions -> Trees \cup {None}]
    BY <1>1, LibraryTypes
  <2>2. trash' \in [Revisions -> [1..Cardinality(Files) -> Contents \cup {None}]]
    BY <1>1, TrashEmptied
  <2> QED BY <1>1, <1>5, <2>1, <2>2, TreeKept
<1>8. PublishedSoFar'
  <2>1. \A g \in Range(job.req.files) : visible # None /\ visible.file[g] = Whole(r)
    BY <1>1 DEF DownloadInv, PublishedSoFar, Shows
  <2>2. Whole(r)' = Whole(r)
    BY <1>5 DEF Whole
  <2> QED BY <1>1, <1>5, <2>1, <2>2 DEF PublishedSoFar, Shows
<1>9. BodyIsOne' /\ PendIsHonest' /\ OffsetIsTrue'
  BY <1>5, NotLoading DEF Loading
<1> QED BY <1>3, <1>6, <1>7, <1>8, <1>9 DEF DownloadInv

-----------------------------------------------------------------------------
(* The beginning and the end of a job, the device, and crashes.            *)

LEMMA StartJobPreserves ==
    ASSUME DownloadInv, NEW q \in Requests, StartJob(q)
    PROVE  DownloadInv'
<1>1. job = None /\ job' = Fresh(q) /\ UNCHANGED <<disk, tree, serving, shown, scar, trouble>>
  BY DEF StartJob
<1>2. job' \in Jobs
  <2>1. 0 \in 0..Size /\ 0 \in Nat /\ 1 \in Nat \ {0}
    BY Constants
  <2> QED BY <1>1, <2>1 DEF Fresh, Jobs, Steps
<1>3. job'.pc = "file" /\ job'.req = q /\ job'.i = 1 /\ job'.unsynced = 0
  BY <1>1 DEF Fresh
<1>4. Len(q.files) \in Nat
  BY DownloadAssumption, LenProperties
<1>5. JobShape'
  BY <1>2, <1>3, <1>4, Shape DEF InFile
<1>6. serving' \in Revisions /\ trouble' \in 0..MaxTrouble
  BY <1>1 DEF DownloadInv, Library
<1>7. Library' /\ HolesAreKnown' /\ PublishedSoFar'
  BY <1>1, <1>3, <1>6, NotPublishing DEF Publishing
<1>8. BodyIsOne' /\ PendIsHonest' /\ OffsetIsTrue'
  BY <1>3, NotLoading DEF Loading
<1>9. Disk' /\ CopyIsVerified' /\ JournalIsHonest'
  BY <1>1, DiskKept
<1> QED BY <1>5, <1>7, <1>8, <1>9 DEF DownloadInv

LEMMA EndJobPreserves ==
    ASSUME DownloadInv, EndJob
    PROVE  DownloadInv'
<1>1. /\ job # None /\ job.pc \in {"done", "failed", "refused"} /\ job' = None
      /\ UNCHANGED <<disk, tree, serving, shown, scar, trouble>>
  BY DEF EndJob
<1>2. serving' \in Revisions /\ trouble' \in 0..MaxTrouble
  BY <1>1 DEF DownloadInv, Library
<1>3. Library' /\ HolesAreKnown' /\ PublishedSoFar'
  BY <1>1, <1>2, NotPublishing
<1>4. BodyIsOne' /\ PendIsHonest' /\ OffsetIsTrue' /\ JobShape'
  BY <1>1, NotLoading, NoJob
<1>5. Disk' /\ CopyIsVerified' /\ JournalIsHonest'
  BY <1>1, DiskKept
<1> QED BY <1>3, <1>4, <1>5 DEF DownloadInv

(* Nothing of the job, the staging areas and the library changes. *)
LEMMA OutsidePreserves ==
    ASSUME DownloadInv, UNCHANGED <<disk, tree, job, shown, scar>>,
           serving' \in Revisions, trouble' \in 0..MaxTrouble
    PROVE  DownloadInv'
<1>1. /\ part' = part /\ journal' = journal /\ chosen' = chosen /\ visible' = visible /\ seal' = seal
      /\ superseded' = superseded /\ trash' = trash /\ job' = job /\ shown' = shown /\ scar' = scar
  BY DEF disk, tree
<1>2. Disk' /\ CopyIsVerified' /\ JournalIsHonest'
  BY DiskKept
<1>3. r' = r /\ f' = f /\ Holes' = Holes
  BY <1>1 DEF r, f, Holes
<1>4. JobShape'
  BY <1>1 DEF DownloadInv, JobShape
<1>5. Library'
  BY <1>1 DEF DownloadInv, Library
<1>6. BodyIsOne'
  BY <1>1, <1>3 DEF DownloadInv, BodyIsOne, InBody
<1>7. PendIsHonest'
  BY <1>1, <1>3 DEF DownloadInv, PendIsHonest
<1>8. OffsetIsTrue'
  BY <1>1, <1>3 DEF DownloadInv, OffsetIsTrue
<1>9. HolesAreKnown'
  BY <1>1, <1>3 DEF DownloadInv, HolesAreKnown, At
<1>10. PublishedSoFar'
  <2>1. Whole(r)' = Whole(r)
    BY <1>3 DEF Whole
  <2> QED BY <1>1, <1>3, <2>1 DEF DownloadInv, PublishedSoFar, Shows
<1> QED BY <1>2, <1>4, <1>5, <1>6, <1>7, <1>8, <1>9, <1>10 DEF DownloadInv

(* The part file after a crash is a prefix of what it was, and so is what *)
(* the journal confirms of it.                                            *)
LEMMA CrashPreserves ==
    ASSUME DownloadInv, Crash
    PROVE  DownloadInv'
<1>1. /\ job # None /\ job' = None /\ trouble < MaxTrouble /\ trouble' = trouble + 1
      /\ scar' = scar \cup Holes
      /\ UNCHANGED <<journal, tmp, copy, seal, chosen, tree, serving, shown>>
  BY DEF Crash, Spend
<1>2. BodyIsOne' /\ PendIsHonest' /\ OffsetIsTrue' /\ JobShape'
  BY <1>1, NotLoading, NoJob
<1>3. Library'
  <2>1. trouble' \in 0..MaxTrouble
    BY <1>1, LibraryTypes, Constants
  <2> QED BY <1>1, <2>1 DEF DownloadInv, Library, tree
<1>4. HolesAreKnown'
  <2>1. Holes' = Holes
    BY <1>1 DEF Holes, tree
  <2> QED BY <1>1, <2>1 DEF HolesAreKnown, At
<1>5. PublishedSoFar'
  BY <1>1 DEF PublishedSoFar
<1>6. Disk' /\ CopyIsVerified' /\ JournalIsHonest'
  <2>1. CASE ~(job.pc = "body" /\ job.unsynced > 0)
    <3>1. part' = part
      BY <2>1 DEF Crash
    <3> QED BY <1>1, <3>1, DiskKept DEF disk
  <2>2. CASE job.pc = "body" /\ job.unsynced > 0
    <3> DEFINE now == part[r][f]
    <3>1. PICK n \in (Len(now) - job.unsynced)..Len(now) : part' = [part EXCEPT ![r][f] = SubSeq(now, 1, n)]
      BY <2>2 DEF Crash
    <3>2. job.i <= Len(job.req.files)
      BY <1>1, <2>2 DEF DownloadInv, JobShape, InFile
    <3>3. now # None /\ job.unsynced <= Len(now)
      BY <1>1, <2>2 DEF DownloadInv, BodyIsOne, InBody
    <3>4. job.unsynced \in Nat
      BY <1>1, Requested DEF Jobs
    <3>5. /\ r \in Revisions /\ f \in Files /\ now \in Contents
          /\ part \in [Revisions -> [Files -> Contents \cup {None}]]
          /\ journal' \in [Revisions -> [Files -> Journals \cup {None}]] /\ tmp' \in [Revisions -> SUBSET Files]
          /\ journal' = journal
      BY <1>1, <3>2, <3>3, AtFile
    <3>6. Len(now) \in Nat
      BY <3>5, ContentIsSeq
    <3> HIDE DEF now
    <3>7. n \in 0..Len(now) /\ n \in Nat
      BY <3>1, <3>3, <3>4, <3>6
    <3> DEFINE cut == SubSeq(now, 1, n)
    <3>8. cut \in Contents /\ Len(cut) = n /\ \A k \in 1..n : cut[k] = now[k]
      BY <3>5, <3>7, Prefix
    <3>9. part' = [part EXCEPT ![r][f] = cut]
      BY <3>1
    <3> HIDE DEF cut
    <3>10. /\ part' \in [Revisions -> [Files -> Contents \cup {None}]] /\ part'[r][f] = cut
           /\ \A c \in Revisions, e \in Files : c # r \/ e # f => part'[c][e] = part[c][e]
      BY <3>5, <3>8, <3>9, Update2
    <3>11. ASSUME journal[r][f] # None, NEW k \in 1..Lesser(journal[r][f].off, n)
           PROVE  cut[k] = journal[r][f].etag
      <4>1. journal[r][f].off \in Nat
        BY <1>1, <3>2, <3>11, AtFile, Constants
      <4>2. k \in 1..n /\ k \in 1..Lesser(journal[r][f].off, Len(now))
        BY <3>6, <3>7, <4>1 DEF Lesser
      <4>3. now[k] = journal[r][f].etag
        BY <3>3, <3>5, <3>11, <4>2 DEF DownloadInv, JournalIsHonest, now
      <4> QED BY <3>8, <4>2, <4>3
    <3>12. \A c \in Revisions, e \in Files :
               c # r \/ e # f => part'[c][e] = part[c][e] /\ journal'[c][e] = journal[c][e]
      BY <3>5, <3>10
    <3>13. journal'[r][f] # None /\ part'[r][f] # None =>
               \A k \in 1..Lesser(journal'[r][f].off, Len(part'[r][f])) :
                   part'[r][f][k] = journal'[r][f].etag
      BY <3>5, <3>8, <3>10, <3>11
    <3> QED BY <1>1, <3>5, <3>10, <3>12, <3>13, OnePart
  <2> QED BY <2>1, <2>2
<1> QED BY <1>2, <1>3, <1>4, <1>5, <1>6 DEF DownloadInv

LEMMA InitHolds ==
    ASSUME DownloadInit
    PROVE  DownloadInv
<1>1. /\ part = [v \in Revisions |-> [g \in Files |-> None]]
      /\ journal = [v \in Revisions |-> [g \in Files |-> None]]
      /\ tmp = [v \in Revisions |-> {}]
      /\ copy = [v \in Revisions |-> [g \in Files |-> None]]
      /\ seal = [v \in Revisions |-> FALSE]
      /\ chosen = [v \in Revisions |-> None]
      /\ visible = None
      /\ superseded = [v \in Revisions |-> None]
      /\ trash = [v \in Revisions |-> [i \in 1..Cardinality(Files) |-> None]]
      /\ serving \in Revisions /\ job = None /\ shown = {} /\ scar = {} /\ trouble = 0
  BY DEF DownloadInit
<1>2. Disk
  <2>1. None \in (SUBSET Files) \cup {None}
    OBVIOUS
  <2>2. chosen \in [Revisions -> (SUBSET Files) \cup {None}]
    BY <1>1, <2>1
  <2> QED BY <1>1, <2>2 DEF Disk
<1>3. Library
  <2>1. 0 \in 0..MaxTrouble
    BY Constants
  <2> QED BY <1>1, <2>1 DEF Library
<1>4. CopyIsVerified
  BY <1>1 DEF CopyIsVerified
<1>5. JournalIsHonest
  BY <1>1 DEF JournalIsHonest
<1>6. HolesAreKnown
  BY <1>1 DEF HolesAreKnown, Holes, At
<1>7. JobShape /\ BodyIsOne /\ PendIsHonest /\ OffsetIsTrue /\ PublishedSoFar
  BY <1>1 DEF JobShape, BodyIsOne, InBody, PendIsHonest, OffsetIsTrue, PublishedSoFar
<1> QED BY <1>2, <1>3, <1>4, <1>5, <1>6, <1>7 DEF DownloadInv

LEMMA NextPreserves ==
    ASSUME DownloadInv, [DownloadNext]_vars
    PROVE  DownloadInv'
<1>1. ASSUME Step PROVE DownloadInv'
  BY <1>1, InspectFilePreserves, EndOfFilesPreserves, RecoverOffsetPreserves, AskPreserves,
     DiscardPartPreserves, DiscardJournalPreserves, ReceiveBlockPreserves, EndOfBodyPreserves,
     WriteJournalPreserves, RenameJournalPreserves, CheckPartPreserves, CleanJournalPreserves,
     SealPreserves, PublishWholePreserves, InstallTreePreserves, TidyWholePreserves,
     PublishSelectedPreserves, PickFilePreserves, SwapFilePreserves, DropTrashPreserves,
     MarkSelectedPreserves, TidySelectedPreserves, EndJobPreserves DEF Step
<1>2. ASSUME NEW q \in Requests, StartJob(q) PROVE DownloadInv'
  BY <1>2, StartJobPreserves
<1>3. ASSUME InstallFails \/ SwapFails \/ RollbackLost \/ RestoreOnly \/ SourceFails \/ Crash
      PROVE  DownloadInv'
  BY <1>3, InstallFailsPreserves, SwapFailsPreserves, RollbackLostPreserves, RestoreOnlyPreserves,
     SourceFailsPreserves, CrashPreserves
<1>4. ASSUME NEW v \in Revisions, Republish(v) PROVE DownloadInv'
  <2>1. /\ serving' = v /\ trouble < MaxTrouble /\ trouble' = trouble + 1
        /\ UNCHANGED <<disk, tree, job, shown, scar>>
    BY <1>4 DEF Republish, Spend
  <2>2. trouble' \in 0..MaxTrouble
    BY <2>1, Constants DEF DownloadInv, Library
  <2> QED BY <2>1, <2>2, OutsidePreserves
<1>5. ASSUME UNCHANGED vars PROVE DownloadInv'
  <2>1. UNCHANGED <<disk, tree, job, shown, scar>> /\ serving' = serving /\ trouble' = trouble
    BY <1>5 DEF vars, disk, tree
  <2>2. serving' \in Revisions /\ trouble' \in 0..MaxTrouble
    BY <2>1 DEF DownloadInv, Library
  <2> QED BY <2>1, <2>2, OutsidePreserves
<1> QED BY <1>1, <1>2, <1>3, <1>4, <1>5 DEF DownloadNext

-----------------------------------------------------------------------------
(* The theorems.                                                           *)

(* The inductive invariant: the state of the staging areas, of the library *)
(* and of the job, and what ties them together at every step of download_file *)
(* and commit_staged_session, across crashes and republications.           *)
THEOREM DownloadInvariant == DownloadSpec => []DownloadInv
  BY InitHolds, NextPreserves, PTL DEF DownloadSpec

(* Every variable of the download and of the library keeps its type: no file *)
(* grows beyond its size and no job looks past the end of its list.        *)
THEOREM DownloadTypes == DownloadSpec => []DownloadTypeOK
<1>1. DownloadInv => DownloadTypeOK
  BY DEF DownloadInv, Disk, Library, JobShape, DownloadTypeOK
<1> QED BY <1>1, DownloadInvariant, PTL

(* Whatever the crashes, failures and republications, what a journal confirms *)
(* is of the one revision that its ETag names, so that the bytes a resumed *)
(* request skips are the right ones (download_file, recover_resume_offset). *)
THEOREM ResumeIsSafe == DownloadSpec => []JournalIsHonest
<1>1. DownloadInv => JournalIsHonest
  BY DEF DownloadInv
<1> QED BY <1>1, DownloadInvariant, PTL

(* A failed rename of SealedRevision::publish or publish_selected_file loses *)
(* no file that the library has shown: only a crash between the two renames, *)
(* a failed flush between them or a failed rollback can.                   *)
THEOREM RollbackIsWhole == DownloadSpec => []NoNeedlessHole
<1>1. DownloadInv => NoNeedlessHole
  BY DEF DownloadInv, HolesAreKnown, NoNeedlessHole
<1> QED BY <1>1, DownloadInvariant, PTL

(* A job that reports a publication of its own has left exactly its revision *)
(* of each of its files in the library (commit_staged_session).            *)
THEOREM PublicationIsExact == DownloadSpec => []PublishedIsExact
<1>1. DownloadInv => PublishedIsExact
  BY DEF DownloadInv, PublishedSoFar, PublishedIsExact, Shows, At
<1> QED BY <1>1, DownloadInvariant, PTL

=============================================================================

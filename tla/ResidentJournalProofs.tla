------------------------ MODULE ResidentJournalProofs ------------------------
(* TLAPS proofs about ResidentJournal for any items, programs and bounds.    *)
(* Recoverable is not inductive: why every pair of files a loss can leave is *)
(* readable depends on what the cursor in memory knows of the files at each  *)
(* place of a save.  IInv adds that, in the parts below.                     *)
EXTENDS ResidentJournal, SequenceTheorems, WellFoundedInduction, TLAPS

\* The file a directory entry names is one of the contents the medium may hold.
FilesPart == base \in baseDisk /\ log \in logDisk

\* Which job may be under way.  A process that is down remembers nothing.
JobPart ==
    /\ up = "down" => cur = NoCursor /\ ~refused /\ job = NoJob
    /\ job.kind \in {"restore", "resetBase"} => job.rebase
    /\ refused /\ job # NoJob => job.kind = "resetBase"
    /\ job.at = "staging" => job.kind \in {"reset", "resetBase"} /\ job.rebase = refused
    /\ job.at \notin {"free", "staging", "start"} => ~cur.uncertain
    /\ job.at \in {"partly", "whole"} => ~job.rebase /\ ~refused /\ ~spoilt
    /\ job # NoJob =>
        job.snap \in tried \/ (job.snap = acked /\ tried = {} /\ ~spoilt)

\* The base has been replaced, synced, and its journal unlinked.
PublishPart ==
    /\ job.at = "replaced" => base = NewBase
    /\ job.at \in {"published", "unlinked"} =>
        /\ baseDisk = {base}
        /\ base = [seq |-> cur.seq, val |-> job.snap, spec |-> spec]
        /\ cur.known /\ cur.val = job.snap /\ cur.spec = spec /\ cur.seq > 0
    /\ job.at = "unlinked" => log = NoLog

Bare(recs) == [recs |-> recs, torn |-> FALSE]

\* The cursor is where the base and these records lead to.
Fits(recs) ==
    /\ base # NoBase /\ cur.known /\ base.spec = spec /\ cur.spec = spec
    /\ \A i \in 1..Len(recs) : recs[i].seq = base.seq + i
    /\ cur.seq = base.seq + Len(recs)
    /\ cur.val = ReplayValue(base, Bare(recs))

Front(recs) == SubSeq(recs, 1, Len(recs) - 1)

\* A record is being appended to a journal the cursor fits.
AppendPart ==
    /\ job.at = "partly" =>
        /\ baseDisk = {base} /\ Fits(log.recs) /\ cur.seq < MaxSeq
        /\ \A l \in logDisk : l.recs = log.recs
    /\ job.at = "whole" =>
        /\ baseDisk = {base} /\ log.recs # <<>> /\ ~log.torn /\ Fits(Front(log.recs))
        /\ log.recs[Len(log.recs)] = Record
        /\ \A l \in logDisk : l.recs \in {log.recs, Front(log.recs)}
        /\ \E l \in logDisk : l.recs = Front(log.recs)

\* A cursor the next save may append with: nothing failed since the last save,
\* which synced both files.
Sure ==
    /\ up = "up" /\ ~refused /\ ~cur.uncertain /\ ~job.rebase
    /\ job.at \in {"free", "staging", "start"}

CursorPart ==
    Sure /\ cur.known =>
        ~spoilt /\ baseDisk = {base} /\ logDisk = {log} /\ ~log.torn /\ Fits(log.recs)

\* Every pair of files a loss can leave, as long as no directory was left unsynced:
\* no other part of the invariant looks at the older files.
PairsPart ==
    ~spoilt => \A b \in baseDisk, l \in logDisk :
        Readable(b, l) /\ ReplayValue(b, l) \in {acked} \cup tried

\* No record a loss can leave is beyond the next sequence number, so a new base
\* covers them all; a cursor that is not uncertain knows that number.
HorizonPart ==
    ~spoilt =>
        /\ \A l \in logDisk : \A i \in 1..Len(l.recs) : l.recs[i].seq <= ReplaySeq(base, log) + 1
        /\ up # "down" /\ ~cur.uncertain =>
            ReplaySeq(base, log) = IF job.at \in {"replaced", "whole"} THEN cur.seq + 1 ELSE cur.seq

IInv ==
    /\ TypeOK /\ FilesPart /\ JobPart /\ PublishPart /\ AppendPart /\ CursorPart
    /\ PairsPart /\ HorizonPart

-----------------------------------------------------------------------------
(* Maxima                                                                    *)

LEMMA LeastNatural ==
    ASSUME NEW T \in SUBSET Nat, T # {}
    PROVE  \E x \in T : \A y \in T : x <= y
<1> DEFINE Less == {ss \in Nat \X Nat : ss[1] < ss[2]}
<1>1. IsWellFoundedOn(Less, Nat)
  BY NatLessThanWellFounded DEF OpToRel
<1>2. PICK x \in T : \A y \in T : ~(<<y, x>> \in Less)
  <2> HIDE DEF Less
  <2> QED BY <1>1, WFMin
<1>3. ASSUME NEW y \in T PROVE x <= y
  <2>1. <<y, x>> \in Nat \X Nat /\ <<y, x>>[1] = y /\ <<y, x>>[2] = x
    OBVIOUS
  <2>2. ~(y < x)
    BY <1>2, <2>1
  <2> QED BY <2>2
<1> QED BY <1>3

LEMMA MaxBounded ==
    ASSUME NEW k \in Int, NEW S \in SUBSET Int, S # {}, \A x \in S : x <= k
    PROVE  Max(S) \in S /\ \A y \in S : Max(S) >= y
<1> DEFINE T == {n \in Nat : k - n \in S}
<1>1. PICK s \in S : TRUE OBVIOUS
<1>2. k - s \in T BY <1>1
<1>3. PICK t \in T : \A y \in T : t <= y
  <2> HIDE DEF T
  <2>1. T \in SUBSET Nat BY DEF T
  <2> QED BY <1>2, <2>1, LeastNatural
<1>4. k - t \in S /\ \A y \in S : k - t >= y
  <2>1. ASSUME NEW y \in S PROVE k - t >= y
    <3>1. k - y \in T OBVIOUS
    <3> QED BY <3>1, <1>3
  <2> QED BY <1>3, <2>1
<1>5. \E m \in S : \A y \in S : m >= y
  BY <1>4
<1> QED BY <1>5 DEF Max

LEMMA MaxIs ==
    ASSUME NEW S \in SUBSET Int, NEW m \in S, \A y \in S : m >= y
    PROVE  Max(S) = m
<1>1. Max(S) \in S /\ \A y \in S : Max(S) >= y
  <2>1. \E x \in S : \A y \in S : x >= y
    OBVIOUS
  <2> QED BY <2>1 DEF Max
<1>2. Max(S) >= m /\ m >= Max(S) /\ Max(S) \in Int /\ m \in Int
  BY <1>1
<1> QED BY <1>2

-----------------------------------------------------------------------------
(* What replaying a journal over a base yields                               *)

KnownBases == [seq : Sequences0, val : Values, spec : SpecIds]

LEMMA RecordTypes ==
    ASSUME NEW l \in Logs
    PROVE  /\ l.recs \in Seq(Records) /\ Len(l.recs) \in Nat
           /\ \A i \in 1..Len(l.recs) :
                /\ l.recs[i] \in Records /\ l.recs[i].seq \in Nat
                /\ l.recs[i].seq \in Sequences0 /\ l.recs[i].seq <= MaxSeq + 1
<1>1. l.recs \in Seq(Records) /\ Len(l.recs) \in Nat
  BY DEF Logs
<1>2. ASSUME NEW i \in 1..Len(l.recs)
      PROVE  l.recs[i] \in Records /\ l.recs[i].seq \in Sequences0
  <2>1. l.recs[i] \in Records
    BY <1>1, <1>2
  <2> QED BY <2>1 DEF Records
<1> QED BY <1>1, <1>2, BoundAssumption DEF Sequences0

(* The sequence reached is the largest of the base's and those applied.      *)
LEMMA ReachedIsLargest ==
    ASSUME NEW b \in KnownBases, NEW l \in Logs, NEW i \in Int
    PROVE  /\ Reached(b, l, i) \in Sequences0
           /\ Reached(b, l, i) >= b.seq
           /\ \A k \in Uncovered(b, l) : k < i => Reached(b, l, i) >= l.recs[k].seq
           /\ \/ Reached(b, l, i) = b.seq
              \/ \E k \in Uncovered(b, l) : k < i /\ Reached(b, l, i) = l.recs[k].seq
<1> DEFINE S == {b.seq} \cup {l.recs[j].seq : j \in {k \in Uncovered(b, l) : k < i}}
<1>1. b.seq \in Sequences0 /\ b.seq \in Int /\ MaxSeq + 1 \in Int /\ b.seq <= MaxSeq + 1
  BY BoundAssumption DEF KnownBases, Sequences0
<1>2. \A x \in S : x \in Sequences0
  BY <1>1, RecordTypes DEF Uncovered
<1>3. S \in SUBSET Int /\ \A x \in S : x <= MaxSeq + 1
  BY <1>2, BoundAssumption DEF Sequences0
<1>4. S # {} OBVIOUS
<1>5. Max(S) \in S /\ \A y \in S : Max(S) >= y
  <2> HIDE DEF S
  <2> QED BY <1>1, <1>3, <1>4, MaxBounded
<1>6. Reached(b, l, i) = Max(S)
  BY DEF Reached
<1>7. Max(S) \in Sequences0
  BY <1>2, <1>5
<1>8. Max(S) >= b.seq
  BY <1>5
<1>9. \A k \in Uncovered(b, l) : k < i => Max(S) >= l.recs[k].seq
  BY <1>5
<1>10. Max(S) = b.seq \/ \E k \in Uncovered(b, l) : k < i /\ Max(S) = l.recs[k].seq
  BY <1>5
<1> HIDE DEF S
<1> QED BY <1>6, <1>7, <1>8, <1>9, <1>10

(* No record is beyond the sequence a replay ends with.                      *)
LEMMA ReplayReachesAll ==
    ASSUME NEW b \in KnownBases, NEW l \in Logs
    PROVE  /\ ReplaySeq(b, l) \in Sequences0 /\ ReplaySeq(b, l) >= b.seq
           /\ \A i \in 1..Len(l.recs) : l.recs[i].seq <= ReplaySeq(b, l)
<1>1. Len(l.recs) \in Nat /\ b.seq \in Nat /\ \A i \in 1..Len(l.recs) : l.recs[i].seq \in Nat
  BY RecordTypes, BoundAssumption DEF KnownBases, Sequences0
<1>2. Len(l.recs) + 1 \in Int BY <1>1
<1>3. /\ ReplaySeq(b, l) \in Sequences0 /\ ReplaySeq(b, l) >= b.seq
      /\ \A k \in Uncovered(b, l) : k < Len(l.recs) + 1 => ReplaySeq(b, l) >= l.recs[k].seq
  BY <1>2, ReachedIsLargest DEF ReplaySeq
<1>4. ReplaySeq(b, l) \in Nat
  BY <1>3, BoundAssumption DEF Sequences0
<1>5. ASSUME NEW i \in 1..Len(l.recs) PROVE l.recs[i].seq <= ReplaySeq(b, l)
  <2>1. CASE i \in Uncovered(b, l)
    BY <1>1, <1>3, <1>4, <2>1
  <2>2. CASE i \notin Uncovered(b, l)
    <3>1. l.recs[i].seq <= b.seq BY <1>1, <2>2 DEF Uncovered
    <3> QED BY <1>1, <1>3, <1>4, <3>1
  <2> QED BY <2>1, <2>2
<1> QED BY <1>3, <1>5

(* A base that covers every record is what the replay yields.                *)
LEMMA CoveredReplay ==
    ASSUME NEW b \in KnownBases, NEW l \in Logs,
           \A i \in 1..Len(l.recs) : l.recs[i].seq <= b.seq /\ l.recs[i] # Garbage
    PROVE  /\ LogReadable(b, l) /\ ReplaySeq(b, l) = b.seq /\ ReplayValue(b, l) = b.val
<1>1. b.seq \in Nat /\ b.val \subseteq Item
  BY BoundAssumption DEF KnownBases, Sequences0, Values
<1>2. Uncovered(b, l) = {}
  BY <1>1, RecordTypes DEF Uncovered
<1>3. LogReadable(b, l)
  BY <1>2 DEF LogReadable
<1>4. Len(l.recs) + 1 \in Int
  BY RecordTypes
<1>5. ReplaySeq(b, l) = b.seq
  BY <1>2, <1>4, ReachedIsLargest DEF ReplaySeq
<1>6. \A x : Holds(b, l, Len(l.recs), x) <=> x \in b.val
  BY <1>2 DEF Holds
<1> QED BY <1>1, <1>3, <1>5, <1>6 DEF ReplayValue

(* A line that is torn or not changes nothing but its own fate.              *)
LEMMA SameRecords ==
    ASSUME NEW b, NEW l, NEW m, l.recs = m.recs
    PROVE  /\ LogReadable(b, l) <=> LogReadable(b, m)
           /\ ReplaySeq(b, l) = ReplaySeq(b, m) /\ ReplayValue(b, l) = ReplayValue(b, m)
<1>1. Uncovered(b, l) = Uncovered(b, m)
  BY DEF Uncovered
<1>2. \A i : Reached(b, l, i) = Reached(b, m, i)
  BY <1>1 DEF Reached
<1>3. \A n, x : Holds(b, l, n, x) <=> Holds(b, m, n, x)
  BY <1>1 DEF Holds
<1> QED BY <1>1, <1>2, <1>3 DEF LogReadable, ReplaySeq, ReplayValue

(* A record with the next sequence number leads from the value before it to  *)
(* the value after it, and spoils no earlier one.                            *)
LEMMA AppendReplay ==
    ASSUME NEW b \in KnownBases, NEW l \in Logs, NEW m \in Logs, NEW r \in Records,
           m.recs = Append(l.recs, r), r.seq = ReplaySeq(b, l) + 1
    PROVE  /\ ReplaySeq(b, m) = r.seq
           /\ ReplayValue(b, m) = (ReplayValue(b, l) \ r.del) \cup (r.add \cap Item)
           /\ LogReadable(b, l) /\ r # Garbage /\ r.spec = b.spec /\ r.del \subseteq ReplayValue(b, l)
              => LogReadable(b, m)
<1> DEFINE n == Len(l.recs)
<1>1. /\ n \in Nat /\ Len(m.recs) = n + 1 /\ m.recs[n + 1] = r
      /\ \A i \in 1..n : m.recs[i] = l.recs[i]
  BY RecordTypes
<1>2. ReplaySeq(b, l) \in Nat /\ b.seq \in Nat /\ r.seq \in Nat /\ r.seq > b.seq
  BY ReplayReachesAll, BoundAssumption DEF KnownBases, Sequences0
<1>3. Uncovered(b, m) = Uncovered(b, l) \cup {n + 1}
  BY <1>1, <1>2 DEF Uncovered
<1>u. \A k \in Uncovered(b, l) : k \in 1..n
  BY DEF Uncovered
<1>4. ASSUME NEW i \in 1..(n + 1) PROVE Reached(b, m, i) = Reached(b, l, i)
  <2>1. {k \in Uncovered(b, m) : k < i} = {k \in Uncovered(b, l) : k < i}
    BY <1>1, <1>3
  <2>2. {m.recs[j].seq : j \in {k \in Uncovered(b, l) : k < i}}
        = {l.recs[j].seq : j \in {k \in Uncovered(b, l) : k < i}}
    BY <1>1, <1>u
  <2> QED BY <2>1, <2>2 DEF Reached
<1>5. ASSUME NEW k \in 0..n, NEW x PROVE Holds(b, m, k, x) <=> Holds(b, l, k, x)
  <2> DEFINE T == {j \in Uncovered(b, l) : j <= k /\ x \in l.recs[j].add \cup l.recs[j].del}
  <2>1. {j \in Uncovered(b, m) : j <= k /\ x \in m.recs[j].add \cup m.recs[j].del} = T
    BY <1>1, <1>3, <1>u
  <2>2. CASE T = {}
    BY <2>1, <2>2 DEF Holds
  <2>3. CASE T # {}
    <3>1. Max(T) \in T
      <4>1. T \in SUBSET Int /\ n \in Int /\ \A y \in T : y <= n
        BY <1>1, <1>u
      <4> HIDE DEF T
      <4> QED BY <4>1, <2>3, MaxBounded
    <3>2. m.recs[Max(T)] = l.recs[Max(T)]
      BY <3>1, <1>1, <1>u
    <3>3. Holds(b, l, k, x) <=> x \in l.recs[Max(T)].add
      BY <2>3 DEF Holds
    <3>4. Holds(b, m, k, x) <=> x \in m.recs[Max(T)].add
      BY <2>1, <2>3 DEF Holds
    <3> QED BY <3>2, <3>3, <3>4
  <2> QED BY <2>2, <2>3
<1>6. ASSUME NEW x
      PROVE  Holds(b, m, n + 1, x)
             <=> IF x \in r.add \cup r.del THEN x \in r.add ELSE Holds(b, l, n, x)
  <2> DEFINE T == {j \in Uncovered(b, m) : j <= n + 1 /\ x \in m.recs[j].add \cup m.recs[j].del}
             U == {j \in Uncovered(b, m) : j <= n /\ x \in m.recs[j].add \cup m.recs[j].del}
  <2>1. CASE x \in r.add \cup r.del
    <3>1. n + 1 \in T /\ T \in SUBSET Int /\ \A y \in T : n + 1 >= y
      BY <1>1, <1>3, <1>u, <2>1
    <3>2. Max(T) = n + 1
      <4> HIDE DEF T
      <4> QED BY <3>1, MaxIs
    <3>3. Holds(b, m, n + 1, x) <=> x \in m.recs[Max(T)].add
      BY <3>1 DEF Holds
    <3> QED BY <3>2, <3>3, <1>1, <2>1
  <2>2. CASE x \notin r.add \cup r.del
    <3>1. T = U
      BY <1>1, <1>3, <1>u, <2>2
    <3>2. Holds(b, m, n + 1, x) <=> Holds(b, m, n, x)
      BY <3>1 DEF Holds
    <3> QED BY <3>2, <1>5, <1>1, <2>2
  <2> QED BY <2>1, <2>2
<1>7. ReplaySeq(b, m) = r.seq
  <2>1. /\ ReplaySeq(b, m) \in Nat
        /\ \A i \in 1..(n + 1) : m.recs[i].seq <= ReplaySeq(b, m)
    <3>1. /\ ReplaySeq(b, m) \in Sequences0
          /\ \A i \in 1..Len(m.recs) : m.recs[i].seq <= ReplaySeq(b, m)
      BY ReplayReachesAll
    <3>2. ReplaySeq(b, m) \in Nat
      BY <3>1, BoundAssumption DEF Sequences0
    <3> QED BY <3>1, <3>2, <1>1
  <2>2. r.seq <= ReplaySeq(b, m)
    BY <2>1, <1>1
  <2>3. \/ ReplaySeq(b, m) = b.seq
        \/ \E k \in Uncovered(b, m) : k < n + 2 /\ ReplaySeq(b, m) = m.recs[k].seq
    <3>1. n + 2 \in Int /\ Len(m.recs) + 1 = n + 2 BY <1>1
    <3> QED BY <3>1, ReachedIsLargest DEF ReplaySeq
  <2>4. \A k \in 1..n : m.recs[k].seq <= ReplaySeq(b, l)
    BY <1>1, ReplayReachesAll
  <2>5. ReplaySeq(b, m) <= r.seq
    BY <2>1, <2>3, <2>4, <1>1, <1>2, <1>3, <1>u
  <2> QED BY <2>1, <2>2, <2>5, <1>2
<1>8. ReplayValue(b, m) = (ReplayValue(b, l) \ r.del) \cup (r.add \cap Item)
  BY <1>1, <1>6 DEF ReplayValue
<1>9. ASSUME LogReadable(b, l), r # Garbage, r.spec = b.spec, r.del \subseteq ReplayValue(b, l)
      PROVE  LogReadable(b, m)
  <2> SUFFICES ASSUME NEW i \in 1..(n + 1)
               PROVE  /\ m.recs[i] # Garbage
                      /\ i \in Uncovered(b, m) =>
                          /\ m.recs[i].seq = Reached(b, m, i) + 1
                          /\ m.recs[i].spec = b.spec
                          /\ \A x \in m.recs[i].del : Holds(b, m, i - 1, x)
    BY <1>1 DEF LogReadable
  <2>1. CASE i \in 1..n
    <3>1. m.recs[i] = l.recs[i] /\ i - 1 \in 0..n
      BY <2>1, <1>1
    <3>2. i \in Uncovered(b, m) <=> i \in Uncovered(b, l)
      BY <2>1, <1>1, <1>3
    <3> QED BY <1>4, <1>5, <1>9, <2>1, <3>1, <3>2 DEF LogReadable
  <2>2. CASE i = n + 1
    <3>1. m.recs[i] = r /\ i - 1 = n /\ n \in 0..n
      BY <2>2, <1>1
    <3>2. Reached(b, m, i) = ReplaySeq(b, l)
      BY <1>4, <2>2 DEF ReplaySeq
    <3>3. \A x \in r.del : Holds(b, l, n, x)
      BY <1>9 DEF ReplayValue
    <3>4. \A x \in r.del : Holds(b, m, n, x)
      BY <1>5, <3>1, <3>3
    <3> QED BY <1>9, <3>1, <3>2, <3>4
  <2> QED BY <1>1, <2>1, <2>2
<1> QED BY <1>7, <1>8, <1>9

(* Records numbered from the base on are all applied.                        *)
LEMMA ContiguousReplay ==
    ASSUME NEW b \in KnownBases, NEW l \in Logs,
           \A i \in 1..Len(l.recs) : l.recs[i].seq = b.seq + i
    PROVE  ReplaySeq(b, l) = b.seq + Len(l.recs)
<1> DEFINE n == Len(l.recs)
<1>1. n \in Nat /\ n + 1 \in Int /\ b.seq \in Nat
  BY RecordTypes, BoundAssumption DEF KnownBases, Sequences0
<1>2. /\ ReplaySeq(b, l) \in Nat /\ ReplaySeq(b, l) >= b.seq
      /\ \A i \in 1..n : l.recs[i].seq <= ReplaySeq(b, l)
  BY ReplayReachesAll, BoundAssumption DEF Sequences0
<1>3. ReplaySeq(b, l) >= b.seq + n
  <2>1. CASE n = 0 BY <1>1, <1>2, <2>1
  <2>2. CASE n # 0
    <3>1. n \in 1..n BY <1>1, <2>2
    <3> QED BY <1>1, <1>2, <3>1
  <2> QED BY <2>1, <2>2
<1>4. \/ ReplaySeq(b, l) = b.seq
      \/ \E k \in Uncovered(b, l) : k < n + 1 /\ ReplaySeq(b, l) = l.recs[k].seq
  BY <1>1, ReachedIsLargest DEF ReplaySeq
<1>5. ReplaySeq(b, l) <= b.seq + n
  BY <1>1, <1>4 DEF Uncovered
<1> QED BY <1>1, <1>2, <1>3, <1>5

-----------------------------------------------------------------------------
(* The inductive invariant                                                   *)

CursorType ==
    [known : BOOLEAN, val : Values, spec : SpecIds, seq : Sequences0,
     tail : BOOLEAN, uncertain : BOOLEAN]

JobType ==
    [kind : {"none", "checkpoint", "restore", "reset", "resetBase"},
     at : {"free", "staging", "start", "replaced", "published", "unlinked", "partly", "whole"},
     snap : Values, rebase : BOOLEAN, before : Values, from : Sequences0]

LEMMA Constants ==
    /\ NoBase \in KnownBases /\ NoBase \in Bases /\ Rotten \in Bases /\ NoLog \in Logs
    /\ NoCursor \in CursorType /\ NoJob \in JobType
    /\ {} \in Values /\ 0 \in Sequences0 /\ NoBase # Rotten
    /\ KnownBases \subseteq Bases /\ \A b \in Bases : b = Rotten \/ b \in KnownBases
<1>1. {} \in Values /\ 0 \in Sequences0 /\ 0 \in SpecIds
  BY BoundAssumption DEF Values, Sequences0, SpecIds
<1>2. NoBase \in KnownBases /\ NoBase # Rotten
  BY <1>1 DEF NoBase, KnownBases, Rotten
<1>3. KnownBases \subseteq Bases /\ Rotten \in Bases /\ \A b \in Bases : b = Rotten \/ b \in KnownBases
  BY DEF KnownBases, Bases
<1>4. NoLog \in Logs
  BY DEF NoLog, Logs
<1>5. NoCursor \in CursorType
  BY <1>1 DEF NoCursor, CursorType
<1>6. NoJob \in JobType
  BY <1>1 DEF NoJob, JobType
<1> QED BY <1>1, <1>2, <1>3, <1>4, <1>5, <1>6

LEMMA EmptyReplay ==
    ASSUME NEW b \in KnownBases
    PROVE  LogReadable(b, NoLog) /\ ReplaySeq(b, NoLog) = b.seq /\ ReplayValue(b, NoLog) = b.val
<1>1. NoLog \in Logs /\ Len(NoLog.recs) = 0
  BY Constants DEF NoLog
<1> QED BY <1>1, CoveredReplay

LEMMA JournalInit == Init => IInv
<1> SUFFICES ASSUME Init PROVE IInv
  OBVIOUS
<1>1. TypeOK
  <2>1. cur \in CursorType /\ job \in JobType
    BY Constants DEF Init
  <2>2. (job.at = "free" <=> job = NoJob) /\ (up = "boot" <=> job.kind = "restore")
    BY DEF Init, NoJob
  <2>3. faults \in 0..MaxFaults /\ losses \in 0..MaxLosses /\ rots \in 0..MaxRots
    BY BoundAssumption DEF Init
  <2>6. refused \in BOOLEAN /\ spoilt \in BOOLEAN
    BY DEF Init
  <2>4. /\ live \in Values /\ base \in Bases /\ log \in Logs /\ baseDisk \subseteq Bases
        /\ logDisk \subseteq Logs /\ acked \in Values /\ tried \subseteq Values
    BY Constants DEF Init
  <2>7. olderBase \subseteq Bases /\ olderLog \subseteq Logs
    BY DEF Init
  <2>5. up \in {"down", "boot", "up"} /\ spec \in Specs
    BY DEF Init
  <2> QED BY <2>1, <2>2, <2>3, <2>4, <2>5, <2>6, <2>7 DEF TypeOK, CursorType, JobType
<1>2. FilesPart
  BY DEF Init, FilesPart
<1>3. JobPart
  BY DEF Init, JobPart, NoJob
<1>4. PublishPart /\ AppendPart
  BY DEF Init, PublishPart, AppendPart, NoJob
<1>5. CursorPart
  BY DEF Init, CursorPart, Sure
<1>6. NoBase.seq = 0 /\ NoBase.val = {} /\ Len(NoLog.recs) = 0
  BY DEF NoBase, NoLog
<1>7. ReplayValue(NoBase, NoLog) = {} /\ ReplaySeq(NoBase, NoLog) = 0
  BY <1>6, Constants, EmptyReplay
<1>8. PairsPart
  BY <1>7 DEF Init, PairsPart, Readable
<1>9. HorizonPart
  BY <1>6, <1>7 DEF Init, HorizonPart
<1> QED BY <1>1, <1>2, <1>3, <1>4, <1>5, <1>8, <1>9 DEF IInv

LEMMA FieldTypes ==
    ASSUME TypeOK
    PROVE  /\ cur \in CursorType /\ job \in JobType
           /\ cur.known \in BOOLEAN /\ cur.val \in Values /\ cur.spec \in SpecIds
           /\ cur.seq \in Sequences0 /\ cur.seq \in Nat /\ cur.tail \in BOOLEAN
           /\ cur.uncertain \in BOOLEAN
           /\ job.kind \in {"none", "checkpoint", "restore", "reset", "resetBase"}
           /\ job.snap \in Values /\ job.rebase \in BOOLEAN /\ job.before \in Values
           /\ job.from \in Sequences0 /\ job.from \in Nat
           /\ (job.at = "free" <=> job = NoJob) /\ (up = "boot" <=> job.kind = "restore")
           /\ log.recs \in Seq(Records) /\ log.torn \in BOOLEAN
           /\ NoJob.at = "free" /\ NoJob.kind = "none" /\ NoJob.rebase = FALSE
<1>1. cur \in CursorType /\ job \in JobType
  BY DEF TypeOK, CursorType, JobType
<1>2. log.recs \in Seq(Records) /\ log.torn \in BOOLEAN
  BY DEF TypeOK, Logs
<1>3. cur.seq \in Nat /\ job.from \in Nat
  BY <1>1, BoundAssumption DEF CursorType, JobType, Sequences0
<1>4. /\ (job.at = "free" <=> job = NoJob) /\ (up = "boot" <=> job.kind = "restore")
      /\ NoJob.at = "free" /\ NoJob.kind = "none" /\ NoJob.rebase = FALSE
  BY DEF TypeOK, NoJob
<1> QED BY <1>1, <1>2, <1>3, <1>4 DEF CursorType, JobType

(* The dialogue, a new job or a job that ends before its save touch neither  *)
(* the files nor the cursor.                                                 *)
LEMMA TalkStep == IInv /\ Talk => IInv'
<1> SUFFICES ASSUME IInv, Talk PROVE IInv'
  OBVIOUS
<1>1. live' \in Values
  <2>1. PICK x \in Item : live' \in {live \cup {x}, live \ {x}}
    BY DEF Talk
  <2> QED BY <2>1 DEF IInv, TypeOK, Values
<1>2. /\ up' = up /\ spec' = spec /\ base' = base /\ log' = log /\ baseDisk' = baseDisk
      /\ logDisk' = logDisk /\ cur' = cur /\ refused' = refused /\ job' = job /\ acked' = acked
      /\ tried' = tried /\ spoilt' = spoilt /\ faults' = faults /\ losses' = losses /\ rots' = rots
      /\ olderBase' = olderBase /\ olderLog' = olderLog
  BY DEF Talk, files, older, ghosts, budget
<1>3. TypeOK'
  BY <1>1, <1>2 DEF IInv, TypeOK
<1>4. FilesPart' /\ JobPart' /\ CursorPart' /\ PairsPart' /\ HorizonPart'
  BY <1>2 DEF IInv, FilesPart, JobPart, CursorPart, PairsPart, HorizonPart, Sure, Fits
<1>5. PublishPart' /\ AppendPart'
  BY <1>2 DEF IInv, PublishPart, AppendPart, Fits, NewBase, Record
<1> QED BY <1>3, <1>4, <1>5 DEF IInv

(* A save that raises ends its job and leaves an uncertain cursor, so only   *)
(* the files have to be looked at.                                           *)
LEMMA RaisedStep ==
    ASSUME IInv, Raised(cur), job # NoJob, faults' \in 0..MaxFaults,
           base' = base, baseDisk' = baseDisk, olderBase' = olderBase, olderLog' = olderLog,
           log' \in Logs, logDisk' \subseteq Logs, log' \in logDisk',
           ~spoilt => \A l \in logDisk' :
               /\ \A b \in baseDisk : Readable(b, l) /\ ReplayValue(b, l) \in {acked} \cup tried
               /\ \A i \in 1..Len(l.recs) : l.recs[i].seq <= ReplaySeq(base, log') + 1
    PROVE  IInv'
<1> USE FieldTypes DEF IInv
<1>1. /\ cur' = [cur EXCEPT !.uncertain = TRUE] /\ job' = NoJob /\ spec' = spec
      /\ acked' = acked /\ tried' = tried /\ spoilt' = spoilt /\ losses' = losses /\ rots' = rots
      /\ up' = IF job.kind = "restore" THEN "up" ELSE up
      /\ live' \in {job.before, live}
      /\ refused' \in BOOLEAN
  BY DEF Raised, ghosts
<1>2. cur' \in CursorType /\ cur'.uncertain
  BY <1>1 DEF CursorType
<1>3. up' \in {"boot", "up"} /\ up' # "boot" /\ job'.at = "free" /\ job'.kind = "none"
  BY <1>1 DEF JobPart, TypeOK
<1>4. TypeOK'
  <2>1. /\ up' \in {"down", "boot", "up"} /\ spec' \in Specs /\ live' \in Values
        /\ base' \in Bases /\ log' \in Logs /\ baseDisk' \subseteq Bases /\ logDisk' \subseteq Logs
        /\ olderBase' \subseteq Bases /\ olderLog' \subseteq Logs
        /\ acked' \in Values /\ tried' \subseteq Values /\ spoilt' \in BOOLEAN
        /\ losses' \in 0..MaxLosses /\ rots' \in 0..MaxRots
    BY <1>1, <1>3 DEF TypeOK
  <2>2. job' \in JobType
    BY <1>1, Constants
  <2>3. (job'.at = "free" <=> job' = NoJob) /\ (up' = "boot" <=> job'.kind = "restore")
    BY <1>1, <1>3
  <2> QED BY <1>1, <1>2, <2>1, <2>2, <2>3 DEF TypeOK, CursorType, JobType
<1>5. FilesPart' /\ PairsPart'
  BY <1>1 DEF FilesPart, PairsPart
<1>6. JobPart'
  BY <1>1, <1>3 DEF JobPart
<1>7. PublishPart' /\ AppendPart'
  BY <1>3 DEF PublishPart, AppendPart
<1>8. CursorPart'
  BY <1>2 DEF CursorPart, Sure
<1>9. HorizonPart'
  BY <1>1, <1>2 DEF HorizonPart
<1> QED BY <1>4, <1>5, <1>6, <1>7, <1>8, <1>9

(* The same when the files stay as they are.                                 *)
LEMMA RaisedSameFiles ==
    ASSUME IInv, Raised(cur), job # NoJob, faults' \in 0..MaxFaults, UNCHANGED files
    PROVE  IInv'
<1>1. /\ base' = base /\ baseDisk' = baseDisk /\ log' = log /\ logDisk' = logDisk
      /\ olderBase' = olderBase /\ olderLog' = olderLog
  BY DEF files, older
<1>2. log' \in Logs /\ logDisk' \subseteq Logs /\ log' \in logDisk'
  BY <1>1 DEF IInv, TypeOK, FilesPart
<1>3. ~spoilt => \A l \in logDisk' :
        /\ \A b \in baseDisk : Readable(b, l) /\ ReplayValue(b, l) \in {acked} \cup tried
        /\ \A i \in 1..Len(l.recs) : l.recs[i].seq <= ReplaySeq(base, log') + 1
  BY <1>1 DEF IInv, PairsPart, HorizonPart
<1> QED BY <1>1, <1>2, <1>3, RaisedStep

LEMMA FaultCounted == ASSUME TypeOK, Fault PROVE faults' \in 0..MaxFaults
BY BoundAssumption DEF TypeOK, Fault

(* Whether the directory is synced or cannot be opened, only older contents  *)
(* the medium may hold already are remembered.                               *)
LEMMA SyncTypes ==
    ASSUME TypeOK, NEW bases, NEW logs, SyncDirectory(bases, logs)
    PROVE  faults' \in 0..MaxFaults /\ olderBase' \subseteq Bases /\ olderLog' \subseteq Logs
<1>1. CASE olderBase' = {} /\ olderLog' = {} /\ UNCHANGED faults
  BY <1>1 DEF TypeOK
<1>2. CASE /\ Fault
           /\ olderBase' = olderBase \cup (baseDisk \ bases)
           /\ olderLog' = olderLog \cup (logDisk \ logs)
  BY <1>2, FaultCounted DEF TypeOK
<1> QED BY <1>1, <1>2 DEF SyncDirectory

LEMMA PublishFailsStep == IInv /\ PublishFails => IInv'
<1> SUFFICES ASSUME IInv, PublishFails PROVE IInv'
  OBVIOUS
<1>1. job # NoJob /\ Raised(cur) /\ UNCHANGED files /\ Fault
  BY DEF PublishFails, NoJob
<1> QED BY <1>1, FaultCounted, RaisedSameFiles DEF IInv

LEMMA PublishSyncFailsStep == IInv /\ PublishSyncFails => IInv'
<1> SUFFICES ASSUME IInv, PublishSyncFails PROVE IInv'
  OBVIOUS
<1>1. job # NoJob /\ Raised(cur) /\ UNCHANGED files /\ Fault
  BY DEF PublishSyncFails, NoJob
<1> QED BY <1>1, FaultCounted, RaisedSameFiles DEF IInv

LEMMA RetireFailsStep == IInv /\ RetireFails => IInv'
<1> SUFFICES ASSUME IInv, RetireFails PROVE IInv'
  OBVIOUS
<1>1. job # NoJob /\ Raised(cur) /\ UNCHANGED files /\ Fault
  BY DEF RetireFails, NoJob
<1> QED BY <1>1, FaultCounted, RaisedSameFiles DEF IInv

(* The cursor a replay yields.                                               *)
LEMMA ReadCursorFacts ==
    ASSUME TypeOK, Readable(base, log)
    PROVE  /\ ReadCursor \in CursorType /\ ReadCursor.uncertain = cur.uncertain
           /\ ReadCursor.seq = ReplaySeq(base, log)
<1>1. cur.uncertain \in BOOLEAN
  BY FieldTypes
<1>2. CASE base = NoBase
  <2>1. log = NoLog /\ NoBase.seq = 0
    BY <1>2 DEF Readable, NoBase
  <2>2. ReplaySeq(base, log) = 0
    BY <1>2, <2>1, Constants, EmptyReplay
  <2>3. ReadCursor = [NoCursor EXCEPT !.uncertain = cur.uncertain]
    BY <1>2 DEF ReadCursor
  <2>4. NoCursor.seq = 0 /\ NoCursor \in CursorType
    BY Constants DEF NoCursor
  <2> QED BY <1>1, <2>2, <2>3, <2>4 DEF CursorType
<1>3. CASE base # NoBase
  <2>1. base \in KnownBases /\ log \in Logs
    BY <1>3, Constants DEF Readable, TypeOK
  <2>2. ReplaySeq(base, log) \in Sequences0
    BY <2>1, ReplayReachesAll
  <2>3. ReplayValue(base, log) \in Values /\ base.spec \in SpecIds /\ log.torn \in BOOLEAN
    BY <2>1 DEF ReplayValue, Values, KnownBases, Logs
  <2>4. ReadCursor = [known |-> TRUE, val |-> ReplayValue(base, log), spec |-> base.spec,
                      seq |-> ReplaySeq(base, log), tail |-> log.torn, uncertain |-> cur.uncertain]
    BY <1>3 DEF ReadCursor
  <2> HIDE DEF ReadCursor
  <2> QED BY <1>1, <2>2, <2>3, <2>4 DEF CursorType
<1> QED BY <1>2, <1>3

LEMMA SaveRereadsStep == IInv /\ SaveRereads => IInv'
<1> SUFFICES ASSUME IInv, SaveRereads PROVE IInv'
  OBVIOUS
<1> USE FieldTypes DEF IInv
<1>1. job.at = "start" /\ job # NoJob /\ UNCHANGED files
  BY DEF SaveRereads, NoJob
<1>2. CASE ~Readable(base, log)
  <2>1. Raised(cur) /\ faults' \in 0..MaxFaults
    BY <1>2 DEF SaveRereads, TypeOK
  <2> QED BY <1>1, <2>1, RaisedSameFiles
<1>3. CASE Readable(base, log)
  <2> DEFINE c == [ReadCursor EXCEPT !.uncertain = FALSE]
  <2>1. /\ up' = up /\ spec' = spec /\ live' = live /\ base' = base /\ log' = log
        /\ baseDisk' = baseDisk /\ logDisk' = logDisk /\ refused' = refused /\ acked' = acked
        /\ tried' = tried /\ spoilt' = spoilt /\ faults' = faults /\ losses' = losses /\ rots' = rots
        /\ olderBase' = olderBase /\ olderLog' = olderLog
        /\ cur' = c /\ job' = [job EXCEPT !.rebase = TRUE]
    BY <1>3 DEF SaveRereads, files, older, ghosts, budget
  <2>2. cur' \in CursorType /\ ~cur'.uncertain /\ cur'.seq = ReplaySeq(base, log)
    BY <1>3, <2>1, ReadCursorFacts DEF CursorType
  <2>3. /\ job' \in JobType /\ job'.at = "start" /\ job'.kind = job.kind /\ job'.rebase = TRUE
        /\ job'.snap = job.snap /\ job' # NoJob
    BY <1>1, <2>1 DEF JobType, NoJob
  <2>4. TypeOK'
    <3>1. (job'.at = "free" <=> job' = NoJob) /\ (up' = "boot" <=> job'.kind = "restore")
      BY <2>1, <2>3
    <3> QED BY <2>1, <2>2, <2>3, <3>1 DEF TypeOK, CursorType, JobType
  <2>5. FilesPart' /\ PairsPart'
    BY <2>1 DEF FilesPart, PairsPart
  <2>6. JobPart'
    <3>1. up' # "down"
      BY <1>1, <2>1 DEF JobPart
    <3>2. refused' => job'.kind = "resetBase"
      BY <1>1, <2>1, <2>3 DEF JobPart
    <3>3. job'.snap \in tried' \/ (job'.snap = acked' /\ tried' = {} /\ ~spoilt')
      BY <1>1, <2>1, <2>3 DEF JobPart
    <3> QED BY <2>3, <3>1, <3>2, <3>3 DEF JobPart
  <2>7. PublishPart' /\ AppendPart' /\ CursorPart'
    BY <2>3 DEF PublishPart, AppendPart, CursorPart, Sure
  <2>8. HorizonPart'
    BY <2>1, <2>2, <2>3 DEF HorizonPart
  <2> QED BY <2>4, <2>5, <2>6, <2>7, <2>8
<1> QED BY <1>2, <1>3

(* A new base covers every record a loss can leave.                          *)
LEMMA PublishReplaceStep == IInv /\ PublishReplace => IInv'
<1> SUFFICES ASSUME IInv, PublishReplace PROVE IInv'
  OBVIOUS
<1> USE FieldTypes DEF IInv
<1>1. job.at = "start" /\ job # NoJob /\ ~cur.uncertain /\ cur.seq < MaxSeq
  BY DEF PublishReplace, NoJob
<1>2. /\ up' = up /\ spec' = spec /\ live' = live /\ log' = log /\ logDisk' = logDisk
      /\ cur' = cur /\ refused' = refused /\ acked' = acked /\ tried' = tried /\ spoilt' = spoilt
      /\ faults' = faults /\ losses' = losses /\ rots' = rots
      /\ base' = NewBase /\ baseDisk' = baseDisk \cup {NewBase}
      /\ olderBase' = olderBase /\ olderLog' = olderLog
      /\ job' = [job EXCEPT !.at = "replaced"]
  BY DEF PublishReplace, Goto, older, ghosts, budget
<1>3. /\ job' \in JobType /\ job'.at = "replaced" /\ job'.kind = job.kind
      /\ job'.rebase = job.rebase /\ job'.snap = job.snap /\ job' # NoJob
  BY <1>1, <1>2 DEF JobType, NoJob
<1>4. NewBase.seq = cur.seq + 1 /\ NewBase.val = job.snap /\ NewBase \in KnownBases
  <2>1. cur.seq + 1 \in Sequences0 /\ spec \in SpecIds
    BY <1>1, BoundAssumption DEF Sequences0, TypeOK, SpecIds
  <2> QED BY <2>1 DEF NewBase, KnownBases
<1>5. NewBase # NoBase /\ NewBase # Rotten
  <2>1. NewBase.seq > 0 /\ NoBase.seq = 0 /\ Rotten.seq = 0 - 1
    BY <1>4 DEF NoBase, Rotten
  <2> QED BY <2>1
<1>6. TypeOK'
  <2>1. (job'.at = "free" <=> job' = NoJob) /\ (up' = "boot" <=> job'.kind = "restore")
    BY <1>2, <1>3
  <2>2. base' \in Bases /\ baseDisk' \subseteq Bases
    BY <1>2, <1>4, Constants DEF TypeOK
  <2> QED BY <1>2, <1>3, <2>1, <2>2 DEF TypeOK, CursorType, JobType
<1>7. FilesPart'
  BY <1>2 DEF FilesPart
<1>8. JobPart'
  <2>1. up' # "down"
    BY <1>1, <1>2 DEF JobPart
  <2>2. refused' => job'.kind = "resetBase"
    BY <1>1, <1>2, <1>3 DEF JobPart
  <2>3. job'.snap \in tried' \/ (job'.snap = acked' /\ tried' = {} /\ ~spoilt')
    BY <1>1, <1>2, <1>3 DEF JobPart
  <2>4. job'.kind \in {"restore", "resetBase"} => job'.rebase
    BY <1>3 DEF JobPart
  <2> QED BY <1>1, <1>2, <1>3, <2>1, <2>2, <2>3, <2>4 DEF JobPart
<1>9. PublishPart'
  BY <1>2, <1>3 DEF PublishPart, NewBase
<1>10. AppendPart' /\ CursorPart'
  BY <1>3 DEF AppendPart, CursorPart, Sure
<1>11. ASSUME ~spoilt, NEW l \in logDisk
       PROVE  /\ LogReadable(NewBase, l) /\ ReplaySeq(NewBase, l) = cur.seq + 1
              /\ ReplayValue(NewBase, l) = job.snap
              /\ \A i \in 1..Len(l.recs) : l.recs[i].seq <= cur.seq + 1
  <2>1. l \in Logs
    BY <1>11 DEF TypeOK
  <2>2. \A i \in 1..Len(l.recs) : l.recs[i].seq <= cur.seq + 1
    <3>1. up # "down" BY <1>1 DEF JobPart
    <3>2. ReplaySeq(base, log) = cur.seq
      BY <1>1, <1>11, <3>1 DEF HorizonPart
    <3> QED BY <1>11, <3>2 DEF HorizonPart
  <2>3. \A i \in 1..Len(l.recs) : l.recs[i] # Garbage
    <3>1. Readable(base, l)
      BY <1>11 DEF PairsPart, FilesPart
    <3>2. CASE base = NoBase
      BY <3>1, <3>2 DEF Readable, NoLog
    <3>3. CASE base # NoBase
      BY <3>1, <3>3 DEF Readable, LogReadable
    <3> QED BY <3>2, <3>3
  <2>4. \A i \in 1..Len(l.recs) : l.recs[i].seq <= NewBase.seq /\ l.recs[i] # Garbage
    BY <1>4, <2>2, <2>3
  <2> QED BY <1>4, <2>1, <2>2, <2>4, CoveredReplay
<1>12. PairsPart'
  <2>1. ~spoilt => job.snap \in {acked} \cup tried
    BY <1>1 DEF JobPart
  <2> QED BY <1>2, <1>5, <1>11, <2>1 DEF PairsPart, Readable
<1>13. HorizonPart'
  <2>1. ~spoilt => log \in logDisk
    BY DEF FilesPart
  <2>2. ~spoilt => ReplaySeq(NewBase, log) = cur.seq + 1
    BY <1>11, <2>1
  <2>3. ASSUME ~spoilt, NEW l \in logDisk, NEW i \in 1..Len(l.recs)
        PROVE  l.recs[i].seq <= cur.seq + 1 + 1
    <3>1. l.recs[i].seq \in Nat BY <2>3, RecordTypes DEF TypeOK
    <3> QED BY <1>11, <2>3, <3>1
  <2> QED BY <1>2, <1>3, <2>2, <2>3 DEF HorizonPart
<1> QED BY <1>6, <1>7, <1>8, <1>9, <1>10, <1>12, <1>13

LEMMA PublishSyncStep == IInv /\ PublishSync => IInv'
<1> SUFFICES ASSUME IInv, PublishSync PROVE IInv'
  OBVIOUS
<1> USE FieldTypes DEF IInv
<1>1. job.at = "replaced" /\ job # NoJob /\ ~cur.uncertain /\ base = NewBase /\ up # "down"
  BY DEF PublishSync, NoJob, JobPart, PublishPart
<1>2. /\ up' = up /\ spec' = spec /\ live' = live /\ log' = log /\ logDisk' = logDisk
      /\ base' = base /\ refused' = refused /\ acked' = acked /\ tried' = tried /\ spoilt' = spoilt
      /\ losses' = losses /\ rots' = rots /\ baseDisk' = {base}
      /\ cur' = [cur EXCEPT !.known = TRUE, !.val = job.snap, !.spec = spec, !.seq = @ + 1]
      /\ job' = [job EXCEPT !.at = "published"]
  BY DEF PublishSync, SyncDirectory, Goto, ghosts
<1>s. faults' \in 0..MaxFaults /\ olderBase' \subseteq Bases /\ olderLog' \subseteq Logs
  BY SyncTypes DEF PublishSync
<1>3. /\ job' \in JobType /\ job'.at = "published" /\ job'.kind = job.kind
      /\ job'.rebase = job.rebase /\ job'.snap = job.snap /\ job' # NoJob
  BY <1>1, <1>2 DEF JobType, NoJob
<1>4. base \in KnownBases /\ base = [seq |-> cur.seq + 1, val |-> job.snap, spec |-> spec]
  <2>1. base.seq = cur.seq + 1 /\ Rotten.seq = 0 - 1
    BY <1>1 DEF NewBase, Rotten
  <2>2. base # Rotten BY <2>1
  <2>3. base \in Bases BY DEF TypeOK
  <2> QED BY <1>1, <2>2, <2>3, Constants DEF NewBase
<1>5. cur.seq + 1 \in Sequences0 /\ spec \in SpecIds
  <2>1. base.seq \in Sequences0
    BY <1>4 DEF KnownBases
  <2> QED BY <1>4, <2>1 DEF TypeOK, SpecIds
<1>6. /\ cur' \in CursorType /\ ~cur'.uncertain /\ cur'.known /\ cur'.val = job.snap
      /\ cur'.spec = spec /\ cur'.seq = cur.seq + 1 /\ cur'.seq > 0
  <2>1. cur.seq + 1 > 0 OBVIOUS
  <2> HIDE FieldTypes
  <2>2. cur \in CursorType /\ job.snap \in Values BY FieldTypes
  <2> QED BY <1>1, <1>2, <1>5, <2>1, <2>2 DEF CursorType
<1>7. TypeOK'
  <2>1. (job'.at = "free" <=> job' = NoJob) /\ (up' = "boot" <=> job'.kind = "restore")
    BY <1>2, <1>3
  <2>2. base' \in Bases /\ baseDisk' \subseteq Bases
    BY <1>2 DEF TypeOK
  <2> QED BY <1>2, <1>s, <1>3, <1>6, <2>1, <2>2 DEF TypeOK, CursorType, JobType
<1>8. FilesPart'
  BY <1>2 DEF FilesPart
<1>9. JobPart'
  <2>1. refused' => job'.kind = "resetBase"
    BY <1>1, <1>2, <1>3 DEF JobPart
  <2>2. job'.snap \in tried' \/ (job'.snap = acked' /\ tried' = {} /\ ~spoilt')
    BY <1>1, <1>2, <1>3 DEF JobPart
  <2>3. job'.kind \in {"restore", "resetBase"} => job'.rebase
    BY <1>3 DEF JobPart
  <2> QED BY <1>1, <1>2, <1>3, <1>6, <2>1, <2>2, <2>3 DEF JobPart
<1>10. PublishPart'
  BY <1>2, <1>3, <1>4, <1>6 DEF PublishPart
<1>11. AppendPart' /\ CursorPart'
  BY <1>3 DEF AppendPart, CursorPart, Sure
<1>12. PairsPart'
  BY <1>2 DEF PairsPart, FilesPart
<1>13. HorizonPart'
  <2>1. ~spoilt => ReplaySeq(base, log) = cur.seq + 1
    BY <1>1 DEF HorizonPart
  <2>2. ~spoilt => \A l \in logDisk : \A i \in 1..Len(l.recs) : l.recs[i].seq <= ReplaySeq(base, log) + 1
    BY DEF HorizonPart
  <2> QED BY <1>2, <1>3, <1>6, <2>1, <2>2 DEF HorizonPart
<1> QED BY <1>7, <1>8, <1>9, <1>10, <1>11, <1>12, <1>13

LEMMA RetireUnlinkStep == IInv /\ RetireUnlink => IInv'
<1> SUFFICES ASSUME IInv, RetireUnlink PROVE IInv'
  OBVIOUS
<1> USE FieldTypes DEF IInv
<1>1. /\ job.at = "published" /\ job # NoJob /\ ~cur.uncertain /\ up # "down"
      /\ baseDisk = {base} /\ base = [seq |-> cur.seq, val |-> job.snap, spec |-> spec]
      /\ cur.known /\ cur.val = job.snap /\ cur.spec = spec /\ cur.seq > 0
  BY DEF RetireUnlink, NoJob, JobPart, PublishPart
<1>2. /\ up' = up /\ spec' = spec /\ live' = live /\ log' = NoLog /\ logDisk' = logDisk \cup {NoLog}
      /\ base' = base /\ baseDisk' = baseDisk /\ refused' = refused /\ acked' = acked
      /\ tried' = tried /\ spoilt' = spoilt /\ faults' = faults /\ losses' = losses /\ rots' = rots
      /\ olderBase' = olderBase /\ olderLog' = olderLog
      /\ cur' = cur /\ job' = [job EXCEPT !.at = "unlinked"]
  BY DEF RetireUnlink, Goto, older, ghosts, budget
<1>3. /\ job' \in JobType /\ job'.at = "unlinked" /\ job'.kind = job.kind
      /\ job'.rebase = job.rebase /\ job'.snap = job.snap /\ job' # NoJob
  BY <1>1, <1>2 DEF JobType, NoJob
<1>4. base \in KnownBases /\ base # NoBase /\ base # Rotten
  <2>1. base.seq > 0 /\ Rotten.seq = 0 - 1 /\ NoBase.seq = 0 /\ base \in Bases
    BY <1>1 DEF Rotten, NoBase, TypeOK
  <2>2. base # Rotten /\ base # NoBase BY <2>1
  <2> QED BY <2>1, <2>2, Constants
<1>5. TypeOK'
  <2>1. (job'.at = "free" <=> job' = NoJob) /\ (up' = "boot" <=> job'.kind = "restore")
    BY <1>2, <1>3
  <2>2. log' \in Logs /\ logDisk' \subseteq Logs
    BY <1>2, Constants DEF TypeOK
  <2> QED BY <1>2, <1>3, <2>1, <2>2 DEF TypeOK, CursorType, JobType
<1>6. FilesPart'
  BY <1>2 DEF FilesPart
<1>7. JobPart'
  <2>1. refused' => job'.kind = "resetBase"
    BY <1>1, <1>2, <1>3 DEF JobPart
  <2>2. job'.snap \in tried' \/ (job'.snap = acked' /\ tried' = {} /\ ~spoilt')
    BY <1>1, <1>2, <1>3 DEF JobPart
  <2>3. job'.kind \in {"restore", "resetBase"} => job'.rebase
    BY <1>3 DEF JobPart
  <2> QED BY <1>1, <1>2, <1>3, <2>1, <2>2, <2>3 DEF JobPart
<1>8. PublishPart'
  BY <1>1, <1>2, <1>3 DEF PublishPart
<1>9. AppendPart' /\ CursorPart'
  BY <1>3 DEF AppendPart, CursorPart, Sure
<1>10. LogReadable(base, NoLog) /\ ReplaySeq(base, NoLog) = cur.seq /\ ReplayValue(base, NoLog) = job.snap
  BY <1>1, <1>4, EmptyReplay
<1>11. PairsPart'
  <2>1. ~spoilt => job.snap \in {acked} \cup tried
    BY <1>1 DEF JobPart
  <2> QED BY <1>1, <1>2, <1>4, <1>10, <2>1 DEF PairsPart, Readable
<1>12. HorizonPart'
  <2>1. ~spoilt => ReplaySeq(base, log) = cur.seq
    BY <1>1 DEF HorizonPart
  <2>2. ~spoilt => \A l \in logDisk : \A i \in 1..Len(l.recs) : l.recs[i].seq <= cur.seq + 1
    BY <2>1 DEF HorizonPart
  <2>3. Len(NoLog.recs) = 0
    BY DEF NoLog
  <2> QED BY <1>2, <1>3, <1>10, <2>2, <2>3 DEF HorizonPart
<1> QED BY <1>5, <1>6, <1>7, <1>8, <1>9, <1>11, <1>12

(* A save that returns leaves synced files the cursor fits.                  *)
LEMMA SavedStep ==
    ASSUME IInv, NEW c \in CursorType, Saved(c), job # NoJob, faults' \in 0..MaxFaults,
           olderBase' \subseteq Bases, olderLog' \subseteq Logs,
           base' = base, log' = log, baseDisk' = baseDisk, baseDisk = {base}, logDisk' = {log},
           base \in KnownBases, base # NoBase, Readable(base, log), ~log.torn,
           ReplayValue(base, log) = job.snap, base.spec = spec,
           c.known, c.spec = spec, c.val = job.snap, c.seq = base.seq + Len(log.recs),
           \A i \in 1..Len(log.recs) : log.recs[i].seq = base.seq + i
    PROVE  IInv'
<1> USE FieldTypes DEF IInv
<1>1. /\ acked' = job.snap /\ tried' = {} /\ spoilt' = FALSE /\ cur' = [c EXCEPT !.uncertain = FALSE]
      /\ spec' = spec /\ live' = live /\ losses' = losses /\ rots' = rots
      /\ up' = IF job.kind = "restore" THEN "up" ELSE up
      /\ refused' = (refused /\ job.kind # "resetBase")
  BY DEF Saved
<1>2. /\ cur' \in CursorType /\ ~cur'.uncertain /\ cur'.known /\ cur'.val = job.snap
      /\ cur'.spec = spec /\ cur'.seq = base.seq + Len(log.recs)
  BY <1>1 DEF CursorType
<1>3. up # "down" /\ up' = "up"
  <2>1. up # "down" BY DEF JobPart
  <2> QED BY <1>1, <2>1 DEF TypeOK
<1>4. /\ job' \in JobType /\ (job'.at = "free" <=> job' = NoJob) /\ job'.at \in {"free", "start"}
      /\ job'.kind # "restore" /\ (job'.kind = "resetBase" => job'.rebase)
      /\ job' # NoJob => job'.kind = "resetBase" /\ job'.snap = job.snap
  <2>1. CASE job.kind = "reset"
    <3>1. job' = [job EXCEPT !.kind = "resetBase", !.at = "start", !.rebase = TRUE]
      BY <2>1 DEF Saved
    <3> QED BY <3>1 DEF JobType
  <2>2. CASE job.kind # "reset"
    <3>1. job' = NoJob
      BY <2>2 DEF Saved
    <3> QED BY <3>1, Constants
  <2> QED BY <2>1, <2>2
<1>5. TypeOK'
  <2>1. up' = "boot" <=> job'.kind = "restore"
    BY <1>3, <1>4
  <2>2. /\ base' \in Bases /\ log' \in Logs /\ baseDisk' \subseteq Bases /\ logDisk' \subseteq Logs
        /\ spec' \in Specs /\ live' \in Values /\ losses' \in 0..MaxLosses /\ rots' \in 0..MaxRots
        /\ acked' \in Values /\ tried' \subseteq Values /\ up' \in {"down", "boot", "up"}
    BY <1>1, <1>3 DEF TypeOK
  <2>3. refused' \in BOOLEAN /\ spoilt' \in BOOLEAN
    BY <1>1
  <2> QED BY <1>2, <1>4, <2>1, <2>2, <2>3 DEF TypeOK, CursorType, JobType
<1>6. FilesPart'
  BY <1>1 DEF FilesPart
<1>7. JobPart'
  <2>1. job'.kind \in {"restore", "resetBase"} => job'.rebase
    BY <1>4
  <2>2. job' # NoJob => job'.snap = acked' /\ tried' = {} /\ ~spoilt'
    BY <1>1, <1>4
  <2> QED BY <1>2, <1>3, <1>4, <2>1, <2>2 DEF JobPart
<1>8. PublishPart' /\ AppendPart'
  BY <1>4 DEF PublishPart, AppendPart
<1>9. CursorPart'
  <2>1. ReplayValue(base, Bare(log.recs)) = ReplayValue(base, log)
    <3>1. Bare(log.recs).recs = log.recs BY DEF Bare
    <3> QED BY <3>1, SameRecords
  <2>2. Fits(log.recs)'
    BY <1>1, <1>2, <2>1 DEF Fits, Bare
  <2> QED BY <1>1, <2>2 DEF CursorPart
<1>10. PairsPart'
  BY <1>1 DEF PairsPart
<1>11. ReplaySeq(base, log) = cur'.seq /\ log \in Logs
  BY <1>2, ContiguousReplay DEF TypeOK
<1>12. HorizonPart'
  <2>1. cur'.seq \in Nat /\ \A i \in 1..Len(log.recs) : log.recs[i].seq \in Nat /\ log.recs[i].seq <= cur'.seq
    BY <1>2, <1>11, RecordTypes, ReplayReachesAll, BoundAssumption DEF CursorType, Sequences0
  <2>2. \A i \in 1..Len(log.recs) : log.recs[i].seq <= cur'.seq + 1
    BY <2>1
  <2> QED BY <1>4, <1>11, <2>2 DEF HorizonPart
<1> QED BY <1>5, <1>6, <1>7, <1>8, <1>9, <1>10, <1>12

(* A save that may append starts from synced files the cursor fits.          *)
LEMMA AppendReady ==
    ASSUME IInv, job.at = "start", ~cur.uncertain, ~WholeBase
    PROVE  /\ up = "up" /\ ~refused /\ ~spoilt /\ ~job.rebase /\ job # NoJob
           /\ cur.known /\ baseDisk = {base} /\ logDisk = {log} /\ ~log.torn /\ Fits(log.recs)
<1> USE FieldTypes DEF IInv
<1>1. ~job.rebase /\ cur.known /\ job # NoJob
  BY DEF WholeBase, NoJob
<1>2. job.kind # "restore" /\ job.kind # "resetBase"
  BY <1>1 DEF JobPart
<1>3. up = "up" /\ ~refused
  BY <1>1, <1>2 DEF JobPart, TypeOK
<1>4. Sure
  BY <1>1, <1>3 DEF Sure
<1> QED BY <1>1, <1>3, <1>4 DEF CursorPart

LEMMA KnownBase ==
    ASSUME IInv, ~spoilt, base # NoBase
    PROVE  base \in KnownBases /\ base # Rotten /\ \A l \in logDisk : LogReadable(base, l)
<1>1. \A l \in logDisk : Readable(base, l)
  BY DEF IInv, PairsPart, FilesPart
<1>2. base # Rotten /\ \A l \in logDisk : LogReadable(base, l)
  BY <1>1 DEF Readable, IInv, FilesPart
<1> QED BY <1>2, Constants DEF IInv, TypeOK

(* Where the cursor stands is where the replay ends.                         *)
LEMMA FitsReplay ==
    ASSUME IInv, ~spoilt, NEW l \in Logs, Fits(l.recs)
    PROVE  ReplaySeq(base, l) = cur.seq /\ ReplayValue(base, l) = cur.val
<1>1. base \in KnownBases
  BY KnownBase DEF Fits
<1>2. ReplaySeq(base, l) = cur.seq
  BY <1>1, ContiguousReplay DEF Fits
<1>3. Bare(l.recs).recs = l.recs
  BY DEF Bare
<1>4. ReplayValue(base, l) = ReplayValue(base, Bare(l.recs))
  BY <1>3, SameRecords
<1> QED BY <1>2, <1>4 DEF Fits

(* The record of the changes leads from the cursor's value to the snapshot.  *)
LEMMA RecordReplay ==
    ASSUME IInv, ~spoilt, NEW l \in Logs, NEW m \in Logs, Fits(l.recs), Record \in Records,
           m.recs = Append(l.recs, Record)
    PROVE  /\ ReplaySeq(base, m) = cur.seq + 1 /\ ReplayValue(base, m) = job.snap
           /\ LogReadable(base, l) => LogReadable(base, m)
<1>1. base \in KnownBases /\ cur.seq \in Nat /\ job.snap \in Values /\ cur.val \in Values
  BY KnownBase, FieldTypes DEF Fits, IInv
<1>2. ReplaySeq(base, l) = cur.seq /\ ReplayValue(base, l) = cur.val
  BY FitsReplay
<1>3. /\ Record.seq = cur.seq + 1 /\ Record.spec = spec
      /\ Record.add = job.snap \ cur.val /\ Record.del = cur.val \ job.snap
  BY DEF Record
<1>4. Record # Garbage
  <2>1. Garbage.seq = 0 BY DEF Garbage
  <2> QED BY <1>1, <1>3, <2>1
<1>5. Record.seq = ReplaySeq(base, l) + 1 /\ Record.spec = base.spec /\ Record.del \subseteq ReplayValue(base, l)
  BY <1>2, <1>3 DEF Fits
<1> DEFINE r == Record
<1>6. /\ ReplaySeq(base, m) = r.seq
      /\ ReplayValue(base, m) = (ReplayValue(base, l) \ r.del) \cup (r.add \cap Item)
      /\ LogReadable(base, l) => LogReadable(base, m)
  <2>1. r \in Records /\ m.recs = Append(l.recs, r) /\ r # Garbage
    BY <1>4
  <2>2. r.seq = ReplaySeq(base, l) + 1 /\ r.spec = base.spec /\ r.del \subseteq ReplayValue(base, l)
    BY <1>5
  <2> HIDE DEF r
  <2> QED BY <1>1, <2>1, <2>2, AppendReplay
<1>7. (cur.val \ (cur.val \ job.snap)) \cup ((job.snap \ cur.val) \cap Item) = job.snap
  BY <1>1 DEF Values
<1> QED BY <1>2, <1>3, <1>6, <1>7

LEMMA SaveNothingStep == IInv /\ SaveNothing => IInv'
<1> SUFFICES ASSUME IInv, SaveNothing PROVE IInv'
  OBVIOUS
<1>1. /\ job.at = "start" /\ ~cur.uncertain /\ ~WholeBase /\ cur.val = job.snap /\ Saved(cur)
      /\ base' = base /\ log' = log /\ baseDisk' = baseDisk /\ logDisk' = logDisk /\ faults' = faults
      /\ olderBase' = olderBase /\ olderLog' = olderLog
  BY DEF SaveNothing, files, older
<1>2. /\ ~spoilt /\ job # NoJob /\ cur.known /\ baseDisk = {base} /\ logDisk = {log} /\ ~log.torn
      /\ Fits(log.recs)
  BY <1>1, AppendReady
<1>3. /\ cur \in CursorType /\ faults' \in 0..MaxFaults /\ log \in Logs
      /\ olderBase' \subseteq Bases /\ olderLog' \subseteq Logs
  BY <1>1, FieldTypes DEF IInv, TypeOK
<1>4. base # NoBase /\ base \in KnownBases
  BY <1>2, KnownBase DEF Fits
<1>5. Readable(base, log)
  BY <1>2 DEF IInv, PairsPart
<1>6. ReplayValue(base, log) = job.snap
  BY <1>1, <1>2, <1>3, FitsReplay
<1>7. /\ base.spec = spec /\ cur.spec = spec /\ cur.seq = base.seq + Len(log.recs)
      /\ \A i \in 1..Len(log.recs) : log.recs[i].seq = base.seq + i
  BY <1>2 DEF Fits
<1>8. logDisk' = {log}
  BY <1>1, <1>2
<1> QED BY <1>1, <1>2, <1>3, <1>4, <1>5, <1>6, <1>7, <1>8, SavedStep

LEMMA RetireSyncStep == IInv /\ RetireSync => IInv'
<1> SUFFICES ASSUME IInv, RetireSync PROVE IInv'
  OBVIOUS
<1> DEFINE c == [cur EXCEPT !.tail = FALSE]
<1>1. /\ job.at = "unlinked" /\ Saved(c) /\ job # NoJob
      /\ base' = base /\ log' = log /\ baseDisk' = baseDisk /\ logDisk' = {log}
  BY DEF RetireSync, SyncDirectory, NoJob
<1>s. faults' \in 0..MaxFaults /\ olderBase' \subseteq Bases /\ olderLog' \subseteq Logs
  BY SyncTypes DEF RetireSync, IInv
<1>2. /\ baseDisk = {base} /\ base = [seq |-> cur.seq, val |-> job.snap, spec |-> spec]
      /\ cur.known /\ cur.val = job.snap /\ cur.spec = spec /\ cur.seq > 0 /\ log = NoLog
  BY <1>1 DEF IInv, PublishPart
<1>3. cur \in CursorType /\ cur.seq \in Nat /\ base \in Bases
  BY <1>1, FieldTypes DEF IInv, TypeOK
<1>4. /\ c \in CursorType /\ c.known /\ c.val = job.snap /\ c.spec = spec /\ c.seq = cur.seq
  BY <1>2, <1>3 DEF CursorType
<1>5. base \in KnownBases /\ base # NoBase /\ base # Rotten /\ base.seq = cur.seq
  <2>1. base.seq = cur.seq /\ base.seq > 0 /\ Rotten.seq = 0 - 1 /\ NoBase.seq = 0
    BY <1>2 DEF Rotten, NoBase
  <2>2. base # Rotten /\ base # NoBase BY <2>1
  <2> QED BY <1>3, <2>1, <2>2, Constants
<1>6. Len(log.recs) = 0 /\ ~log.torn
  BY <1>2 DEF NoLog
<1>7. LogReadable(base, log) /\ ReplayValue(base, log) = job.snap
  BY <1>2, <1>5, EmptyReplay
<1>8. Readable(base, log)
  BY <1>5, <1>7 DEF Readable
<1>9. /\ base.spec = spec /\ c.seq = base.seq + Len(log.recs)
      /\ \A i \in 1..Len(log.recs) : log.recs[i].seq = base.seq + i
  BY <1>2, <1>3, <1>4, <1>5, <1>6
<1> HIDE DEF c
<1> QED BY <1>1, <1>s, <1>2, <1>3, <1>4, <1>5, <1>6, <1>7, <1>8, <1>9, SavedStep

LEMMA AppendPartlyStep == IInv /\ AppendPartly => IInv'
<1> SUFFICES ASSUME IInv, AppendPartly PROVE IInv'
  OBVIOUS
<1> USE FieldTypes DEF IInv
<1>1. job.at = "start" /\ ~cur.uncertain /\ ~WholeBase /\ cur.seq < MaxSeq
  BY DEF AppendPartly
<1>2. /\ up = "up" /\ ~refused /\ ~spoilt /\ ~job.rebase /\ job # NoJob
      /\ cur.known /\ baseDisk = {base} /\ logDisk = {log} /\ ~log.torn /\ Fits(log.recs)
  BY <1>1, AppendReady
<1> DEFINE m == [recs |-> log.recs, torn |-> TRUE]
<1>3. /\ up' = up /\ spec' = spec /\ live' = live /\ log' = m /\ logDisk' = {log, m}
      /\ base' = base /\ baseDisk' = baseDisk /\ refused' = refused /\ acked' = acked
      /\ tried' = tried /\ spoilt' = spoilt /\ faults' = faults /\ losses' = losses /\ rots' = rots
      /\ olderBase' = olderBase /\ olderLog' = olderLog
      /\ cur' = cur /\ job' = [job EXCEPT !.at = "partly"]
  BY <1>2 DEF AppendPartly, Goto, older, ghosts, budget
<1>4. /\ job' \in JobType /\ job'.at = "partly" /\ job'.kind = job.kind
      /\ job'.rebase = job.rebase /\ job'.snap = job.snap /\ job' # NoJob
  BY <1>1, <1>3 DEF JobType, NoJob
<1>5. m \in Logs /\ m.recs = log.recs /\ log \in Logs
  BY DEF Logs, TypeOK
<1> HIDE DEF m
<1>6. TypeOK'
  <2>1. (job'.at = "free" <=> job' = NoJob) /\ (up' = "boot" <=> job'.kind = "restore")
    BY <1>3, <1>4
  <2>2. log' \in Logs /\ logDisk' \subseteq Logs
    BY <1>3, <1>5
  <2> QED BY <1>3, <1>4, <2>1, <2>2 DEF TypeOK, CursorType, JobType
<1>7. FilesPart'
  BY <1>3 DEF FilesPart
<1>8. JobPart'
  <2>1. job'.snap \in tried' \/ (job'.snap = acked' /\ tried' = {} /\ ~spoilt')
    BY <1>2, <1>3, <1>4 DEF JobPart
  <2>2. job'.kind \in {"restore", "resetBase"} => job'.rebase
    BY <1>4 DEF JobPart
  <2> QED BY <1>1, <1>2, <1>3, <1>4, <2>1, <2>2 DEF JobPart
<1>9. PublishPart' /\ CursorPart'
  BY <1>4 DEF PublishPart, CursorPart, Sure
<1>10. AppendPart'
  <2>1. Fits(log.recs)'
    BY <1>2, <1>3, <1>5 DEF Fits, Bare
  <2>2. \A l \in logDisk' : l.recs = log'.recs
    BY <1>3, <1>5
  <2> QED BY <1>1, <1>2, <1>3, <1>4, <2>1, <2>2 DEF AppendPart
<1>11. /\ LogReadable(base, m) <=> LogReadable(base, log)
       /\ ReplaySeq(base, m) = ReplaySeq(base, log) /\ ReplayValue(base, m) = ReplayValue(base, log)
  BY <1>5, SameRecords
<1>12. base # NoBase
  BY <1>2 DEF Fits
<1>13. PairsPart'
  BY <1>2, <1>3, <1>11, <1>12 DEF PairsPart, Readable
<1>14. HorizonPart'
  <2>1. ReplaySeq(base, log) = cur.seq
    BY <1>1, <1>2 DEF HorizonPart
  <2>2. \A l \in logDisk : \A i \in 1..Len(l.recs) : l.recs[i].seq <= cur.seq + 1
    BY <1>2, <2>1 DEF HorizonPart
  <2>3. \A i \in 1..Len(m.recs) : m.recs[i].seq <= cur.seq + 1
    BY <1>2, <1>5, <2>2
  <2> QED BY <1>2, <1>3, <1>4, <1>11, <2>1, <2>2, <2>3 DEF HorizonPart
<1> QED BY <1>6, <1>7, <1>8, <1>9, <1>10, <1>13, <1>14

LEMMA FrontOfAppend ==
    ASSUME NEW s \in Seq(Records), NEW r \in Records
    PROVE  /\ Append(s, r) \in Seq(Records) /\ Front(Append(s, r)) = s /\ Append(s, r) # <<>>
           /\ Append(s, r)[Len(Append(s, r))] = r
<1>1. Append(s, r) \in Seq(Records) /\ Len(Append(s, r)) = Len(s) + 1 /\ Len(s) \in Nat
  OBVIOUS
<1>2. Append(s, r)[Len(s) + 1] = r /\ Append(s, r) # <<>>
  BY <1>1
<1>3. Front(Append(s, r)) = s
  BY <1>1 DEF Front
<1> QED BY <1>1, <1>2, <1>3

LEMMA AppendWholeStep == IInv /\ AppendWhole => IInv'
<1> SUFFICES ASSUME IInv, AppendWhole PROVE IInv'
  OBVIOUS
<1> USE FieldTypes DEF IInv
<1>1. job.at = "partly" /\ job # NoJob
  BY DEF AppendWhole, NoJob
<1>2. /\ up # "down" /\ ~refused /\ ~spoilt /\ ~job.rebase /\ ~cur.uncertain
      /\ baseDisk = {base} /\ Fits(log.recs) /\ cur.seq < MaxSeq
      /\ \A l \in logDisk : l.recs = log.recs
  BY <1>1 DEF JobPart, AppendPart
<1> DEFINE m == [recs |-> Append(log.recs, Record), torn |-> FALSE]
<1>3. /\ up' = up /\ spec' = spec /\ live' = live /\ log' = m /\ logDisk' = logDisk \cup {m}
      /\ base' = base /\ baseDisk' = baseDisk /\ refused' = refused /\ acked' = acked
      /\ tried' = tried /\ spoilt' = spoilt /\ faults' = faults /\ losses' = losses /\ rots' = rots
      /\ olderBase' = olderBase /\ olderLog' = olderLog
      /\ cur' = cur /\ job' = [job EXCEPT !.at = "whole"]
  BY <1>2 DEF AppendWhole, Goto, older, ghosts, budget
<1>4. /\ job' \in JobType /\ job'.at = "whole" /\ job'.kind = job.kind
      /\ job'.rebase = job.rebase /\ job'.snap = job.snap /\ job' # NoJob
  BY <1>1, <1>3 DEF JobType, NoJob
<1>5. Record \in Records
  <2>1. cur.seq + 1 \in Sequences0 /\ spec \in SpecIds
    BY <1>2, BoundAssumption DEF Sequences0, TypeOK, SpecIds
  <2>2. job.snap \ cur.val \in Values /\ cur.val \ job.snap \in Values
    BY DEF Values
  <2> QED BY <2>1, <2>2 DEF Record, Records
<1>6. m.recs = Append(log.recs, Record) /\ m \in Logs /\ log \in Logs /\ m.torn = FALSE
  <2>1. Append(log.recs, Record) \in Seq(Records)
    BY <1>5
  <2> QED BY <2>1 DEF Logs, TypeOK
<1> HIDE DEF m
<1>7. Front(m.recs) = log.recs /\ m.recs # <<>> /\ m.recs[Len(m.recs)] = Record
  BY <1>5, <1>6, FrontOfAppend
<1>8. TypeOK'
  <2>1. (job'.at = "free" <=> job' = NoJob) /\ (up' = "boot" <=> job'.kind = "restore")
    BY <1>3, <1>4
  <2>2. log' \in Logs /\ logDisk' \subseteq Logs
    BY <1>3, <1>6 DEF TypeOK
  <2> QED BY <1>3, <1>4, <2>1, <2>2 DEF TypeOK, CursorType, JobType
<1>9. FilesPart'
  BY <1>3 DEF FilesPart
<1>10. JobPart'
  <2>1. job'.snap \in tried' \/ (job'.snap = acked' /\ tried' = {} /\ ~spoilt')
    BY <1>1, <1>3, <1>4 DEF JobPart
  <2>2. job'.kind \in {"restore", "resetBase"} => job'.rebase
    BY <1>4 DEF JobPart
  <2> QED BY <1>2, <1>3, <1>4, <2>1, <2>2 DEF JobPart
<1>11. PublishPart' /\ CursorPart'
  BY <1>4 DEF PublishPart, CursorPart, Sure
<1>12. AppendPart'
  <2>1. Fits(Front(log.recs))'
    <3>1. Fits(log.recs) BY <1>2
    <3>2. Front(log'.recs) = log.recs BY <1>3, <1>7
    <3> QED BY <1>3, <3>1, <3>2 DEF Fits, Bare
  <2>2. Record' = Record
    BY <1>3, <1>4 DEF Record
  <2>3. \A l \in logDisk' : l.recs \in {log'.recs, Front(log'.recs)}
    BY <1>2, <1>3, <1>7
  <2>4. \E l \in logDisk' : l.recs = Front(log'.recs)
    BY <1>3, <1>7 DEF FilesPart
  <2> QED BY <1>2, <1>3, <1>4, <1>6, <1>7, <2>1, <2>2, <2>3, <2>4 DEF AppendPart
<1>13. /\ ReplaySeq(base, m) = cur.seq + 1 /\ ReplayValue(base, m) = job.snap
       /\ LogReadable(base, log) => LogReadable(base, m)
  BY <1>2, <1>5, <1>6, RecordReplay
<1>14. base # NoBase
  BY <1>2 DEF Fits
<1>15. base # Rotten /\ LogReadable(base, log) /\ ReplaySeq(base, log) = cur.seq
  BY <1>1, <1>2, <1>14, KnownBase DEF FilesPart, HorizonPart
<1>16. PairsPart'
  <2>1. job.snap \in {acked} \cup tried
    BY <1>1 DEF JobPart
  <2> QED BY <1>2, <1>3, <1>13, <1>14, <1>15, <2>1 DEF PairsPart, Readable
<1>17. HorizonPart'
  <2>1. ASSUME NEW l \in logDisk, NEW i \in 1..Len(l.recs) PROVE l.recs[i].seq <= cur.seq + 1 + 1
    <3>1. l.recs[i].seq <= cur.seq + 1 /\ l \in Logs
      BY <1>2, <1>15 DEF HorizonPart, TypeOK
    <3>2. l.recs[i].seq \in Nat BY <3>1, RecordTypes
    <3> QED BY <3>1, <3>2
  <2>2. ASSUME NEW i \in 1..Len(m.recs) PROVE m.recs[i].seq <= cur.seq + 1 + 1
    <3>1. m.recs[i].seq <= cur.seq + 1 /\ m.recs[i].seq \in Nat
      BY <1>2, <1>6, <1>13, <1>14, KnownBase, ReplayReachesAll, RecordTypes
    <3> QED BY <3>1
  <2> QED BY <1>2, <1>3, <1>4, <1>13, <2>1, <2>2 DEF HorizonPart
<1> QED BY <1>8, <1>9, <1>10, <1>11, <1>12, <1>16, <1>17

(* What the journal is once the whole record is in it.                       *)
LEMMA WholeRecord ==
    ASSUME IInv, job.at = "whole"
    PROVE  /\ job # NoJob /\ ~cur.uncertain /\ ~spoilt /\ ~refused /\ baseDisk = {base}
           /\ Bare(Front(log.recs)) \in Logs /\ Bare(Front(log.recs)).recs = Front(log.recs)
           /\ Len(log.recs) \in Nat \ {0} /\ Len(Front(log.recs)) = Len(log.recs) - 1
           /\ log.recs = Append(Front(log.recs), Record) /\ Record \in Records
           /\ Fits(Front(log.recs))
           /\ \A i \in 1..Len(log.recs) : log.recs[i].seq = base.seq + i
<1> USE FieldTypes DEF IInv
<1>1. job # NoJob /\ ~cur.uncertain /\ ~spoilt /\ ~refused
  BY DEF NoJob, JobPart
<1>2. /\ baseDisk = {base} /\ log.recs # <<>> /\ Fits(Front(log.recs))
      /\ log.recs[Len(log.recs)] = Record
  BY DEF AppendPart
<1>3. Len(log.recs) \in Nat \ {0}
  BY <1>2
<1>4. /\ Front(log.recs) \in Seq(Records) /\ Len(Front(log.recs)) = Len(log.recs) - 1
      /\ \A i \in 1..(Len(log.recs) - 1) : Front(log.recs)[i] = log.recs[i]
  BY <1>3 DEF Front
<1>5. Record \in Records
  <2>1. Len(log.recs) \in 1..Len(log.recs) BY <1>3
  <2>2. log.recs[Len(log.recs)] \in Records BY <2>1
  <2> QED BY <1>2, <2>2
<1>6. log.recs = Append(Front(log.recs), Record)
  <2> DEFINE s == log.recs
             f == Front(log.recs)
             r == Record
  <2>1. s \in Seq(Records) /\ f \in Seq(Records) /\ r \in Records /\ Len(f) = Len(s) - 1 /\ Len(s) \in Nat \ {0}
    BY <1>3, <1>4, <1>5
  <2>2. \A i \in 1..(Len(s) - 1) : f[i] = s[i]
    BY <1>4
  <2>3. s[Len(s)] = r
    BY <1>2
  <2> HIDE DEF s, f, r
  <2>4. /\ Append(f, r) \in Seq(Records) /\ Len(Append(f, r)) = Len(s)
        /\ \A i \in 1..Len(s) : Append(f, r)[i] = s[i]
    BY <2>1, <2>2, <2>3
  <2>5. s = Append(f, r)
    BY <2>1, <2>4, SeqEqual
  <2> QED BY <2>5 DEF s, f, r
<1>7. Bare(Front(log.recs)) \in Logs /\ Bare(Front(log.recs)).recs = Front(log.recs)
  BY <1>4 DEF Bare, Logs
<1>8. ASSUME NEW i \in 1..Len(log.recs) PROVE log.recs[i].seq = base.seq + i
  <2>1. base.seq \in Nat
    <3>1. base \in KnownBases BY <1>1, <1>2, KnownBase DEF Fits
    <3> QED BY <3>1, BoundAssumption DEF KnownBases, Sequences0
  <2>2. /\ \A j \in 1..(Len(log.recs) - 1) : Front(log.recs)[j].seq = base.seq + j
        /\ cur.seq = base.seq + (Len(log.recs) - 1)
    BY <1>2, <1>4 DEF Fits
  <2>3. CASE i = Len(log.recs)
    <3>1. Record.seq = cur.seq + 1 BY DEF Record
    <3> QED BY <1>2, <1>3, <2>1, <2>2, <2>3, <3>1
  <2>4. CASE i # Len(log.recs)
    <3>1. i \in 1..(Len(log.recs) - 1) BY <1>3, <2>4
    <3> QED BY <1>4, <2>2, <3>1
  <2> QED BY <2>3, <2>4
<1> QED BY <1>1, <1>2, <1>3, <1>4, <1>5, <1>6, <1>7, <1>8

LEMMA AppendSyncStep == IInv /\ AppendSync => IInv'
<1> SUFFICES ASSUME IInv, AppendSync PROVE IInv'
  OBVIOUS
<1> DEFINE c == [cur EXCEPT !.tail = FALSE, !.val = job.snap, !.seq = @ + 1]
<1>1. /\ job.at = "whole" /\ Saved(c)
      /\ base' = base /\ log' = log /\ baseDisk' = baseDisk /\ logDisk' = {log}
  BY DEF AppendSync, SyncDirectory
<1>s. faults' \in 0..MaxFaults /\ olderBase' \subseteq Bases /\ olderLog' \subseteq Logs
  <2>1. CASE SyncDirectory(baseDisk, {log})
    BY <2>1, SyncTypes DEF IInv
  <2>2. CASE UNCHANGED <<baseDisk, older, faults>>
    BY <2>2 DEF older, IInv, TypeOK
  <2> QED BY <2>1, <2>2 DEF AppendSync
<1>2. log \in Logs /\ cur \in CursorType /\ job.snap \in Values
  BY <1>1, FieldTypes DEF IInv, TypeOK
<1> HIDE DEF c
<1> DEFINE l == Bare(Front(log.recs))
<1>3. /\ job # NoJob /\ ~spoilt /\ baseDisk = {base} /\ l \in Logs /\ l.recs = Front(log.recs)
      /\ Len(log.recs) \in Nat \ {0} /\ Len(l.recs) = Len(log.recs) - 1
      /\ log.recs = Append(l.recs, Record) /\ Record \in Records /\ Fits(l.recs)
      /\ \A i \in 1..Len(log.recs) : log.recs[i].seq = base.seq + i
  BY <1>1, WholeRecord
<1> HIDE DEF l
<1>4. ReplayValue(base, log) = job.snap
  BY <1>2, <1>3, RecordReplay
<1>5. base # NoBase /\ base \in KnownBases
  BY <1>3, KnownBase DEF Fits
<1>6. Readable(base, log)
  BY <1>3 DEF IInv, PairsPart, FilesPart
<1>7. cur.known /\ cur.spec = spec /\ base.spec = spec /\ cur.seq = base.seq + (Len(log.recs) - 1)
  BY <1>3 DEF Fits
<1>8. cur.seq + 1 = base.seq + Len(log.recs) /\ cur.seq + 1 \in Sequences0
  <2> DEFINE r == Record
  <2>3. r.seq = cur.seq + 1 /\ r \in Records
    BY <1>3 DEF Record
  <2>1. r.seq \in Sequences0 /\ r.seq = cur.seq + 1
    <3> HIDE DEF r
    <3> QED BY <2>3 DEF Records
  <2>2. base.seq \in Nat BY <1>5, BoundAssumption DEF KnownBases, Sequences0
  <2>4. cur.seq + 1 = base.seq + Len(log.recs)
    <3> DEFINE n == Len(log.recs)
    <3>1. n \in Nat /\ cur.seq = base.seq + (n - 1) BY <1>3, <1>7
    <3> HIDE DEF n
    <3>2. cur.seq + 1 = base.seq + n BY <2>2, <3>1
    <3> QED BY <3>2 DEF n
  <2> HIDE DEF r
  <2> QED BY <2>1, <2>4
<1>9. /\ c \in CursorType /\ c.known /\ c.spec = spec /\ c.val = job.snap
      /\ c.seq = base.seq + Len(log.recs)
  BY <1>2, <1>7, <1>8 DEF c, CursorType
<1>10. ~log.torn
  BY <1>1 DEF IInv, AppendPart
<1> QED BY <1>1, <1>s, <1>2, <1>3, <1>4, <1>5, <1>6, <1>7, <1>9, <1>10, SavedStep

(* Cutting the line off again leaves a journal the medium may hold already.  *)
LEMMA AppendFailsStep == IInv /\ AppendFails => IInv'
<1> SUFFICES ASSUME IInv, AppendFails PROVE IInv'
  OBVIOUS
<1> USE FieldTypes DEF IInv
<1>1. /\ job.at \in {"partly", "whole"} /\ job # NoJob /\ Fault /\ Raised(cur)
      /\ base' = base /\ baseDisk' = baseDisk /\ olderBase' = olderBase /\ olderLog' = olderLog
  BY DEF AppendFails, older, NoJob
<1>2. faults' \in 0..MaxFaults
  BY <1>1, FaultCounted
<1>3. ~spoilt /\ baseDisk = {base} /\ up # "down" /\ ~cur.uncertain
  BY <1>1 DEF JobPart, AppendPart
<1>4. CASE log' = log /\ logDisk' = logDisk
  BY <1>1, <1>2, <1>4, RaisedSameFiles DEF files, older
<1>5. CASE ~(log' = log /\ logDisk' = logDisk)
  <2> DEFINE m == [recs |-> IF job.at = "partly" THEN log.recs
                            ELSE SubSeq(log.recs, 1, Len(log.recs) - 1),
                   torn |-> FALSE]
  <2>1. log' = m /\ logDisk' = logDisk \cup {m}
    BY <1>5 DEF AppendFails
  <2>2. /\ m \in Logs /\ Fits(m.recs) /\ \E l \in logDisk : l.recs = m.recs
        /\ \A l \in logDisk : \A i \in 1..Len(l.recs) : l.recs[i].seq <= cur.seq + 1
    <3>1. CASE job.at = "partly"
      <4>1. m.recs = log.recs /\ m \in Logs
        BY <3>1 DEF Logs, TypeOK
      <4>2. Fits(m.recs) /\ \E l \in logDisk : l.recs = m.recs
        BY <3>1, <4>1 DEF AppendPart, FilesPart
      <4>3. ReplaySeq(base, log) = cur.seq
        BY <1>3, <3>1 DEF HorizonPart
      <4> HIDE DEF m
      <4> QED BY <1>3, <4>1, <4>2, <4>3 DEF HorizonPart
    <3>2. CASE job.at = "whole"
      <4>1. m = Bare(Front(log.recs))
        BY <3>2 DEF Bare, Front
      <4>2. m \in Logs /\ m.recs = Front(log.recs) /\ Fits(m.recs)
        BY <3>2, <4>1, WholeRecord
      <4>3. \E l \in logDisk : l.recs = m.recs
        BY <3>2, <4>2 DEF AppendPart
      <4> HIDE DEF m
      <4>4. ASSUME NEW l \in logDisk, NEW i \in 1..Len(l.recs) PROVE l.recs[i].seq <= cur.seq + 1
        <5>1. l.recs \in {log.recs, Front(log.recs)}
          BY <3>2, <4>4 DEF AppendPart
        <5>2. /\ Len(log.recs) \in Nat \ {0} /\ Len(Front(log.recs)) = Len(log.recs) - 1
              /\ \A j \in 1..Len(log.recs) : log.recs[j].seq = base.seq + j
              /\ \A j \in 1..Len(Front(log.recs)) : Front(log.recs)[j].seq = base.seq + j
              /\ cur.seq = base.seq + Len(Front(log.recs))
          BY <3>2, WholeRecord DEF Fits
        <5>3. base.seq \in Nat
          <6>1. base \in KnownBases BY <1>3, <4>2, KnownBase DEF Fits
          <6> QED BY <6>1, BoundAssumption DEF KnownBases, Sequences0
        <5>4. i \in Nat /\ i <= Len(log.recs) /\ l.recs[i].seq = base.seq + i
          BY <4>4, <5>1, <5>2
        <5>5. cur.seq + 1 = base.seq + Len(log.recs)
          <6> DEFINE n == Len(log.recs)
          <6>1. n \in Nat /\ cur.seq = base.seq + (n - 1) BY <5>2
          <6> HIDE DEF n
          <6>2. cur.seq + 1 = base.seq + n BY <5>3, <6>1
          <6> QED BY <6>2 DEF n
        <5> QED BY <5>2, <5>3, <5>4, <5>5
      <4> QED BY <4>2, <4>3, <4>4
    <3> QED BY <1>1, <3>1, <3>2
  <2> HIDE DEF m
  <2>3. base # NoBase /\ base # Rotten /\ ReplaySeq(base, m) = cur.seq
    BY <1>3, <2>2, KnownBase, FitsReplay DEF Fits
  <2>4. PICK k \in logDisk : k.recs = m.recs
    BY <2>2
  <2>5. Readable(base, m) /\ ReplayValue(base, m) \in {acked} \cup tried
    <3>1. LogReadable(base, k) /\ ReplayValue(base, k) \in {acked} \cup tried
      BY <1>3, <2>3, <2>4 DEF PairsPart, FilesPart, Readable
    <3>2. (LogReadable(base, k) <=> LogReadable(base, m)) /\ ReplayValue(base, k) = ReplayValue(base, m)
      BY <2>4, SameRecords
    <3> QED BY <2>3, <3>1, <3>2 DEF Readable
  <2>6. \A i \in 1..Len(m.recs) : m.recs[i].seq <= cur.seq + 1
    BY <2>2, <2>4
  <2>7. ~spoilt => \A l \in logDisk' :
          /\ \A b \in baseDisk : Readable(b, l) /\ ReplayValue(b, l) \in {acked} \cup tried
          /\ \A i \in 1..Len(l.recs) : l.recs[i].seq <= ReplaySeq(base, log') + 1
    BY <1>3, <2>1, <2>2, <2>3, <2>5, <2>6 DEF PairsPart
  <2>8. log' \in Logs /\ logDisk' \subseteq Logs /\ log' \in logDisk'
    BY <2>1, <2>2 DEF TypeOK
  <2> QED BY <1>1, <1>2, <2>7, <2>8, RaisedStep
<1> QED BY <1>4, <1>5

(* Starting or ending a job before its save leaves the files and the cursor. *)
LEMMA JobOnly ==
    ASSUME IInv, UNCHANGED <<up, spec, files, cur, refused, acked, spoilt, losses, rots>>,
           live' \in Values, tried \subseteq tried', tried' \subseteq Values,
           faults' \in 0..MaxFaults, up = "up", job' \in JobType,
           job'.at = "free" <=> job' = NoJob, job'.kind # "restore",
           job.at \in {"free", "staging", "start"}, job'.at \in {"free", "staging", "start"},
           ~refused /\ ~job'.rebase => ~job.rebase,
           JobPart'
    PROVE  IInv'
<1> USE FieldTypes DEF IInv
<1>1. /\ up' = up /\ spec' = spec /\ base' = base /\ log' = log /\ baseDisk' = baseDisk
      /\ logDisk' = logDisk /\ cur' = cur /\ refused' = refused /\ acked' = acked
      /\ spoilt' = spoilt /\ losses' = losses /\ rots' = rots
      /\ olderBase' = olderBase /\ olderLog' = olderLog
  BY DEF files, older
<1>2. TypeOK'
  <2>1. (job'.at = "free" <=> job' = NoJob) /\ (up' = "boot" <=> job'.kind = "restore")
    BY <1>1
  <2> QED BY <1>1, <2>1 DEF TypeOK, JobType
<1>3. FilesPart' /\ PairsPart'
  BY <1>1 DEF FilesPart, PairsPart
<1>4. PublishPart' /\ AppendPart'
  BY DEF PublishPart, AppendPart
<1>5. CursorPart'
  <2>1. Sure' => Sure
    BY <1>1 DEF Sure
  <2>2. Fits(log.recs) => Fits(log.recs)'
    BY <1>1 DEF Fits
  <2> QED BY <1>1, <2>1, <2>2 DEF CursorPart
<1>6. HorizonPart'
  BY <1>1 DEF HorizonPart
<1> QED BY <1>2, <1>3, <1>4, <1>5, <1>6

LEMMA CheckpointStep == IInv /\ Checkpoint => IInv'
<1> SUFFICES ASSUME IInv, Checkpoint PROVE IInv'
  OBVIOUS
<1> USE FieldTypes DEF IInv
<1>1. /\ up = "up" /\ job = NoJob /\ ~refused /\ tried' = tried \cup {live} /\ live' = live
      /\ UNCHANGED <<up, spec, files, cur, refused, acked, spoilt, losses, rots>> /\ faults' = faults
  BY DEF Checkpoint, budget
<1>2. PICK rebase \in BOOLEAN :
        job' = [NoJob EXCEPT !.kind = "checkpoint", !.at = "start", !.snap = live,
                             !.rebase = rebase \/ (cur.known /\ cur.spec # spec)]
  BY DEF Checkpoint
<1>3. live \in Values
  BY DEF TypeOK
<1>4. /\ job' \in JobType /\ job'.kind = "checkpoint" /\ job'.at = "start" /\ job'.snap = live
      /\ job' # NoJob
  <2>1. (rebase \/ (cur.known /\ cur.spec # spec)) \in BOOLEAN
    OBVIOUS
  <2> QED BY <1>2, <1>3, <2>1, Constants DEF JobType, NoJob
<1>5. JobPart'
  BY <1>1, <1>4 DEF JobPart
<1>6. /\ live' \in Values /\ tried \subseteq tried' /\ tried' \subseteq Values
      /\ faults' \in 0..MaxFaults
  BY <1>1 DEF TypeOK
<1>7. /\ job'.at = "free" <=> job' = NoJob
      /\ job'.kind # "restore"
      /\ job.at \in {"free", "staging", "start"} /\ job'.at \in {"free", "staging", "start"}
      /\ ~refused /\ ~job'.rebase => ~job.rebase
  BY <1>1, <1>4
<1> QED BY <1>1, <1>4, <1>5, <1>6, <1>7, JobOnly

LEMMA ResetStep == IInv /\ Reset => IInv'
<1> SUFFICES ASSUME IInv, Reset PROVE IInv'
  OBVIOUS
<1> USE FieldTypes DEF IInv
<1>1. /\ up = "up" /\ job = NoJob /\ tried' = tried \cup {{}} /\ live' = {}
      /\ UNCHANGED <<up, spec, files, cur, refused, acked, spoilt, losses, rots>> /\ faults' = faults
      /\ job' = [kind |-> IF refused THEN "resetBase" ELSE "reset", at |-> "staging",
                 snap |-> {}, rebase |-> refused, before |-> live, from |-> cur.seq]
  BY DEF Reset, budget
<1>2. live \in Values /\ refused \in BOOLEAN
  BY DEF TypeOK
<1>3. /\ job' \in JobType /\ job'.kind = (IF refused THEN "resetBase" ELSE "reset")
      /\ job'.at = "staging" /\ job'.snap = {} /\ job' # NoJob /\ job'.rebase = refused
  BY <1>1, <1>2, Constants DEF JobType, NoJob
<1>4. JobPart'
  <2>1. job'.kind \in {"reset", "resetBase"} /\ (job'.kind = "resetBase" <=> refused)
    BY <1>3
  <2>2. refused' = refused /\ up' = "up" /\ job'.snap \in tried'
    BY <1>1, <1>3
  <2> QED BY <1>2, <1>3, <2>1, <2>2 DEF JobPart
<1>5. /\ live' \in Values /\ tried \subseteq tried' /\ tried' \subseteq Values
      /\ faults' \in 0..MaxFaults
  BY <1>1, Constants DEF TypeOK
<1>6. /\ job'.at = "free" <=> job' = NoJob
      /\ job'.kind # "restore"
      /\ job.at \in {"free", "staging", "start"} /\ job'.at \in {"free", "staging", "start"}
      /\ ~refused /\ ~job'.rebase => ~job.rebase
  BY <1>1, <1>3
<1> QED BY <1>1, <1>3, <1>4, <1>5, <1>6, JobOnly

(* A job that stages an archive belongs to a running process.                *)
LEMMA StagingPlace ==
    ASSUME IInv, job.at = "staging"
    PROVE  /\ up = "up" /\ job # NoJob /\ job.kind \in {"reset", "resetBase"} /\ job.rebase = refused
           /\ refused \in BOOLEAN /\ refused => job.kind = "resetBase"
<1> USE FieldTypes DEF IInv
<1>1. job # NoJob /\ job.kind \in {"reset", "resetBase"} /\ job.rebase = refused /\ refused \in BOOLEAN
  BY DEF NoJob, JobPart, TypeOK
<1> QED BY <1>1 DEF JobPart, TypeOK

LEMMA ResetStagedStep == IInv /\ ResetStaged => IInv'
<1> SUFFICES ASSUME IInv, ResetStaged PROVE IInv'
  OBVIOUS
<1> USE FieldTypes DEF IInv
<1>1. /\ job.at = "staging" /\ job' = [job EXCEPT !.at = "start"] /\ tried' = tried /\ live' = live
      /\ UNCHANGED <<up, spec, files, cur, refused, acked, spoilt, losses, rots>> /\ faults' = faults
  BY DEF ResetStaged, Goto, budget, ghosts
<1>2. /\ up = "up" /\ job # NoJob /\ job.kind \in {"reset", "resetBase"} /\ job.rebase = refused
      /\ refused \in BOOLEAN /\ refused => job.kind = "resetBase"
  BY <1>1, StagingPlace
<1>3. /\ job' \in JobType /\ job'.at = "start" /\ job'.kind = job.kind
      /\ job'.rebase = job.rebase /\ job'.snap = job.snap /\ job' # NoJob
  BY <1>1 DEF JobType, NoJob
<1>4. JobPart'
  <2>1. job'.snap \in tried' \/ (job'.snap = acked' /\ tried' = {} /\ ~spoilt')
    BY <1>1, <1>2, <1>3 DEF JobPart
  <2>2. job'.kind \in {"restore", "resetBase"} => job'.rebase
    BY <1>3 DEF JobPart
  <2> QED BY <1>1, <1>2, <1>3, <2>1, <2>2 DEF JobPart
<1>5. /\ live' \in Values /\ tried \subseteq tried' /\ tried' \subseteq Values
      /\ faults' \in 0..MaxFaults
  BY <1>1 DEF TypeOK
<1>6. /\ job'.at = "free" <=> job' = NoJob
      /\ job'.kind # "restore"
      /\ job.at \in {"free", "staging", "start"} /\ job'.at \in {"free", "staging", "start"}
      /\ ~refused /\ ~job'.rebase => ~job.rebase
  BY <1>1, <1>2, <1>3
<1> QED BY <1>1, <1>2, <1>3, <1>4, <1>5, <1>6, JobOnly

LEMMA ResetAbortsStep == IInv /\ ResetAborts => IInv'
<1> SUFFICES ASSUME IInv, ResetAborts PROVE IInv'
  OBVIOUS
<1> USE FieldTypes DEF IInv
<1>1. /\ job.at = "staging" /\ job' = NoJob /\ tried' = tried /\ live' = job.before /\ Fault
      /\ UNCHANGED <<up, spec, files, cur, refused, acked, spoilt, losses, rots>>
  BY DEF ResetAborts, ghosts
<1>2. /\ up = "up" /\ job # NoJob /\ job.kind \in {"reset", "resetBase"} /\ job.rebase = refused
      /\ refused \in BOOLEAN
  BY <1>1, StagingPlace
<1>3. job' \in JobType /\ job'.at = "free" /\ job'.kind = "none"
  BY <1>1, Constants
<1>4. JobPart'
  BY <1>1, <1>2, <1>3 DEF JobPart
<1>5. /\ live' \in Values /\ tried \subseteq tried' /\ tried' \subseteq Values
      /\ faults' \in 0..MaxFaults
  BY <1>1, FaultCounted DEF TypeOK
<1>6. /\ job'.at = "free" <=> job' = NoJob
      /\ job'.kind # "restore"
      /\ job.at \in {"free", "staging", "start"} /\ job'.at \in {"free", "staging", "start"}
      /\ ~refused /\ ~job'.rebase => ~job.rebase
  BY <1>1, <1>2, <1>3
<1> QED BY <1>1, <1>2, <1>3, <1>4, <1>5, <1>6, JobOnly

(* A process that starts finds the files as they are.                        *)
LEMMA BootStep ==
    ASSUME IInv, up = "down", up' \in {"boot", "up"}, spec' \in Specs,
           UNCHANGED <<files, acked, spoilt, budget>>,
           live' \in Values, tried \subseteq tried', tried' \subseteq Values,
           cur' \in CursorType, job' \in JobType, refused' \in BOOLEAN, JobPart',
           job'.at = "free" <=> job' = NoJob, up' = "boot" <=> job'.kind = "restore",
           job'.at \in {"free", "start"},
           Sure' => ~cur'.known,
           ~spoilt => cur'.seq = ReplaySeq(base, log)
    PROVE  IInv'
<1> USE DEF IInv
<1>1. /\ base' = base /\ log' = log /\ baseDisk' = baseDisk /\ logDisk' = logDisk
      /\ acked' = acked /\ spoilt' = spoilt /\ faults' = faults /\ losses' = losses /\ rots' = rots
      /\ olderBase' = olderBase /\ olderLog' = olderLog
  BY DEF files, older, budget
<1>2. TypeOK'
  <2>1. up' \in {"down", "boot", "up"} OBVIOUS
  <2> QED BY <1>1, <2>1 DEF TypeOK, JobType, CursorType
<1>3. FilesPart' /\ PairsPart'
  BY <1>1 DEF FilesPart, PairsPart
<1>4. PublishPart' /\ AppendPart'
  BY DEF PublishPart, AppendPart
<1>5. CursorPart'
  BY <1>1 DEF CursorPart
<1>6. HorizonPart'
  BY <1>1 DEF HorizonPart
<1> QED BY <1>2, <1>3, <1>4, <1>5, <1>6

LEMMA DownState ==
    ASSUME IInv, up = "down"
    PROVE  /\ cur = NoCursor /\ refused = FALSE /\ job = NoJob
           /\ NoCursor.seq = 0 /\ NoCursor.known = FALSE /\ NoCursor.uncertain = FALSE
BY DEF IInv, JobPart, NoCursor, TypeOK

LEMMA BootFreshStep == IInv /\ BootFresh => IInv'
<1> SUFFICES ASSUME IInv, BootFresh PROVE IInv'
  OBVIOUS
<1> USE FieldTypes DEF IInv
<1>1. /\ up = "down" /\ up' = "up" /\ spec' \in Specs /\ base = NoBase /\ log = NoLog
      /\ UNCHANGED <<files, acked, spoilt, budget>>
      /\ live' = live /\ tried' = tried /\ cur' = cur /\ job' = job /\ refused' = refused
  BY DEF BootFresh, ghosts
<1>2. /\ cur = NoCursor /\ refused = FALSE /\ job = NoJob
      /\ NoCursor.seq = 0 /\ NoCursor.known = FALSE /\ NoCursor.uncertain = FALSE
  BY <1>1, DownState
<1>3. /\ live' \in Values /\ tried \subseteq tried' /\ tried' \subseteq Values
      /\ cur' \in CursorType /\ job' \in JobType /\ refused' \in BOOLEAN
  BY <1>1, <1>2 DEF TypeOK
<1>4. JobPart'
  BY <1>1, <1>2 DEF JobPart
<1>5. (job'.at = "free" <=> job' = NoJob) /\ (up' = "boot" <=> job'.kind = "restore") /\ job'.at = "free"
  BY <1>1, <1>2
<1>6. ~cur'.known
  BY <1>1, <1>2
<1>7. cur'.seq = ReplaySeq(base, log)
  <2>1. NoBase.seq = 0 BY DEF NoBase
  <2> QED BY <1>1, <1>2, <2>1, Constants, EmptyReplay
<1> QED BY <1>1, <1>3, <1>4, <1>5, <1>6, <1>7, BootStep

LEMMA BootRestoresStep == IInv /\ BootRestores => IInv'
<1> SUFFICES ASSUME IInv, BootRestores PROVE IInv'
  OBVIOUS
<1> USE FieldTypes DEF IInv
<1>1. /\ up = "down" /\ up' = "boot" /\ spec' \in Specs /\ Readable(base, log)
      /\ UNCHANGED <<files, acked, spoilt, budget>>
      /\ live' = ReplayValue(base, log) \ {Active} /\ tried' = tried \cup {live'}
      /\ cur' = ReadCursor /\ refused' = refused
      /\ job' = [NoJob EXCEPT !.kind = "restore", !.at = "start", !.snap = live', !.rebase = TRUE]
  BY DEF BootRestores
<1>2. /\ cur = NoCursor /\ refused = FALSE /\ job = NoJob
      /\ NoCursor.seq = 0 /\ NoCursor.known = FALSE /\ NoCursor.uncertain = FALSE
  BY <1>1, DownState
<1>3. cur' \in CursorType /\ cur'.uncertain = FALSE /\ cur'.seq = ReplaySeq(base, log)
  BY <1>1, <1>2, ReadCursorFacts
<1>4. live' \in Values
  BY <1>1 DEF ReplayValue, Values
<1>5. /\ job' \in JobType /\ job'.kind = "restore" /\ job'.at = "start" /\ job'.rebase = TRUE
      /\ job'.snap = live' /\ job' # NoJob
  BY <1>1, <1>4, Constants DEF JobType, NoJob
<1>6. JobPart'
  BY <1>1, <1>2, <1>5 DEF JobPart
<1>7. tried \subseteq tried' /\ tried' \subseteq Values /\ refused' \in BOOLEAN
  BY <1>1, <1>2, <1>4 DEF TypeOK
<1>8. (job'.at = "free" <=> job' = NoJob) /\ (up' = "boot" <=> job'.kind = "restore")
  BY <1>1, <1>5
<1>9. ~Sure'
  BY <1>1 DEF Sure
<1> QED BY <1>1, <1>3, <1>4, <1>5, <1>6, <1>7, <1>8, <1>9, BootStep

(* Only files the medium spoilt cannot be read.                              *)
LEMMA BootRefusesStep == IInv /\ BootRefuses => IInv'
<1> SUFFICES ASSUME IInv, BootRefuses PROVE IInv'
  OBVIOUS
<1> USE FieldTypes DEF IInv
<1>1. /\ up = "down" /\ up' = "up" /\ spec' \in Specs /\ refused' = TRUE
      /\ UNCHANGED <<files, acked, spoilt, budget>>
      /\ live' = live /\ tried' = tried /\ job' = job
  BY DEF BootRefuses, ghosts
<1>2. /\ cur = NoCursor /\ refused = FALSE /\ job = NoJob
      /\ NoCursor.seq = 0 /\ NoCursor.known = FALSE /\ NoCursor.uncertain = FALSE
  BY <1>1, DownState
<1>3. cur' \in CursorType /\ (~spoilt => cur'.seq = ReplaySeq(base, log))
  <2>1. CASE Readable(base, log)
    <3>1. cur' = ReadCursor BY <2>1 DEF BootRefuses
    <3> QED BY <2>1, <3>1, ReadCursorFacts
  <2>2. CASE ~Readable(base, log)
    <3>1. cur' = cur BY <2>2 DEF BootRefuses
    <3>2. spoilt BY <2>2 DEF PairsPart, FilesPart
    <3> QED BY <3>1, <3>2
  <2> QED BY <2>1, <2>2
<1>4. /\ live' \in Values /\ tried \subseteq tried' /\ tried' \subseteq Values
      /\ job' \in JobType /\ refused' \in BOOLEAN
  BY <1>1, <1>2 DEF TypeOK
<1>5. JobPart'
  BY <1>1, <1>2 DEF JobPart
<1>6. (job'.at = "free" <=> job' = NoJob) /\ (up' = "boot" <=> job'.kind = "restore") /\ job'.at = "free"
  BY <1>1, <1>2
<1>7. ~Sure'
  BY <1>1 DEF Sure
<1> QED BY <1>1, <1>3, <1>4, <1>5, <1>6, <1>7, BootStep

(* A loss forgets the cursor and the job; what the medium may hold stays.    *)
LEMMA LossStep ==
    ASSUME IInv, Forget, losses' \in 0..MaxLosses, rots' = rots,
           spoilt' \in BOOLEAN, ~spoilt' => ~spoilt,
           olderBase' \subseteq olderBase, olderLog' \subseteq olderLog,
           base' \in Bases, log' \in Logs, baseDisk' \subseteq Bases, logDisk' \subseteq Logs,
           base' \in baseDisk', log' \in logDisk',
           ~spoilt' => baseDisk' \subseteq baseDisk /\ logDisk' \subseteq logDisk,
           ~spoilt' => \A l \in logDisk' : \A i \in 1..Len(l.recs) :
               l.recs[i].seq <= ReplaySeq(base', log') + 1
    PROVE  IInv'
<1> USE DEF IInv
<1>1. /\ up' = "down" /\ live' = {} /\ cur' = NoCursor /\ refused' = FALSE /\ job' = NoJob
      /\ spec' = spec /\ acked' = acked /\ tried' = tried /\ faults' = faults
  BY DEF Forget
<1>2. job'.at = "free" /\ job'.kind = "none"
  BY <1>1 DEF NoJob
<1>3. TypeOK'
  <2>1. cur' \in CursorType /\ job' \in JobType /\ live' \in Values
    BY <1>1, Constants
  <2>2. /\ olderBase' \subseteq Bases /\ olderLog' \subseteq Logs
        /\ spec' \in Specs /\ acked' \in Values /\ tried' \subseteq Values /\ spoilt' \in BOOLEAN
        /\ faults' \in 0..MaxFaults /\ rots' \in 0..MaxRots
    BY <1>1 DEF TypeOK
  <2>3. (job'.at = "free" <=> job' = NoJob) /\ (up' = "boot" <=> job'.kind = "restore")
    BY <1>1, <1>2
  <2>4. up' \in {"down", "boot", "up"} /\ refused' \in BOOLEAN
    BY <1>1
  <2> QED BY <2>1, <2>2, <2>3, <2>4 DEF TypeOK, CursorType, JobType
<1>4. FilesPart' /\ PairsPart'
  BY <1>1 DEF FilesPart, PairsPart
<1>5. JobPart'
  BY <1>1, <1>2 DEF JobPart
<1>6. PublishPart' /\ AppendPart' /\ CursorPart'
  BY <1>1, <1>2 DEF PublishPart, AppendPart, CursorPart, Sure
<1>7. HorizonPart'
  BY <1>1 DEF HorizonPart
<1> QED BY <1>3, <1>4, <1>5, <1>6, <1>7

LEMMA KillStep == IInv /\ Kill => IInv'
<1> SUFFICES ASSUME IInv, Kill PROVE IInv'
  OBVIOUS
<1>1. /\ Forget /\ rots' = rots /\ base' = base /\ log' = log /\ baseDisk' = baseDisk
      /\ logDisk' = logDisk /\ olderBase' = olderBase /\ olderLog' = olderLog /\ spoilt' = spoilt
  BY DEF Kill, files, older
<1>2. losses' \in 0..MaxLosses
  BY BoundAssumption DEF Kill, IInv, TypeOK
<1>3. base' \in baseDisk' /\ log' \in logDisk'
  BY <1>1 DEF IInv, FilesPart
<1>4. ~spoilt' => \A l \in logDisk' : \A i \in 1..Len(l.recs) :
        l.recs[i].seq <= ReplaySeq(base', log') + 1
  BY <1>1 DEF IInv, HorizonPart
<1>5. /\ spoilt' \in BOOLEAN /\ base' \in Bases /\ log' \in Logs /\ baseDisk' \subseteq Bases
      /\ logDisk' \subseteq Logs
  BY <1>1 DEF IInv, TypeOK
<1> QED BY <1>1, <1>2, <1>3, <1>4, <1>5, LossStep

LEMMA PowerLossStep == IInv /\ PowerLoss => IInv'
<1> SUFFICES ASSUME IInv, PowerLoss PROVE IInv'
  OBVIOUS
<1>1. /\ Forget /\ rots' = rots /\ baseDisk' = {base'} /\ logDisk' = {log'}
      /\ base' \in baseDisk \cup olderBase /\ log' \in logDisk \cup olderLog
      /\ olderBase' = {} /\ olderLog' = {}
  BY DEF PowerLoss
<1>s. spoilt' \in BOOLEAN /\ (~spoilt' => ~spoilt /\ base' \in baseDisk /\ log' \in logDisk)
  BY DEF PowerLoss, IInv, TypeOK
<1>t. base' \in Bases /\ log' \in Logs
  BY <1>1 DEF IInv, TypeOK
<1>2. losses' \in 0..MaxLosses
  BY BoundAssumption DEF PowerLoss, IInv, TypeOK
<1>3. ASSUME ~spoilt', NEW i \in 1..Len(log'.recs)
      PROVE  log'.recs[i].seq <= ReplaySeq(base', log') + 1
  <2>1. Readable(base', log')
    BY <1>s, <1>3 DEF IInv, PairsPart
  <2>2. base' \in KnownBases /\ log' \in Logs
    BY <1>t, <2>1, Constants DEF Readable
  <2>3. log'.recs[i].seq <= ReplaySeq(base', log') /\ ReplaySeq(base', log') \in Nat
        /\ log'.recs[i].seq \in Nat
    BY <1>3, <2>2, ReplayReachesAll, RecordTypes, BoundAssumption DEF Sequences0
  <2> QED BY <2>3
<1>4. ~spoilt' => baseDisk' \subseteq baseDisk /\ logDisk' \subseteq logDisk
  BY <1>1, <1>s
<1> QED BY <1>1, <1>s, <1>t, <1>2, <1>3, <1>4, LossStep

LEMMA RotStep == IInv /\ Rot => IInv'
<1> SUFFICES ASSUME IInv, Rot PROVE IInv'
  OBVIOUS
<1> USE DEF IInv
<1>1. /\ up = "down" /\ up' = up /\ spec' = spec /\ live' = live /\ log' = log /\ logDisk' = logDisk
      /\ cur' = cur /\ refused' = refused /\ job' = job /\ acked' = acked /\ tried' = tried
      /\ faults' = faults /\ losses' = losses /\ olderBase' = olderBase /\ olderLog' = olderLog
      /\ base' = Rotten /\ baseDisk' = {Rotten} /\ spoilt' = TRUE
  BY DEF Rot, older
<1>2. job = NoJob /\ job.at = "free" /\ job.kind = "none"
  BY <1>1, DownState DEF NoJob
<1>3. TypeOK'
  <2>1. base' \in Bases /\ baseDisk' \subseteq Bases /\ spoilt' \in BOOLEAN
    BY <1>1, Constants
  <2>2. rots' \in 0..MaxRots
    BY BoundAssumption DEF Rot, TypeOK
  <2> QED BY <1>1, <2>1, <2>2 DEF TypeOK
<1>4. FilesPart' /\ PairsPart' /\ HorizonPart'
  BY <1>1, Constants DEF FilesPart, PairsPart, HorizonPart
<1>5. JobPart'
  BY <1>1, <1>2 DEF JobPart
<1>6. PublishPart' /\ AppendPart' /\ CursorPart'
  BY <1>1, <1>2 DEF PublishPart, AppendPart, CursorPart, Sure
<1> QED BY <1>3, <1>4, <1>5, <1>6

LEMMA SaveStepKeeps == IInv /\ SaveStep => IInv'
BY SaveRereadsStep, SaveNothingStep, PublishReplaceStep, PublishFailsStep, PublishSyncStep,
   PublishSyncFailsStep, RetireUnlinkStep, RetireSyncStep, RetireFailsStep, AppendPartlyStep,
   AppendWholeStep, AppendSyncStep, AppendFailsStep DEF SaveStep

LEMMA NothingStep == IInv /\ UNCHANGED vars => IInv'
<1> SUFFICES ASSUME IInv, UNCHANGED vars PROVE IInv'
  OBVIOUS
<1>1. /\ up' = up /\ spec' = spec /\ live' = live /\ base' = base /\ log' = log
      /\ baseDisk' = baseDisk /\ logDisk' = logDisk /\ cur' = cur /\ refused' = refused
      /\ job' = job /\ acked' = acked /\ tried' = tried /\ spoilt' = spoilt /\ faults' = faults
      /\ losses' = losses /\ rots' = rots /\ olderBase' = olderBase /\ olderLog' = olderLog
  BY DEF vars, files, older, ghosts, budget
<1>2. TypeOK' /\ FilesPart' /\ JobPart' /\ PairsPart' /\ HorizonPart'
  BY <1>1 DEF IInv, TypeOK, FilesPart, JobPart, PairsPart, HorizonPart
<1>3. PublishPart' /\ AppendPart' /\ CursorPart'
  BY <1>1 DEF IInv, PublishPart, AppendPart, CursorPart, Sure, Fits, NewBase, Record
<1> QED BY <1>2, <1>3 DEF IInv

LEMMA JournalStep == IInv /\ [Next]_vars => IInv'
BY NothingStep, TalkStep, CheckpointStep, ResetStep, ResetStagedStep, ResetAbortsStep,
   SaveStepKeeps, BootFreshStep, BootRestoresStep, BootRefusesStep, KillStep, PowerLossStep,
   RotStep DEF Next

THEOREM JournalInvariant == Spec => []IInv
BY JournalInit, JournalStep, PTL DEF Spec

-----------------------------------------------------------------------------
(* The promises                                                              *)

(* Whatever a kill or a power loss leaves of the base and the journal, at    *)
(* any moment of any save, read() can replay it, and what it yields is the   *)
(* dialogue of the last acknowledged save or of one attempted since.         *)
THEOREM JournalIsRecoverable == Spec => []Recoverable
<1>1. IInv => Recoverable
  BY DEF IInv, Recoverable, FilesPart, PairsPart
<1> QED BY <1>1, JournalInvariant, PTL

(* After a refused restore no checkpoint touches the files: only a reset,    *)
(* which writes a new base, or a loss of the process changes them.           *)
THEOREM RefusedFilesStay == Spec => RefusedKeepsFiles
<1>1. IInv /\ [Next]_vars
      => [refused /\ job.kind \notin {"reset", "resetBase"} /\ up' # "down"
          => UNCHANGED <<base, log>>]_vars
  <2> SUFFICES ASSUME IInv, Next, refused, job.kind \notin {"reset", "resetBase"}, up' # "down"
               PROVE  UNCHANGED <<base, log>>
    BY DEF vars
  <2>1. job = NoJob /\ job.at = "free" /\ up # "down"
    BY DEF IInv, JobPart, NoJob
  <2>2. ~SaveStep
    BY <2>1 DEF SaveStep, SaveRereads, SaveNothing, PublishReplace, PublishFails, PublishSync,
                PublishSyncFails, RetireUnlink, RetireSync, RetireFails, AppendPartly,
                AppendWhole, AppendSync, AppendFails
  <2>3. ~Kill /\ ~PowerLoss /\ ~Rot
    BY <2>1 DEF Kill, PowerLoss, Rot, Forget
  <2>4. CASE Talk \/ Checkpoint \/ Reset
    BY <2>4 DEF Talk, Checkpoint, Reset, files
  <2>5. CASE ResetStaged \/ ResetAborts
    BY <2>1, <2>5 DEF ResetStaged, ResetAborts
  <2>6. CASE BootFresh \/ BootRestores \/ BootRefuses
    BY <2>1, <2>6 DEF BootFresh, BootRestores, BootRefuses
  <2> QED BY <2>2, <2>3, <2>4, <2>5, <2>6 DEF Next
<1> QED BY <1>1, JournalInvariant, PTL DEF Spec, RefusedKeepsFiles

-----------------------------------------------------------------------------
(* The refinement                                                            *)

LEMMA RaisedTalks ==
    ASSUME IInv, Raised(cur), job # NoJob, UNCHANGED older
    PROVE  Dialogue!Talk
<1>1. up # "down" /\ live \in SUBSET Item /\ job.before \in SUBSET Item
  BY FieldTypes DEF IInv, JobPart, TypeOK, Values
<1>2. up' # "down" /\ live' \in {live, job.before}
  BY <1>1 DEF Raised
<1>3. /\ acked' = acked /\ tried' = tried /\ spoilt' = spoilt
      /\ olderBase' = olderBase /\ olderLog' = olderLog
  BY DEF Raised, ghosts, older
<1>4. (up' # "down") = (up # "down")
  BY <1>1, <1>2
<1> QED BY <1>1, <1>2, <1>3, <1>4 DEF Dialogue!Talk

LEMMA LooseIsBoolean == (olderBase \cup olderLog # {})' \in BOOLEAN
OBVIOUS

LEMMA SavedAcknowledges ==
    ASSUME IInv, NEW c, Saved(c), job # NoJob
    PROVE  Dialogue!Acknowledge \/ Dialogue!Sync
<1>1. up # "down"
  BY DEF IInv, JobPart
<1>2. up' # "down"
  BY <1>1 DEF Saved
<1>3. acked' = job.snap /\ tried' = {} /\ spoilt' = FALSE /\ live' = live
  BY DEF Saved
<1>4. (up' # "down") = (up # "down")
  BY <1>1, <1>2
<1>5. CASE job.snap \in tried
  BY <1>1, <1>3, <1>4, <1>5, LooseIsBoolean DEF Dialogue!Acknowledge
<1>6. CASE job.snap = acked /\ tried = {} /\ ~spoilt
  <2>1. spoilt' = spoilt
    BY <1>3, <1>6 DEF IInv, TypeOK
  <2> QED BY <1>1, <1>3, <1>4, <1>6, <2>1, LooseIsBoolean DEF Dialogue!Sync
<1> QED BY <1>5, <1>6 DEF IInv, JobPart

LEMMA SaveStepDialogue ==
    ASSUME IInv, SaveStep
    PROVE  Dialogue!Talk \/ Dialogue!Acknowledge \/ Dialogue!Sync \/ UNCHANGED Dialogue!vars
<1>1. job # NoJob
  BY DEF SaveStep, SaveRereads, SaveNothing, PublishReplace, PublishFails, PublishSync,
         PublishSyncFails, RetireUnlink, RetireSync, RetireFails, AppendPartly,
         AppendWhole, AppendSync, AppendFails, NoJob
<1>2. CASE SaveNothing \/ RetireSync \/ AppendSync
  <2>1. \E c : Saved(c)
    BY <1>2 DEF SaveNothing, RetireSync, AppendSync
  <2> QED BY <1>1, <2>1, SavedAcknowledges
<1>3. CASE PublishFails \/ PublishSyncFails \/ RetireFails \/ AppendFails
  <2>1. Raised(cur) /\ UNCHANGED older
    BY <1>3 DEF PublishFails, PublishSyncFails, RetireFails, AppendFails, files
  <2> QED BY <1>1, <2>1, RaisedTalks
<1>4. CASE SaveRereads
  <2>1. CASE Readable(base, log)
    BY <1>4, <2>1 DEF SaveRereads, files, older, ghosts, Dialogue!vars
  <2>2. CASE ~Readable(base, log)
    <3>1. Raised(cur) /\ UNCHANGED older BY <1>4, <2>2 DEF SaveRereads, files
    <3> QED BY <1>1, <3>1, RaisedTalks
  <2> QED BY <2>1, <2>2
<1>5. CASE PublishReplace \/ RetireUnlink \/ AppendPartly \/ AppendWhole
  BY <1>5 DEF PublishReplace, RetireUnlink, AppendPartly, AppendWhole, older, ghosts, Dialogue!vars
<1>6. CASE PublishSync
  <2>1. up # "down"
    BY <1>1 DEF IInv, JobPart
  <2> QED BY <1>6, <2>1, LooseIsBoolean DEF PublishSync, ghosts, Dialogue!Sync
<1> QED BY <1>2, <1>3, <1>4, <1>5, <1>6 DEF SaveStep

LEMMA DialogueInit == Init => Dialogue!Init
BY DEF Init, Dialogue!Init

LEMMA DialogueStep == IInv /\ [Next]_vars => [Dialogue!Next]_(Dialogue!vars)
<1> SUFFICES ASSUME IInv, Next \/ UNCHANGED vars
             PROVE  Dialogue!Next \/ UNCHANGED Dialogue!vars
  OBVIOUS
<1> USE DEF Dialogue!Next
<1>1. CASE UNCHANGED vars
  BY <1>1 DEF vars, files, older, ghosts, Dialogue!vars
<1>2. CASE Talk
  <2>1. live' \in SUBSET Item
    <3>1. PICK x \in Item : live' \in {live \cup {x}, live \ {x}}
      BY <1>2 DEF Talk
    <3> QED BY <3>1 DEF IInv, TypeOK, Values
  <2>2. up = "up" /\ up' = up /\ UNCHANGED <<acked, tried, spoilt, olderBase, olderLog>>
    BY <1>2 DEF Talk, files, older, ghosts
  <2> QED BY <2>1, <2>2 DEF Dialogue!Talk
<1>3. CASE Checkpoint
  <2>1. /\ up = "up" /\ up' = up /\ live' = live /\ tried' = tried \cup {live}
        /\ UNCHANGED <<acked, spoilt, olderBase, olderLog>>
    BY <1>3 DEF Checkpoint, files, older
  <2> QED BY <2>1 DEF Dialogue!Attempt
<1>4. CASE Reset
  <2>1. /\ up = "up" /\ up' = up /\ live' = {} /\ tried' = tried \cup {{}}
        /\ UNCHANGED <<acked, spoilt, olderBase, olderLog>>
    BY <1>4 DEF Reset, files, older
  <2> QED BY <2>1 DEF Dialogue!Attempt
<1>5. CASE ResetStaged
  BY <1>5 DEF ResetStaged, files, older, ghosts, Dialogue!vars
<1>6. CASE ResetAborts
  <2>1. up = "up" /\ job.before \in SUBSET Item
    BY <1>6, StagingPlace, FieldTypes DEF ResetAborts, IInv, Values
  <2>2. up' = up /\ live' = job.before /\ UNCHANGED <<acked, tried, spoilt, olderBase, olderLog>>
    BY <1>6 DEF ResetAborts, files, older, ghosts
  <2> QED BY <2>1, <2>2 DEF Dialogue!Talk
<1>7. CASE SaveStep
  BY <1>7, SaveStepDialogue
<1>8. CASE BootFresh \/ BootRefuses
  <2>1. up = "down" /\ up' = "up" /\ UNCHANGED <<live, acked, tried, spoilt, olderBase, olderLog>>
    BY <1>8 DEF BootFresh, BootRefuses, files, older, ghosts
  <2> QED BY <2>1 DEF Dialogue!RestartEmpty
<1>9. CASE BootRestores
  <2>1. /\ up = "down" /\ up' = "boot" /\ live' = ReplayValue(base, log) \ {Active}
        /\ tried' = tried \cup {live'} /\ UNCHANGED <<acked, spoilt, olderBase, olderLog>>
    BY <1>9 DEF BootRestores, files, older
  <2>2. ReplayValue(base, log) \in (IF spoilt THEN SUBSET Item ELSE {acked} \cup tried)
    BY DEF IInv, PairsPart, FilesPart, ReplayValue
  <2>3. \E v \in (IF spoilt THEN SUBSET Item ELSE {acked} \cup tried) : live' = Dialogue!Interrupted(v)
    BY <2>1, <2>2 DEF Dialogue!Interrupted
  <2> QED BY <2>1, <2>3 DEF Dialogue!Restart
<1>10. CASE Kill
  <2>1. up' = "down" /\ live' = {} /\ UNCHANGED <<acked, tried, spoilt, olderBase, olderLog>>
    BY <1>10 DEF Kill, Forget, files, older
  <2> QED BY <2>1 DEF Dialogue!Die
<1>12. CASE PowerLoss
  <2>1. up' = "down" /\ live' = {} /\ UNCHANGED <<acked, tried>> /\ olderBase' = {} /\ olderLog' = {}
    BY <1>12 DEF PowerLoss, Forget
  <2>2. spoilt' \in {spoilt, spoilt \/ olderBase \cup olderLog # {}}
    <3>1. spoilt \in BOOLEAN /\ spoilt' = (spoilt \/ base' \notin baseDisk \/ log' \notin logDisk)
      BY <1>12 DEF PowerLoss, IInv, TypeOK
    <3>2. CASE base' \in baseDisk /\ log' \in logDisk
      BY <3>1, <3>2
    <3>3. CASE base' \notin baseDisk \/ log' \notin logDisk
      <4>1. olderBase \cup olderLog # {}
        BY <1>12, <3>3 DEF PowerLoss
      <4> QED BY <3>1, <3>3, <4>1
    <3> QED BY <3>2, <3>3
  <2>3. ~(olderBase \cup olderLog # {})'
    BY <2>1
  <2> QED BY <2>1, <2>2, <2>3 DEF Dialogue!Die
<1>11. CASE Rot
  <2>1. up = "down" /\ up' = up /\ spoilt' = TRUE /\ UNCHANGED <<live, acked, tried, olderBase, olderLog>>
    BY <1>11 DEF Rot, older
  <2> QED BY <2>1 DEF Dialogue!Spoil
<1> QED BY <1>1, <1>2, <1>3, <1>4, <1>5, <1>6, <1>7, <1>8, <1>9, <1>10, <1>11, <1>12 DEF Next

(* The recovery store implements the durable dialogue: a process that comes  *)
(* back starts from the last acknowledged dialogue or from one attempted     *)
(* after it, with the turn that was under way dropped, whatever faults and   *)
(* losses happened in between (journal.py, checkpoint.py, owner.py).         *)
THEOREM JournalImplementsDialogue == Spec => RefinesDialogue
<1>1. Init => Dialogue!Init
  BY DialogueInit
<1>2. IInv /\ [Next]_vars => [Dialogue!Next]_(Dialogue!vars)
  BY DialogueStep
<1> QED BY <1>1, <1>2, JournalInvariant, PTL DEF Spec, RefinesDialogue, Dialogue!Spec
=============================================================================

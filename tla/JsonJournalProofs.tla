---------------------------- MODULE JsonJournalProofs ----------------------------
(***************************************************************************)
(* The JSON journal with one process that appends, as deployed: the file   *)
(* implements the abstract journal of module Journal, and whoever reads it *)
(* gets a journal there was during the call.  For any number of readers,   *)
(* with the lock or without, any lengths, and whatever is killed or fails; *)
(* the lock plays no part in it.                                           *)
(*                                                                         *)
(* What the readers need is that an inode once named <journal> is never    *)
(* written again while somebody has it open (Apart), that it is the        *)
(* journal of some moment since the reader's call began (ReadersSee), and  *)
(* of the writer, that what it has read is still the journal's contents    *)
(* when it renames (WriterKnows).                                          *)
(***************************************************************************)
EXTENDS JsonJournal, FiniteSetTheorems, SequenceTheorems, TLAPS

\* At most one process appends: run-forever.
SingleWriter ==
  \A p, q \in Proc : "append" \in Does[p] /\ "append" \in Does[q] => p = q

\* The disk does not run out of inodes: there are more than can be in use at
\* once by the journal and by the processes that do not write.
EnoughInodes ==
  /\ IsFiniteSet(Proc) /\ IsFiniteSet(Inode)
  /\ Cardinality(Inode) > Cardinality(Proc)

\* The types of what the argument is about.
FilesOK ==
  /\ pc \in [Proc -> Place]
  /\ op \in [Proc -> {"append", "latest", "list"}]
  /\ {journal, tmp} \subseteq Inode \cup {NoInode}
  /\ data \in [Inode -> Content]
  /\ handle \in [Proc -> Inode \cup {NoInode}]
  /\ reports \in [Proc -> Seq(Report)]
  /\ report \in [Proc -> 0 .. MaxReports]
  /\ issued \in 0 .. MaxReports
  /\ committed \in Seq(Report)
  /\ since \in [Proc -> Nat]

Writing == {"tmp", "writing", "renaming"}

\* Only a process that may append does, and it has a decision to append.
Appending ==
  \A p \in Proc :
    /\ op[p] = "append" => "append" \in Does[p]
    /\ pc[p] \in Writing => op[p] = "append"
    /\ op[p] = "append" /\ pc[p] # "idle" => report[p] \in Report

\* The temporary file is not the journal, nor anything that is being read, and
\* a file is open only while it is read or written.
Apart ==
  /\ tmp # NoInode => tmp # journal
  /\ \A p \in Proc : handle[p] # NoInode => pc[p] \in {"reading", "writing"}
  /\ \A p \in Proc : pc[p] = "reading" => handle[p] # NoInode /\ handle[p] # tmp

\* The journal is whole, and as it was left by the last rename.
JournalWhole ==
  IF journal = NoInode THEN committed = <<>>
  ELSE data[journal] = [whole |-> TRUE, log |-> Window(Len(committed))]

\* A reader has open the journal of a moment of its call.
ReadersSee ==
  \A p \in Proc :
    /\ pc[p] # "idle" => since[p] <= Len(committed)
    /\ pc[p] = "reading" =>
         \E k \in since[p] .. Len(committed) :
           data[handle[p]] = [whole |-> TRUE, log |-> Window(k)]

\* The writer has read the journal as it still is, and writes what comes next.
WriterKnows ==
  \A p \in Proc :
    /\ pc[p] \in {"opening", "waiting", "loading", "reading"} => reports[p] = <<>>
    /\ op[p] = "append" /\ pc[p] = "reading" => handle[p] = journal
    /\ pc[p] \in Writing => reports[p] = Window(Len(committed))
    /\ pc[p] = "writing" => handle[p] = tmp /\ tmp # NoInode /\ data[tmp] = Empty
    /\ pc[p] = "renaming" /\ tmp # NoInode =>
         data[tmp] = [whole |-> TRUE, log |-> AddedFirst(p)]

IInv == FilesOK /\ Appending /\ Apart /\ JournalWhole /\ ReadersSee /\ WriterKnows
-----------------------------------------------------------------------------
\* A journal of any length, capped, is one.
LEMMA CappedLog ==
  ASSUME NEW c \in Seq(Report)
  PROVE  /\ Capped(c) \in Seq(Report)
         /\ Len(Capped(c)) = IF Len(c) > MaxRecords THEN MaxRecords ELSE Len(c)
         /\ \A i \in 1 .. Len(Capped(c)) : Capped(c)[i] = c[i]
<1>1. Len(c) \in Nat
  BY LenProperties
<1>2. CASE Len(c) > MaxRecords
  <2>1. \A i \in 1 .. MaxRecords : c[i] \in Report
    BY <1>1, <1>2, ElementOfSeq, JsonAssumption
  <2> QED
    BY <1>2, <2>1, SubSeqProperties, JsonAssumption DEF Capped
<1>3. CASE ~(Len(c) > MaxRecords)
  BY <1>3 DEF Capped
<1> QED
  BY <1>2, <1>3

\* One more decision before a capped journal, capped again, is the newest part
\* of all of them.
LEMMA CappedAgain ==
  ASSUME NEW c \in Seq(Report), NEW r \in Report
  PROVE  Capped(<<r>> \o Capped(c)) = Capped(<<r>> \o c)
<1> DEFINE s == <<r>> \o Capped(c)
           t == <<r>> \o c
<1>1. Len(c) \in Nat /\ Len(Capped(c)) \in Nat
  BY LenProperties, CappedLog
<1>2. <<r>> \in Seq(Report) /\ Len(<<r>>) = 1
  OBVIOUS
<1>3. /\ s \in Seq(Report) /\ Len(s) = 1 + Len(Capped(c))
      /\ \A i \in 1 .. 1 + Len(Capped(c)) : s[i] = IF i <= 1 THEN <<r>>[i] ELSE Capped(c)[i - 1]
  BY <1>2, CappedLog, ConcatProperties
<1>4. /\ t \in Seq(Report) /\ Len(t) = 1 + Len(c)
      /\ \A i \in 1 .. 1 + Len(c) : t[i] = IF i <= 1 THEN <<r>>[i] ELSE c[i - 1]
  BY <1>2, ConcatProperties
<1>5. /\ Len(Capped(c)) = IF Len(c) > MaxRecords THEN MaxRecords ELSE Len(c)
      /\ \A i \in 1 .. Len(Capped(c)) : Capped(c)[i] = c[i]
  BY CappedLog
<1> HIDE DEF s, t
<1>6. /\ Capped(s) \in Seq(Report) /\ Capped(t) \in Seq(Report)
      /\ Len(Capped(s)) = IF Len(s) > MaxRecords THEN MaxRecords ELSE Len(s)
      /\ Len(Capped(t)) = IF Len(t) > MaxRecords THEN MaxRecords ELSE Len(t)
      /\ \A i \in 1 .. Len(Capped(s)) : Capped(s)[i] = s[i]
      /\ \A i \in 1 .. Len(Capped(t)) : Capped(t)[i] = t[i]
  BY <1>3, <1>4, CappedLog
<1>7. Len(Capped(s)) = Len(Capped(t))
  BY <1>1, <1>3, <1>4, <1>5, <1>6, JsonAssumption
<1>8. ASSUME NEW i \in 1 .. Len(Capped(s)) PROVE Capped(s)[i] = Capped(t)[i]
  <2>1. i \in 1 .. 1 + Len(Capped(c)) /\ i \in 1 .. 1 + Len(c)
    BY <1>1, <1>3, <1>5, <1>6, JsonAssumption
  <2>2. Capped(s)[i] = s[i] /\ Capped(t)[i] = t[i]
    BY <1>6, <1>7
  <2>3. i <= 1 \/ i - 1 \in 1 .. Len(Capped(c))
    BY <2>1, <1>1
  <2> QED
    BY <2>1, <2>2, <2>3, <1>3, <1>4, <1>5
<1> QED
  BY <1>6, <1>7, <1>8, SeqEqual DEF s, t

\* The oldest decisions stay the oldest when one more is committed.
LEMMA OldestStay ==
  ASSUME NEW c \in Seq(Report), NEW r \in Report, NEW k \in 0 .. Len(c)
  PROVE  SubSeq(<<r>> \o c, Len(<<r>> \o c) - k + 1, Len(<<r>> \o c))
           = SubSeq(c, Len(c) - k + 1, Len(c))
<1> DEFINE t == <<r>> \o c
           n == Len(c)
           new == SubSeq(t, Len(t) - k + 1, Len(t))
           old == SubSeq(c, n - k + 1, n)
<1>1. n \in Nat
  BY LenProperties
<1>2. /\ Len(t) = n + 1 /\ \A i \in 2 .. n + 1 : t[i] = c[i - 1]
      /\ \A i \in 1 .. n : c[i] \in Report
  <2>1. <<r>> \in Seq(Report) /\ Len(<<r>>) = 1
    OBVIOUS
  <2>2. /\ Len(t) = 1 + n
        /\ \A i \in 1 .. 1 + n : t[i] = IF i <= 1 THEN <<r>>[i] ELSE c[i - 1]
    BY <2>1, ConcatProperties
  <2> HIDE DEF t
  <2>3. \A i \in 1 .. n : c[i] \in Report
    BY ElementOfSeq
  <2> HIDE DEF n
  <2> QED
    BY <1>1, <2>2, <2>3
<1> HIDE DEF t, n
<1>3. k \in Nat /\ k <= n
  BY <1>1 DEF n
<1>4. /\ old \in Seq(Report) /\ Len(old) = k
      /\ \A i \in 1 .. k : old[i] = c[(n - k + 1) + i - 1]
  <2> DEFINE m == n - k + 1
  <2>1. m \in Int /\ n \in Int /\ \A i \in m .. n : c[i] \in Report
    BY <1>1, <1>2, <1>3
  <2>2. (IF m <= n THEN n - m + 1 ELSE 0) = k /\ n - m + 1 = k
    BY <1>1, <1>3
  <2> HIDE DEF m
  <2>3. /\ SubSeq(c, m, n) \in Seq(Report)
        /\ Len(SubSeq(c, m, n)) = IF m <= n THEN n - m + 1 ELSE 0
        /\ \A i \in 1 .. n - m + 1 : SubSeq(c, m, n)[i] = c[m + i - 1]
    BY <2>1, SubSeqProperties
  <2> QED
    BY <2>2, <2>3 DEF m
<1>5. /\ new \in Seq(Report) /\ Len(new) = k
      /\ \A i \in 1 .. k : new[i] = t[((n + 1) - k + 1) + i - 1]
  <2> DEFINE m == (n + 1) - k + 1
  <2>1. m \in Int /\ n + 1 \in Int /\ \A i \in m .. n + 1 : t[i] \in Report
    <3>1. m \in Int /\ n + 1 \in Int
      BY <1>1, <1>3
    <3>2. ASSUME NEW i \in m .. n + 1 PROVE i \in 2 .. n + 1 /\ i - 1 \in 1 .. n
      BY <1>1, <1>3
    <3> QED
      BY <3>1, <3>2, <1>2
  <2>2. (IF m <= n + 1 THEN (n + 1) - m + 1 ELSE 0) = k /\ (n + 1) - m + 1 = k
    BY <1>1, <1>3
  <2> HIDE DEF m
  <2>3. /\ SubSeq(t, m, n + 1) \in Seq(Report)
        /\ Len(SubSeq(t, m, n + 1)) = IF m <= n + 1 THEN (n + 1) - m + 1 ELSE 0
        /\ \A i \in 1 .. (n + 1) - m + 1 : SubSeq(t, m, n + 1)[i] = t[m + i - 1]
    BY <2>1, SubSeqProperties
  <2>4. new = SubSeq(t, m, n + 1)
    <3>1. Len(t) = n + 1
      BY <1>2
    <3> QED
      BY <3>1 DEF m
  <2> HIDE DEF new
  <2> QED
    BY <2>2, <2>3, <2>4 DEF m
<1> HIDE DEF old, new
<1>6. ASSUME NEW i \in 1 .. k PROVE new[i] = old[i]
  <2>1. new[i] = t[((n + 1) - k + 1) + i - 1] /\ old[i] = c[(n - k + 1) + i - 1]
    BY <1>4, <1>5
  <2> DEFINE j == ((n + 1) - k + 1) + i - 1
  <2>2. j \in 2 .. n + 1 /\ j - 1 = (n - k + 1) + i - 1
    BY <1>1, <1>3
  <2> HIDE DEF j
  <2>3. t[j] = c[j - 1]
    BY <2>2, <1>2
  <2> QED
    BY <2>1, <2>2, <2>3 DEF j
<1>7. new = old
  BY <1>4, <1>5, <1>6, SeqEqual
<1> QED
  BY <1>7 DEF new, old, t, n

\* The window of all decisions is the capped journal of them.
LEMMA WholeWindow ==
  ASSUME NEW c \in Seq(Report)
  PROVE  SubSeq(c, Len(c) - Len(c) + 1, Len(c)) = c
<1>1. Len(c) - Len(c) + 1 = 1
  BY LenProperties
<1> QED
  BY <1>1, SubSeqFull

\* A rename adds its decision to the windows and leaves the others.
LEMMA WindowStep ==
  ASSUME committed \in Seq(Report), NEW r \in Report, committed' = <<r>> \o committed
  PROVE  /\ committed' \in Seq(Report) /\ Len(committed') = Len(committed) + 1
         /\ \A k \in 0 .. Len(committed) : Window(k)' = Window(k)
         /\ Window(Len(committed))' = Capped(<<r>> \o Window(Len(committed)))
<1> DEFINE c == committed
           t == <<r>> \o committed
<1>1. /\ t \in Seq(Report) /\ Len(t) = Len(committed) + 1
      /\ Len(committed) \in Nat
  <2>1. <<r>> \in Seq(Report) /\ Len(<<r>>) = 1
    OBVIOUS
  <2> QED
    BY <2>1, ConcatProperties, LenProperties
<1>2. ASSUME NEW k \in 0 .. Len(committed) PROVE Window(k)' = Window(k)
  <2>1. SubSeq(t, Len(t) - k + 1, Len(t)) = SubSeq(c, Len(c) - k + 1, Len(c))
    BY OldestStay
  <2>2. Window(k)' = Capped(SubSeq(t, Len(t) - k + 1, Len(t)))
    BY DEF Window, Capped
  <2> QED
    BY <2>1, <2>2 DEF Window
<1>3. Window(Len(committed))' = Capped(<<r>> \o Window(Len(committed)))
  <2>1. Window(Len(committed))' = Capped(SubSeq(t, Len(t) - Len(t) + 1, Len(t)))
    BY DEF Window, Capped
  <2>2. SubSeq(t, Len(t) - Len(t) + 1, Len(t)) = t
    BY <1>1, WholeWindow
  <2>3. Window(Len(committed)) = Capped(committed)
    BY WholeWindow DEF Window
  <2> HIDE DEF t
  <2>4. Window(Len(committed))' = Capped(t)
    BY <2>1, <2>2
  <2> QED
    BY <2>3, <2>4, CappedAgain DEF t
<1> QED
  BY <1>1, <1>2, <1>3

\* Windows are journals, and of no decisions there is only one.
LEMMA WindowType ==
  ASSUME committed \in Seq(Report), NEW k \in 0 .. Len(committed)
  PROVE  Window(k) \in Seq(Report)
<1> DEFINE m == Len(committed) - k + 1
           n == Len(committed)
<1>1. n \in Nat
  BY LenProperties
<1>2. \A i \in 1 .. n : committed[i] \in Report
  BY ElementOfSeq
<1>3. m \in Int /\ n \in Int /\ m >= 1
  <2> HIDE DEF n
  <2>1. k \in Nat /\ k <= n
    BY <1>1 DEF n
  <2> QED
    BY <1>1, <2>1 DEF n
<1> HIDE DEF m, n
<1>4. \A i \in m .. n : committed[i] \in Report
  BY <1>1, <1>2, <1>3
<1>5. SubSeq(committed, m, n) \in Seq(Report)
  BY <1>3, <1>4, SubSeqProperties
<1> QED
  BY <1>5, CappedLog DEF Window, m, n

\* When nothing is called the temporary file, there is an inode for it.
LEMMA UnusedExists ==
  ASSUME EnoughInodes, tmp = NoInode, handle \in [Proc -> Inode \cup {NoInode}],
         NEW p \in Proc, handle[p] = NoInode
  PROVE  /\ Unused({journal, tmp}, handle) \in Inode
         /\ Unused({journal, tmp}, handle) # journal
         /\ \A q \in Proc : Unused({journal, tmp}, handle) # handle[q]
<1> DEFINE open == {handle[q] : q \in Proc}
           used == (open \cup {journal}) \ {NoInode}
<1>1. IsFiniteSet(open) /\ Cardinality(open) <= Cardinality(Proc)
  <2>1. handle \in Surjection(Proc, open)
    BY DEF Surjection
  <2> QED
    BY <2>1, FS_Surjection DEF EnoughInodes
<1>2. NoInode \in open
  OBVIOUS
<1> HIDE DEF open
<1>3. /\ IsFiniteSet(open \cup {journal})
      /\ Cardinality(open \cup {journal}) <= Cardinality(Proc) + 1
  <2>1. Cardinality(open) \in Nat /\ Cardinality(Proc) \in Nat
    BY <1>1, FS_CardinalityType DEF EnoughInodes
  <2>2. /\ IsFiniteSet(open \cup {journal})
        /\ Cardinality(open \cup {journal})
             = IF journal \in open THEN Cardinality(open) ELSE Cardinality(open) + 1
    BY <1>1, FS_AddElement
  <2> QED
    BY <1>1, <2>1, <2>2
<1>4. IsFiniteSet(used) /\ Cardinality(used) <= Cardinality(Proc)
  <2> DEFINE all == open \cup {journal}
  <2>1. NoInode \in all /\ IsFiniteSet(all) /\ Cardinality(all) <= Cardinality(Proc) + 1
    BY <1>2, <1>3
  <2> HIDE DEF all
  <2>2. Cardinality(all) \in Nat /\ Cardinality(Proc) \in Nat
    BY <2>1, FS_CardinalityType DEF EnoughInodes
  <2>3. IsFiniteSet(all \ {NoInode}) /\ Cardinality(all \ {NoInode}) = Cardinality(all) - 1
    BY <2>1, FS_RemoveElement
  <2>4. Cardinality(all \ {NoInode}) <= Cardinality(Proc)
    BY <2>1, <2>2, <2>3
  <2> QED
    BY <2>3, <2>4 DEF all
<1>5. \E i \in Inode : i \notin used
  <2>1. SUFFICES ASSUME Inode \subseteq used PROVE FALSE
    OBVIOUS
  <2> HIDE DEF used
  <2>2. Cardinality(Inode) <= Cardinality(used)
    BY <1>4, <2>1, FS_Subset
  <2> QED
    BY <1>4, <2>2, FS_CardinalityType DEF EnoughInodes
<1>6. \E i \in Inode : i \notin {journal, tmp} \cup open
  BY <1>5, JsonAssumption
<1> QED
  BY <1>6 DEF Unused, open

\* Windows only change with the decisions.
LEMMA WindowSame ==
  ASSUME UNCHANGED committed, NEW k
  PROVE  Window(k)' = Window(k)
BY DEF Window, Capped

\* The initial state satisfies the inductive invariant.
LEMMA InitIInv == Init => IInv
<1> SUFFICES ASSUME Init PROVE IInv
  OBVIOUS
<1>1. FilesOK
  BY JsonAssumption, EmptySeq DEF Init, FilesOK, Place, Content, Empty
<1> QED
  BY <1>1 DEF Init, IInv, Appending, Apart, JournalWhole, ReadersSee, WriterKnows, Writing

-----------------------------------------------------------------------------
\* The steps that neither change a file nor commit.

\* A call of latest, list_recent or append begins with the journal it finds.
LEMMA CallIInv == ASSUME IInv, NEW p \in Proc, Call(p) PROVE IInv'
<1>0. PICK o \in Does[p] : /\ op' = [op EXCEPT ![p] = o]
                          /\ pc' = [pc EXCEPT ![p] = IF o = "list" THEN "loading" ELSE "opening"]
  BY DEF Call, Goto
<1> USE JsonAssumption, LenProperties DEF IInv, Call, Goto, lockVars, fileVars
<1>1. FilesOK'
  <2>1. issued' \in 0 .. MaxReports /\ report' \in [Proc -> 0 .. MaxReports]
    BY DEF FilesOK
  <2>2. reports' \in [Proc -> Seq(Report)] /\ since' \in [Proc -> Nat]
    BY EmptySeq DEF FilesOK
  <2>3. pc' \in [Proc -> Place] /\ op' \in [Proc -> {"append", "latest", "list"}]
    BY <1>0 DEF FilesOK, Place
  <2> QED
    BY <2>1, <2>2, <2>3 DEF FilesOK
<1>2. Appending'
  BY DEF FilesOK, Appending, Writing, Report
<1>3. Apart' /\ JournalWhole'
  BY WindowSame DEF FilesOK, Apart, JournalWhole
<1>4. ReadersSee'
  BY WindowSame DEF FilesOK, ReadersSee
<1>5. WriterKnows'
  <2>1. pc'[p] \in {"loading", "opening"} /\ reports'[p] = <<>>
    BY <1>0 DEF FilesOK
  <2>2. ASSUME NEW q \in Proc, q # p
        PROVE  /\ pc'[q] = pc[q] /\ op'[q] = op[q] /\ reports'[q] = reports[q]
               /\ AddedFirst(q)' = AddedFirst(q)
    BY <1>0, <2>2 DEF FilesOK, AddedFirst, Capped
  <2>3. Window(Len(committed))' = Window(Len(committed))
    BY DEF Window, Capped
  <2> QED
    BY <2>1, <2>2, <2>3 DEF WriterKnows, Writing
<1> QED
  BY <1>1, <1>2, <1>3, <1>4, <1>5

\* Opening the lock file touches no other name.
LEMMA OpenLockIInv == ASSUME IInv, NEW p \in Proc, OpenLock(p) PROVE IInv'
<1> USE JsonAssumption DEF IInv, OpenLock, Goto, fileVars
<1>1. FilesOK' /\ Appending'
  BY DEF FilesOK, Place, Appending, Writing
<1>2. Apart' /\ JournalWhole'
  BY WindowSame DEF FilesOK, Apart, JournalWhole
<1>3. ReadersSee'
  BY WindowSame DEF FilesOK, ReadersSee
<1>4. WriterKnows'
  BY WindowSame DEF FilesOK, WriterKnows, Writing, AddedFirst, Capped
<1> QED
  BY <1>1, <1>2, <1>3, <1>4

\* Being granted the lock changes no file.
LEMMA FlockIInv == ASSUME IInv, NEW p \in Proc, Flock(p) PROVE IInv'
<1> USE JsonAssumption DEF IInv, Flock, Goto, fileVars
<1>1. FilesOK' /\ Appending'
  BY DEF FilesOK, Place, Appending, Writing
<1>2. Apart' /\ JournalWhole'
  BY WindowSame DEF FilesOK, Apart, JournalWhole
<1>3. ReadersSee'
  BY WindowSame DEF FilesOK, ReadersSee
<1>4. WriterKnows'
  BY WindowSame DEF FilesOK, WriterKnows, Writing, AddedFirst, Capped
<1> QED
  BY <1>1, <1>2, <1>3, <1>4

\* Nor does releasing it.
LEMMA CloseLockIInv == ASSUME IInv, NEW p \in Proc, CloseLock(p) PROVE IInv'
<1> USE JsonAssumption DEF IInv, CloseLock, Goto, fileVars
<1>1. FilesOK' /\ Appending'
  BY DEF FilesOK, Place, Appending, Writing
<1>2. Apart' /\ JournalWhole'
  BY WindowSame DEF FilesOK, Apart, JournalWhole
<1>3. ReadersSee'
  BY WindowSame DEF FilesOK, ReadersSee
<1>4. WriterKnows'
  BY WindowSame DEF FilesOK, WriterKnows, Writing, AddedFirst, Capped
<1> QED
  BY <1>1, <1>2, <1>3, <1>4

\* A call ends, normally or because its process is killed.
LEMMA ReturnIInv ==
  ASSUME IInv, NEW p \in Proc, Return(p), UNCHANGED <<fileVars, op, issued, committed>>,
         \/ UNCHANGED handle /\ handle[p] = NoInode
         \/ handle' = [handle EXCEPT ![p] = NoInode]
  PROVE  IInv'
<1> USE JsonAssumption DEF IInv, Return, Goto, fileVars
<1>1. FilesOK' /\ Appending'
  <2>1. reports' \in [Proc -> Seq(Report)] /\ since' \in [Proc -> Nat]
    BY EmptySeq DEF FilesOK
  <2>2. report' \in [Proc -> 0 .. MaxReports] /\ pc' \in [Proc -> Place]
    BY DEF FilesOK, Place
  <2>3. handle' \in [Proc -> Inode \cup {NoInode}]
    BY DEF FilesOK
  <2>4. Appending'
    BY DEF FilesOK, Appending, Writing
  <2> QED
    BY <2>1, <2>2, <2>3, <2>4 DEF FilesOK
<1>2. Apart' /\ JournalWhole'
  BY WindowSame DEF FilesOK, Apart, JournalWhole
<1>3. ReadersSee'
  <2>1. pc'[p] = "idle"
    BY DEF FilesOK
  <2>2. ASSUME NEW q \in Proc, q # p
        PROVE  pc'[q] = pc[q] /\ since'[q] = since[q] /\ handle'[q] = handle[q]
    BY <2>2 DEF FilesOK
  <2>3. ASSUME NEW q \in Proc, q # p, pc[q] = "reading"
        PROVE  \E k \in since'[q] .. Len(committed)' :
                 data'[handle'[q]] = [whole |-> TRUE, log |-> Window(k)']
    BY <2>2, <2>3, WindowSame DEF ReadersSee
  <2> QED
    BY <2>1, <2>2, <2>3 DEF ReadersSee
<1>4. WriterKnows'
  BY WindowSame DEF FilesOK, WriterKnows, Writing, AddedFirst, Capped
<1> QED
  BY <1>1, <1>2, <1>3, <1>4

-----------------------------------------------------------------------------
\* The steps of a reader.

\* Opening the journal opens what the name points to.
LEMMA LoadIInv == ASSUME IInv, NEW p \in Proc, Load(p) PROVE IInv'
<1> USE JsonAssumption DEF IInv, Load, Goto, lockVars, fileVars
<1>1. Len(committed) \in Nat
  BY LenProperties DEF FilesOK
<1>2. /\ pc'[p] = IF journal = NoInode THEN AfterRead(p) ELSE "reading"
      /\ handle'[p] = journal /\ pc[p] = "loading"
  BY DEF FilesOK
<1>3. ASSUME NEW q \in Proc, q # p PROVE pc'[q] = pc[q] /\ handle'[q] = handle[q]
  BY <1>3 DEF FilesOK
<1>4. FilesOK'
  <2>1. AfterRead(p) \in Place
    BY DEF AfterRead, Place
  <2> QED
    BY <2>1 DEF FilesOK, Place
<1>5. Appending'
  BY <1>2, <1>3 DEF Appending, Writing, AfterRead, FilesOK
<1>6. Apart' /\ JournalWhole'
  <2>1. Apart'
    BY <1>2, <1>3 DEF Apart, AfterRead
  <2>2. Window(Len(committed))' = Window(Len(committed))
    BY DEF Window, Capped
  <2> QED
    BY <2>1, <2>2 DEF JournalWhole
<1>7. ReadersSee'
  <2>1. since[p] \in Nat /\ since[p] <= Len(committed)
    BY DEF FilesOK, ReadersSee
  <2>2. journal # NoInode =>
          data[handle'[p]] = [whole |-> TRUE, log |-> Window(Len(committed))']
    BY <1>2, WindowSame DEF JournalWhole
  <2>3. Len(committed) \in since[p] .. Len(committed)
    BY <1>1, <2>1
  <2>4. pc'[p] = "reading" => journal # NoInode
    BY <1>2 DEF AfterRead
  <2>5. ASSUME NEW q \in Proc, q # p, pc[q] = "reading"
        PROVE  \E k \in since[q] .. Len(committed) :
                 data[handle'[q]] = [whole |-> TRUE, log |-> Window(k)']
    BY <1>3, <2>5, WindowSame DEF ReadersSee
  <2> QED
    BY <1>3, <2>1, <2>2, <2>3, <2>4, <2>5 DEF ReadersSee
<1>8. WriterKnows'
  <2>1. journal = NoInode => Window(Len(committed))' = <<>>
    <3>1. ASSUME journal = NoInode PROVE committed = <<>>
      BY <3>1 DEF JournalWhole
    <3>2. ASSUME committed = <<>> PROVE Window(Len(committed)) = <<>>
      <4>1. Window(Len(committed)) = Capped(committed)
        BY WholeWindow DEF FilesOK, Window
      <4> QED
        BY <3>2, <4>1, EmptySeq DEF Capped
    <3> QED
      BY <3>1, <3>2, WindowSame
  <2>2. reports'[p] = <<>>
    BY DEF WriterKnows
  <2>3. Window(Len(committed))' = Window(Len(committed))
    BY DEF Window, Capped
  <2>4. ASSUME NEW q \in Proc PROVE AddedFirst(q)' = AddedFirst(q)
    BY DEF AddedFirst, Capped
  <2> QED
    BY <1>2, <1>3, <2>1, <2>2, <2>3, <2>4 DEF WriterKnows, Writing, AfterRead
<1> QED
  BY <1>4, <1>5, <1>6, <1>7, <1>8

\* What is read is what the journal held at a moment of the call.
LEMMA ReadIInv == ASSUME IInv, NEW p \in Proc, Read(p) PROVE IInv'
<1> USE JsonAssumption DEF IInv, Read, Goto, lockVars, fileVars
<1>1. handle[p] \in Inode /\ data[handle[p]] \in Content
  BY DEF FilesOK, Apart
<1>2. pc'[p] = AfterRead(p) /\ handle'[p] = NoInode
  BY DEF FilesOK
<1>3. ASSUME NEW q \in Proc, q # p
      PROVE  pc'[q] = pc[q] /\ handle'[q] = handle[q] /\ reports'[q] = reports[q]
  BY <1>3 DEF FilesOK
<1>4. FilesOK'
  <2>1. AfterRead(p) \in Place
    BY DEF AfterRead, Place
  <2>2. reports' \in [Proc -> Seq(Report)]
    BY <1>1, EmptySeq DEF FilesOK, Content
  <2> QED
    BY <2>1, <2>2 DEF FilesOK
<1>5. Appending'
  BY <1>2, <1>3 DEF Appending, Writing, AfterRead, FilesOK
<1>6. Apart' /\ JournalWhole'
  <2>1. Apart'
    BY <1>2, <1>3 DEF Apart, AfterRead
  <2>2. Window(Len(committed))' = Window(Len(committed))
    BY DEF Window, Capped
  <2> QED
    BY <2>1, <2>2 DEF JournalWhole
<1>7. ReadersSee'
  <2>1. ASSUME NEW q \in Proc, q # p, pc[q] = "reading"
        PROVE  \E k \in since[q] .. Len(committed) :
                 data[handle'[q]] = [whole |-> TRUE, log |-> Window(k)']
    BY <1>3, <2>1, WindowSame DEF ReadersSee
  <2> QED
    BY <1>2, <1>3, <2>1 DEF ReadersSee, AfterRead
<1>8. WriterKnows'
  <2>1. op[p] = "append" => reports'[p] = Window(Len(committed))
    <3>1. reports'[p] = IF data[handle[p]].whole THEN data[handle[p]].log ELSE <<>>
      BY DEF FilesOK
    <3>2. ASSUME op[p] = "append" PROVE handle[p] = journal
      BY <3>2 DEF WriterKnows
    <3>3. journal # NoInode => data[journal] = [whole |-> TRUE, log |-> Window(Len(committed))]
      BY DEF JournalWhole
    <3> QED
      BY <1>1, <3>1, <3>2, <3>3
  <2>2. Window(Len(committed))' = Window(Len(committed))
    BY DEF Window, Capped
  <2>3. ASSUME NEW q \in Proc, q # p PROVE AddedFirst(q)' = AddedFirst(q)
    BY <1>3, <2>3 DEF AddedFirst, Capped
  <2> QED
    BY <1>2, <1>3, <2>1, <2>2, <2>3 DEF WriterKnows, Writing, AfterRead
<1> QED
  BY <1>4, <1>5, <1>6, <1>7, <1>8

-----------------------------------------------------------------------------
\* The steps of the writer.

\* Nobody else is writing.
LEMMA WriterIsAlone ==
  ASSUME SingleWriter, IInv, NEW p \in Proc, pc[p] \in Writing, NEW q \in Proc, q # p
  PROVE  op[q] # "append" /\ pc[q] \notin Writing
BY DEF SingleWriter, IInv, Appending

\* The temporary file is an inode nobody reads.
LEMMA OpenTmpIInv ==
  ASSUME SingleWriter, EnoughInodes, IInv, NEW p \in Proc, OpenTmp(p)
  PROVE  IInv'
<1> USE JsonAssumption DEF IInv, OpenTmp, Goto, lockVars
<1> DEFINE i == IF tmp = NoInode THEN Unused({journal, tmp}, handle) ELSE tmp
<1>1. /\ pc[p] = "tmp" /\ pc'[p] = "writing" /\ handle'[p] = i /\ tmp' = i
      /\ data' = [data EXCEPT ![i] = Empty]
  BY DEF FilesOK
<1>2. ASSUME NEW q \in Proc, q # p PROVE pc'[q] = pc[q] /\ handle'[q] = handle[q]
  BY <1>2 DEF FilesOK
<1>3. /\ i \in Inode /\ i # journal
      /\ \A q \in Proc : pc[q] = "reading" => handle[q] # i
  <2>1. CASE tmp = NoInode
    <3>1. handle[p] = NoInode
      BY DEF FilesOK, Apart
    <3> QED
      BY <2>1, <3>1, UnusedExists DEF FilesOK
  <2>2. CASE tmp # NoInode
    BY <2>2 DEF FilesOK, Apart
  <2> QED
    BY <2>1, <2>2
<1>4. data'[i] = Empty /\ \A j \in Inode : j # i => data'[j] = data[j]
  BY <1>1, <1>3 DEF FilesOK
<1> HIDE DEF i
<1>5. FilesOK'
  BY <1>1, <1>3, EmptySeq DEF FilesOK, Place, Content, Empty
<1>6. Appending'
  BY <1>1, <1>2 DEF Appending, Writing
<1>7. Apart'
  BY <1>1, <1>2, <1>3 DEF Apart
<1>8. Window(Len(committed))' = Window(Len(committed))
  BY DEF Window, Capped
<1>9. JournalWhole'
  BY <1>3, <1>4, <1>8 DEF JournalWhole, FilesOK
<1>10. ReadersSee'
  <2>1. ASSUME NEW q \in Proc, q # p, pc[q] = "reading"
        PROVE  \E k \in since[q] .. Len(committed) :
                 data'[handle'[q]] = [whole |-> TRUE, log |-> Window(k)']
    <3>1. handle'[q] = handle[q] /\ handle[q] \in Inode /\ handle[q] # i
      BY <1>2, <1>3, <2>1 DEF FilesOK, Apart
    <3>2. data'[handle'[q]] = data[handle[q]]
      BY <1>4, <3>1
    <3> QED
      BY <2>1, <3>2, WindowSame DEF ReadersSee
  <2>2. UNCHANGED <<since, committed>> /\ pc[p] # "idle" /\ pc'[p] # "reading"
    BY <1>1
  <2>3. ASSUME NEW q \in Proc, pc'[q] # "idle" PROVE since'[q] <= Len(committed)'
    BY <1>2, <2>2, <2>3 DEF ReadersSee
  <2>4. ASSUME NEW q \in Proc, pc'[q] = "reading"
        PROVE  \E k \in since'[q] .. Len(committed)' :
                 data'[handle'[q]] = [whole |-> TRUE, log |-> Window(k)']
    BY <1>2, <2>1, <2>2, <2>4
  <2> QED
    BY <2>3, <2>4 DEF ReadersSee
<1>11. WriterKnows'
  <2>1. reports'[p] = Window(Len(committed))'
    BY <1>1, <1>8 DEF WriterKnows, Writing
  <2>2. ASSUME NEW q \in Proc, q # p
        PROVE  op[q] # "append" /\ pc'[q] \notin Writing
               /\ (pc'[q] \in {"opening", "waiting", "loading", "reading"} => reports'[q] = <<>>)
    BY <1>1, <1>2, <2>2, WriterIsAlone DEF WriterKnows, Writing
  <2> QED
    BY <1>1, <1>3, <1>4, <2>1, <2>2 DEF WriterKnows, Writing
<1> QED
  BY <1>5, <1>6, <1>7, <1>9, <1>10, <1>11

\* What the writer writes is a journal.
LEMMA AddedIsLog ==
  ASSUME IInv, NEW p \in Proc, pc[p] \in Writing
  PROVE  report[p] \in Report /\ AddedFirst(p) \in Seq(Report)
<1>1. report[p] \in Report
  BY DEF IInv, Appending, Writing
<1>2. <<report[p]>> \o reports[p] \in Seq(Report)
  BY <1>1, ConcatProperties DEF IInv, FilesOK
<1> QED
  BY <1>1, <1>2, CappedLog DEF AddedFirst

\* Writing it changes nothing that is read.
LEMMA WriteTmpIInv ==
  ASSUME SingleWriter, IInv, NEW p \in Proc, WriteTmp(p)
  PROVE  IInv'
<1> USE JsonAssumption DEF IInv, WriteTmp, Goto, lockVars
<1> DEFINE new == [whole |-> TRUE, log |-> AddedFirst(p)]
<1>1. /\ pc[p] = "writing" /\ pc'[p] = "renaming" /\ handle'[p] = NoInode
      /\ handle[p] = tmp /\ tmp \in Inode /\ data[tmp] = Empty
  BY DEF FilesOK, WriterKnows
<1>2. ASSUME NEW q \in Proc, q # p PROVE pc'[q] = pc[q] /\ handle'[q] = handle[q]
  BY <1>2 DEF FilesOK
<1>3. data' = [data EXCEPT ![tmp] = new]
  <2>1. \A q \in Proc \ {p} : pc[q] # "writing"
    BY <1>1, WriterIsAlone DEF Writing
  <2> QED
    BY <1>1, <2>1
<1>4. data'[tmp] = new /\ \A j \in Inode : j # tmp => data'[j] = data[j]
  BY <1>1, <1>3 DEF FilesOK
<1>5. new \in Content
  BY <1>1, AddedIsLog DEF Content, Writing
<1> HIDE DEF new
<1>6. FilesOK'
  BY <1>1, <1>3, <1>5 DEF FilesOK, Place
<1>7. Appending'
  BY <1>1, <1>2 DEF Appending, Writing
<1>8. Apart'
  BY <1>1, <1>2 DEF Apart
<1>9. Window(Len(committed))' = Window(Len(committed))
  BY DEF Window, Capped
<1>10. JournalWhole'
  BY <1>1, <1>4, <1>9 DEF JournalWhole, FilesOK, Apart
<1>11. ReadersSee'
  <2>1. ASSUME NEW q \in Proc, q # p, pc[q] = "reading"
        PROVE  \E k \in since[q] .. Len(committed) :
                 data'[handle'[q]] = [whole |-> TRUE, log |-> Window(k)']
    <3>1. handle'[q] = handle[q] /\ handle[q] \in Inode /\ handle[q] # tmp
      BY <1>2, <2>1 DEF FilesOK, Apart
    <3>2. data'[handle'[q]] = data[handle[q]]
      BY <1>4, <3>1
    <3> QED
      BY <2>1, <3>2, WindowSame DEF ReadersSee
  <2> QED
    BY <1>1, <1>2, <2>1 DEF ReadersSee
<1>12. WriterKnows'
  <2>1. reports'[p] = Window(Len(committed))'
    BY <1>1, <1>9 DEF WriterKnows, Writing
  <2>2. ASSUME NEW q \in Proc, q # p
        PROVE  op[q] # "append" /\ pc'[q] \notin Writing
               /\ (pc'[q] \in {"opening", "waiting", "loading", "reading"} => reports'[q] = <<>>)
    BY <1>1, <1>2, <2>2, WriterIsAlone DEF WriterKnows, Writing
  <2>3. AddedFirst(p)' = AddedFirst(p)
    BY DEF AddedFirst, Capped
  <2> QED
    BY <1>1, <1>4, <2>1, <2>2, <2>3 DEF WriterKnows, Writing, new
<1> QED
  BY <1>6, <1>7, <1>8, <1>10, <1>11, <1>12

\* The rename makes the next journal of what was written.
LEMMA RenameStep ==
  ASSUME IInv, NEW p \in Proc, Rename(p)
  PROVE  /\ report[p] \in Report /\ journal' = tmp /\ tmp \in Inode
         /\ committed' = <<report[p]>> \o committed
         /\ data'[tmp] = [whole |-> TRUE, log |-> Capped(<<report[p]>> \o Window(Len(committed)))]
<1>1. report[p] \in Report
  BY AddedIsLog DEF Rename, Writing
<1> QED
  BY <1>1 DEF Rename, IInv, FilesOK, WriterKnows, Writing, AddedFirst

\* Renaming makes it the journal, which still was what the writer had read.
LEMMA RenameIInv ==
  ASSUME SingleWriter, IInv, NEW p \in Proc, Rename(p)
  PROVE  IInv'
<1> USE JsonAssumption DEF IInv, Rename, Goto, lockVars
<1>1. pc[p] = "renaming" /\ pc'[p] = "closing" /\ tmp' = NoInode
  BY DEF FilesOK
<1>2. ASSUME NEW q \in Proc, q # p PROVE pc'[q] = pc[q]
  BY <1>2 DEF FilesOK
<1>3. /\ committed' \in Seq(Report) /\ Len(committed') = Len(committed) + 1
      /\ \A k \in 0 .. Len(committed) : Window(k)' = Window(k)
      /\ Window(Len(committed))' = Capped(<<report[p]>> \o Window(Len(committed)))
  BY RenameStep, WindowStep DEF FilesOK
<1>4. Len(committed) \in Nat
  BY LenProperties DEF FilesOK
<1>5. FilesOK'
  BY <1>3 DEF FilesOK, Place
<1>6. Appending'
  BY <1>1, <1>2 DEF Appending, Writing
<1>7. Apart'
  BY <1>1, <1>2 DEF Apart
<1>8. JournalWhole'
  BY <1>3, RenameStep DEF JournalWhole
<1>9. ReadersSee'
  <2>1. ASSUME NEW q \in Proc, pc[q] = "reading"
        PROVE  \E k \in since[q] .. Len(committed') :
                 data[handle[q]] = [whole |-> TRUE, log |-> Window(k)']
    <3>1. PICK k \in since[q] .. Len(committed) :
            data[handle[q]] = [whole |-> TRUE, log |-> Window(k)]
      BY <2>1 DEF ReadersSee
    <3>2. k \in 0 .. Len(committed) /\ k \in since[q] .. Len(committed')
      <4>1. since[q] \in Nat
        BY DEF FilesOK
      <4> QED
        BY <4>1, <1>3, <1>4
    <3> QED
      BY <3>1, <3>2, <1>3
  <2>2. ASSUME NEW q \in Proc, pc[q] # "idle" PROVE since[q] <= Len(committed')
    <3>1. since[q] \in Nat /\ since[q] <= Len(committed)
      BY <2>2 DEF FilesOK, ReadersSee
    <3> QED
      BY <3>1, <1>3, <1>4
  <2> QED
    BY <1>1, <1>2, <2>1, <2>2 DEF ReadersSee
<1>10. WriterKnows'
  <2>1. ASSUME NEW q \in Proc, q # p
        PROVE  op[q] # "append" /\ pc'[q] \notin Writing
               /\ (pc'[q] \in {"opening", "waiting", "loading", "reading"} => reports'[q] = <<>>)
    BY <1>1, <1>2, <2>1, WriterIsAlone DEF WriterKnows, Writing
  <2> QED
    BY <1>1, <2>1 DEF WriterKnows, Writing
<1> QED
  BY <1>5, <1>6, <1>7, <1>8, <1>9, <1>10

\* A write that fails leaves the journal alone.
LEMMA WriteFailsIInv ==
  ASSUME SingleWriter, IInv, NEW p \in Proc, WriteFails(p)
  PROVE  IInv'
<1> USE JsonAssumption DEF IInv, WriteFails, Goto, lockVars
<1>1. /\ pc[p] \in Writing /\ pc'[p] = "closing" /\ tmp' = NoInode
      /\ handle'[p] = NoInode
  BY DEF FilesOK, Writing
<1>2. ASSUME NEW q \in Proc, q # p PROVE pc'[q] = pc[q] /\ handle'[q] = handle[q]
  BY <1>2 DEF FilesOK
<1>3. FilesOK'
  BY DEF FilesOK, Place
<1>4. Appending'
  BY <1>1, <1>2 DEF Appending, Writing
<1>5. Apart'
  BY <1>1, <1>2 DEF Apart
<1>6. JournalWhole'
  BY WindowSame DEF JournalWhole
<1>7. ReadersSee'
  <2>1. ASSUME NEW q \in Proc, q # p, pc[q] = "reading"
        PROVE  \E k \in since[q] .. Len(committed) :
                 data[handle'[q]] = [whole |-> TRUE, log |-> Window(k)']
    BY <1>2, <2>1, WindowSame DEF ReadersSee
  <2> QED
    BY <1>1, <1>2, <2>1 DEF ReadersSee, Writing
<1>8. WriterKnows'
  <2>1. ASSUME NEW q \in Proc, q # p
        PROVE  op[q] # "append" /\ pc'[q] \notin Writing
               /\ (pc'[q] \in {"opening", "waiting", "loading", "reading"} => reports'[q] = <<>>)
    BY <1>1, <1>2, <2>1, WriterIsAlone DEF WriterKnows, Writing
  <2> QED
    BY <1>1, <2>1 DEF WriterKnows, Writing
<1> QED
  BY <1>3, <1>4, <1>5, <1>6, <1>7, <1>8

-----------------------------------------------------------------------------
\* Every step keeps the invariant.
LEMMA NextIInv == SingleWriter /\ EnoughInodes /\ IInv /\ [Next]_vars => IInv'
<1> SUFFICES ASSUME SingleWriter, EnoughInodes, IInv, [Next]_vars PROVE IInv'
  OBVIOUS
<1>1. ASSUME NEW p \in Proc, UnlinkLock(p) PROVE IInv'
  <2>1. handle[p] = NoInode
    BY <1>1 DEF UnlinkLock, IInv, Apart
  <2> QED
    BY <1>1, <2>1, ReturnIInv DEF UnlinkLock, fileVars
<1>2. ASSUME NEW p \in Proc, Kill(p) PROVE IInv'
  BY <1>2, ReturnIInv DEF Kill, fileVars
<1>3. CASE UNCHANGED vars
  <2>1. \A k : Window(k)' = Window(k)
    BY <1>3 DEF vars, Window, Capped
  <2>2. \A p \in Proc : AddedFirst(p)' = AddedFirst(p)
    BY <1>3 DEF vars, AddedFirst, Capped
  <2>3. FilesOK' /\ Appending' /\ Apart'
    BY <1>3 DEF vars, IInv, FilesOK, Appending, Apart
  <2>4. JournalWhole'
    BY <1>3, <2>1 DEF vars, IInv, JournalWhole
  <2>5. ReadersSee'
    BY <1>3, <2>1 DEF vars, IInv, ReadersSee
  <2>6. WriterKnows'
    BY <1>3, <2>1, <2>2 DEF vars, IInv, WriterKnows
  <2> QED
    BY <2>3, <2>4, <2>5, <2>6 DEF IInv
<1> QED
  BY <1>1, <1>2, <1>3, CallIInv, OpenLockIInv, FlockIInv, LoadIInv, ReadIInv, OpenTmpIInv,
     WriteTmpIInv, RenameIInv, WriteFailsIInv, CloseLockIInv DEF Next, Step

\* The inductive invariant holds of every behaviour.
THEOREM Reachable == ASSUME SingleWriter, EnoughInodes PROVE Spec => []IInv
<1> USE InitIInv, NextIInv
<1> QED
  BY PTL DEF Spec

\* What a reader would find is the window of all decisions.
LEMMA LogIsWindow ==
  ASSUME IInv
  PROVE  Log = Window(Len(committed)) /\ (journal = NoInode => Window(Len(committed)) = <<>>)
<1>1. Window(Len(committed)) = Capped(committed)
  BY WholeWindow DEF IInv, FilesOK, Window
<1>2. journal = NoInode => committed = <<>>
  BY DEF IInv, JournalWhole
<1>3. journal # NoInode => data[journal] = [whole |-> TRUE, log |-> Window(Len(committed))]
  BY DEF IInv, JournalWhole
<1>4. Capped(<<>>) = <<>>
  BY EmptySeq, JsonAssumption DEF Capped
<1> QED
  BY <1>1, <1>2, <1>3, <1>4 DEF Log

\* The file implements the abstract journal, wherever the writer fails or is
\* killed and whoever else has the journal open: it only ever goes from one
\* whole journal to the journal with one more decision before the others.
THEOREM FileImplementsJournal ==
  ASSUME SingleWriter, EnoughInodes
  PROVE  Spec => ImplementsJournal
<1>1. Init => Abstract!Init
  BY DEF Init, Abstract!Init, Log
<1>2. IInv => Log = Window(Len(committed))
  BY LogIsWindow
<1>3. (IInv => Log = Window(Len(committed)))'
  BY <1>2, PTL
<1>4. IInv /\ [Next]_vars /\ IInv' => [Abstract!Next]_Log
  <2> SUFFICES ASSUME IInv, [Next]_vars, IInv' PROVE [Abstract!Next]_Log
    OBVIOUS
  <2>1. ASSUME NEW p \in Proc, Rename(p) PROVE Abstract!Next
    <3>1. /\ report[p] \in Report
          /\ Log' = Capped(<<report[p]>> \o Window(Len(committed)))
      <4> DEFINE l == Capped(<<report[p]>> \o Window(Len(committed)))
      <4>1. /\ report[p] \in Report /\ journal' = tmp /\ tmp \in Inode
            /\ data'[tmp] = [whole |-> TRUE, log |-> l]
        BY <2>1, RenameStep
      <4> HIDE DEF l
      <4>2. Log' = l
        BY <4>1, JsonAssumption DEF Log
      <4> QED
        BY <4>1, <4>2 DEF l
    <3>2. Log' = Capped(<<report[p]>> \o Log)
      BY <3>1, LogIsWindow
    <3> QED
      BY <3>1, <3>2 DEF Abstract!Next, Abstract!AppendDecision, Abstract!Newest, Capped
  <2>2. ASSUME UNCHANGED committed PROVE UNCHANGED Log
    <3>1. Log = Window(Len(committed))
      BY LogIsWindow
    <3>2. Log' = Window(Len(committed))'
      BY <1>3
    <3> QED
      BY <2>2, <3>1, <3>2 DEF Window, Capped
  <2> QED
    BY <2>1, <2>2 DEF Next, Step, Call, OpenLock, Flock, Load, Read, OpenTmp, WriteTmp,
       WriteFails, CloseLock, UnlinkLock, Kill, vars
<1> QED
  BY <1>1, <1>4, Reachable, PTL DEF Spec, ImplementsJournal, Abstract!Spec

\* Whoever reads, with the lock or without it, gets the journal as it was at
\* some moment of its call.
THEOREM ReadersAreCurrent ==
  ASSUME SingleWriter, EnoughInodes
  PROVE  Spec => ReadsAreCurrent
<1> DEFINE Current ==
      \A p \in Proc : Read(p) \/ (Load(p) /\ journal = NoInode)
        => \E k \in since[p] .. Len(committed) : reports'[p] = Window(k)
<1>1. IInv /\ [Next]_vars => [Current]_vars
  <2> SUFFICES ASSUME IInv PROVE Current
    OBVIOUS
  <2>1. ASSUME NEW p \in Proc, Read(p)
        PROVE  \E k \in since[p] .. Len(committed) : reports'[p] = Window(k)
    <3>1. pc[p] = "reading" /\ reports'[p] = IF data[handle[p]].whole THEN data[handle[p]].log ELSE <<>>
      BY <2>1 DEF Read, IInv, FilesOK
    <3>2. PICK k \in since[p] .. Len(committed) :
            data[handle[p]] = [whole |-> TRUE, log |-> Window(k)]
      BY <3>1 DEF IInv, ReadersSee
    <3> QED
      BY <3>1, <3>2
  <2>2. ASSUME NEW p \in Proc, Load(p), journal = NoInode
        PROVE  \E k \in since[p] .. Len(committed) : reports'[p] = Window(k)
    <3>1. reports'[p] = <<>> /\ Window(Len(committed)) = <<>>
      BY <2>2, LogIsWindow DEF Load, IInv, WriterKnows
    <3>2. Len(committed) \in since[p] .. Len(committed)
      <4>1. Len(committed) \in Nat /\ since[p] \in Nat /\ since[p] <= Len(committed)
        BY <2>2, LenProperties DEF Load, IInv, FilesOK, ReadersSee
      <4> QED
        BY <4>1
    <3> QED
      BY <3>1, <3>2
  <2> QED
    BY <2>1, <2>2
<1> QED
  BY <1>1, Reachable, PTL DEF Spec, ReadsAreCurrent
================================================================================
